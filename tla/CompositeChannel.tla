-------------------------- MODULE CompositeChannel --------------------------
(***************************************************************************)
(* Several channels behind one: apps/runner/src/daemon/composite-channel.ts *)
(* and the PipelineChannel of pipeline-channel.ts for the status a leaf    *)
(* has.                                                                    *)
(*                                                                         *)
(* The composite connects all its children together and waits for all of   *)
(* them; it sends by one of three strategies.  connect, disconnect and     *)
(* send suspend while the children work, may overlap, and send does not    *)
(* look at the composite's own status.  A child takes a message only when  *)
(* it is connected and may refuse one; a refused message is not delivered. *)
(* One connect and one disconnect are under way at a time.                 *)
(***************************************************************************)
EXTENDS Naturals, FiniteSets, Sequences

CONSTANTS
  Kids,          \* number of children that send, in order
  MaxCalls,      \* bound on connects and disconnects
  MaxSends,      \* bound on sends
  MaxTrouble     \* bound on what children refuse or lose

VARIABLES
  strategy,      \* chosen at construction
  status,        \* of the composite
  kids,          \* per child: "disconnected", "connected" or "error"
  call,          \* the connect or disconnect under way: per child what it waits for
  overlap,       \* a connect and a disconnect were under way together
  sends,         \* per send: the children asked, those that answered, the verdict
  took,          \* per child: the sends it delivered
  calls, trouble

vars == <<strategy, status, kids, call, overlap, sends, took, calls, trouble>>

Children == 1 .. Kids
Strategies == {"fallback", "broadcast", "pipeline"}

Resting == [open |-> FALSE, waits |-> {}]

Init ==
  /\ strategy \in Strategies
  /\ status = "disconnected"
  /\ kids = [k \in Children |-> "disconnected"]
  /\ call = [c \in {"connect", "disconnect"} |-> Resting]
  /\ overlap = FALSE
  /\ sends = <<>>
  /\ took = [k \in Children |-> {}]
  /\ calls = 0
  /\ trouble = 0

UnchangedSends == UNCHANGED <<strategy, sends, took>>

Trouble == trouble < MaxTrouble /\ trouble' = trouble + 1

-----------------------------------------------------------------------------
(* connect and disconnect.                                                 *)

Other(c) == IF c = "connect" THEN "disconnect" ELSE "connect"

Begin(c) ==
  /\ ~call[c].open /\ call[c].waits = {}
  /\ calls < MaxCalls
  /\ calls' = calls + 1
  /\ status' = IF c = "connect" THEN "connecting" ELSE "draining"
  /\ call' = [call EXCEPT ![c] = [open |-> TRUE, waits |-> Children]]
  /\ overlap' = (overlap \/ call[Other(c)].waits # {} \/ call[Other(c)].open)
  /\ UNCHANGED <<kids, trouble>>
  /\ UnchangedSends

\* Promise.all of the connects: the last one that succeeds ends it, the first
\* that fails ends it at once while the others go on.
KidConnects(k) ==
  /\ k \in call["connect"].waits
  /\ kids' = [kids EXCEPT ![k] = "connected"]
  /\ LET waits == call["connect"].waits \ {k}
         done == call["connect"].open /\ waits = {} IN
     /\ call' = [call EXCEPT !["connect"] =
                   [open |-> call["connect"].open /\ ~done, waits |-> waits]]
     /\ status' = IF done THEN "connected" ELSE status
  /\ UNCHANGED <<overlap, calls, trouble>>
  /\ UnchangedSends

\* Mutant: the composite waits until all have settled and asks for no success.
KidSettles(k) ==
  LET waits == call["connect"].waits \ {k}
      done == call["connect"].open /\ waits = {} IN
  /\ k \in call["connect"].waits
  /\ Trouble
  /\ kids' = [kids EXCEPT ![k] = "error"]
  /\ call' = [call EXCEPT !["connect"] =
                [open |-> call["connect"].open /\ ~done, waits |-> waits]]
  /\ status' = IF done THEN "connected" ELSE status
  /\ UNCHANGED <<overlap, calls>>
  /\ UnchangedSends

KidFails(k) ==
  /\ k \in call["connect"].waits
  /\ Trouble
  /\ kids' = [kids EXCEPT ![k] = "error"]
  /\ call' = [call EXCEPT !["connect"] = [open |-> FALSE, waits |-> @.waits \ {k}]]
  /\ status' = IF call["connect"].open THEN "error" ELSE status
  /\ UNCHANGED <<overlap, calls>>
  /\ UnchangedSends

\* A child whose disconnect fails counts as disconnected for the composite.
KidDisconnects(k, gone) ==
  /\ k \in call["disconnect"].waits
  /\ gone \/ trouble < MaxTrouble
  /\ trouble' = IF gone THEN trouble ELSE trouble + 1
  /\ kids' = [kids EXCEPT ![k] = IF gone THEN "disconnected" ELSE @]
  /\ LET waits == call["disconnect"].waits \ {k} IN
     /\ call' = [call EXCEPT !["disconnect"] = [open |-> waits # {}, waits |-> waits]]
     /\ status' = IF waits = {} THEN "disconnected" ELSE status
  /\ UNCHANGED <<overlap, calls>>
  /\ UnchangedSends

-----------------------------------------------------------------------------
(* send.                                                                   *)

New == Len(sends) + 1

\* A broadcast asks all children at once, the others begin with the first.
Send ==
  /\ New <= MaxSends
  /\ sends' = Append(sends, [asked |-> IF strategy = "broadcast" THEN Children ELSE {1},
                             refused |-> {}, verdict |-> "open"])
  /\ UNCHANGED <<strategy, status, kids, call, overlap, took, calls, trouble>>

\* The children that were asked and have not answered.
Out(s) == {k \in sends[s].asked \ sends[s].refused : s \notin took[k]}

Ended(s, asked, refused, verdict) ==
  sends' = [sends EXCEPT ![s] = [asked |-> asked, refused |-> refused, verdict |-> verdict]]

\* What a child's answer leads to: fallback returns with the first success and
\* goes on after a failure, a pipeline does the opposite, a broadcast waits for
\* all and fails only when all did.
Answered(s, k, delivered) ==
  LET asked == sends[s].asked
      refused == sends[s].refused \cup (IF delivered THEN {} ELSE {k})
      onward == IF k < Kids THEN asked \cup {k + 1} ELSE asked IN
  CASE strategy = "fallback" ->
         IF delivered THEN Ended(s, asked, refused, "resolved")
         ELSE Ended(s, onward, refused, IF k < Kids THEN "open" ELSE "rejected")
    [] strategy = "pipeline" ->
         IF ~delivered THEN Ended(s, asked, refused, "rejected")
         ELSE Ended(s, onward, refused, IF k < Kids THEN "open" ELSE "resolved")
    [] strategy = "broadcast" ->
         Ended(s, asked, refused,
               IF Out(s) # {k} THEN "open"
               ELSE IF refused = Children THEN "rejected" ELSE "resolved")

Goes(s, k) == s \in DOMAIN sends /\ sends[s].verdict = "open" /\ k \in Out(s)

Delivers(s, k) ==
  /\ Goes(s, k)
  /\ kids[k] = "connected"
  /\ took' = [took EXCEPT ![k] = @ \cup {s}]
  /\ Answered(s, k, TRUE)
  /\ UNCHANGED <<strategy, status, kids, call, overlap, calls, trouble>>

\* Not connected, or the message is denied.
Refuses(s, k) ==
  /\ Goes(s, k)
  /\ kids[k] = "connected" => trouble < MaxTrouble
  /\ trouble' = IF kids[k] = "connected" THEN trouble + 1 ELSE trouble
  /\ Answered(s, k, FALSE)
  /\ UNCHANGED <<strategy, status, kids, call, overlap, took, calls>>

Next ==
  \/ \E c \in {"connect", "disconnect"} : Begin(c)
  \/ \E k \in Children :
       \/ KidConnects(k) \/ KidFails(k)
       \/ \E gone \in BOOLEAN : KidDisconnects(k, gone)
  \/ Send
  \/ \E s \in DOMAIN sends, k \in Children : Delivers(s, k) \/ Refuses(s, k)

Spec == Init /\ [][Next]_vars

-----------------------------------------------------------------------------
TypeOK ==
  /\ status \in {"disconnected", "connecting", "connected", "draining", "error"}
  /\ kids \in [Children -> {"disconnected", "connected", "error"}]
  /\ \A s \in DOMAIN sends :
       /\ sends[s].asked \subseteq Children
       /\ sends[s].refused \subseteq sends[s].asked
       /\ sends[s].verdict \in {"open", "resolved", "rejected"}
  /\ took \in [Children -> SUBSET (1 .. MaxSends)]

Takers(s) == {k \in Children : s \in took[k]}

\* What a send says of the message is what became of it: by fallback at most one
\* child delivered it, and one exactly when it resolves; a pipeline delivered it
\* through the first children, and through all exactly when it resolves; a
\* broadcast that ends failed exactly when no child delivered it.
VerdictsAreTrue ==
  \A s \in DOMAIN sends :
    CASE strategy = "fallback" ->
           /\ Cardinality(Takers(s)) <= 1
           /\ sends[s].verdict = "resolved" <=> Takers(s) # {}
      [] strategy = "pipeline" ->
           /\ \A k \in Takers(s), j \in Children : j < k => j \in Takers(s)
           /\ sends[s].verdict = "resolved" <=> Takers(s) = Children
      [] strategy = "broadcast" ->
           /\ sends[s].verdict = "resolved" => Takers(s) # {}
           /\ sends[s].verdict = "rejected" => Takers(s) = {}

\* A composite that says it is connected has no child that failed to connect or
\* was disconnected, as long as no disconnect ran beside a connect.
ConnectedMeansAll ==
  (status = "connected" /\ ~overlap) => \A k \in Children : kids[k] = "connected"

CompositeIsTrue == VerdictsAreTrue /\ ConnectedMeansAll
=============================================================================
