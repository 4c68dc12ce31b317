--------------------------- MODULE SlashCommands ---------------------------
(***************************************************************************)
(* Where an input goes: pushInput of core/agents/agent-core.ts and the     *)
(* handler chain of core/infrastructure/command-registry.ts.               *)
(*                                                                         *)
(* A plain input joins the event queue within the call.  A slash command   *)
(* is taken by an asynchronous function that runs beside the turns: it     *)
(* asks the handlers of that name one after the other, the first that      *)
(* answers ends it, one that throws ends it with an error, and a command   *)
(* that nobody answers joins the queue only then, behind what was typed    *)
(* while the handlers were asked.  The chain is the live array: a handler  *)
(* registered meanwhile by a plugin that loads is asked too.               *)
(*                                                                         *)
(* An input is its number, in the order of the calls of pushInput.         *)
(***************************************************************************)
EXTENDS Naturals, Sequences, FiniteSets

CONSTANTS
  Names,         \* names of commands
  Plain,         \* what an input names that is no slash command
  MaxInputs,     \* bound on the inputs
  MaxHandlers    \* bound on the handlers of one name

VARIABLES
  handlers,      \* how many handlers each name has, in registration order
  inputs,        \* per input: what it names, where it is, which handler has it
  queue,         \* the inputs given to the event queue
  said           \* the answers and errors shown: [of, kind]

vars == <<handlers, inputs, queue, said>>

Places == {"asked", "passed", "queued", "answered", "failed"}

Init ==
  /\ handlers = [c \in Names |-> 0]
  /\ inputs = <<>>
  /\ queue = <<>>
  /\ said = <<>>

Number == Len(inputs) + 1

\* A plugin that loads registers one more handler.
Register(c) ==
  /\ handlers[c] < MaxHandlers
  /\ handlers' = [handlers EXCEPT ![c] = @ + 1]
  /\ UNCHANGED <<inputs, queue, said>>

Typed(c, place) ==
  inputs' = Append(inputs, [name |-> c, place |-> place, at |-> 1,
                            known |-> IF place = "asked" THEN handlers[c] ELSE 0])

PushPlain ==
  /\ Number <= MaxInputs
  /\ Typed(Plain, "queued")
  /\ queue' = Append(queue, Number)
  /\ UNCHANGED <<handlers, said>>

\* A session id of the wrong form, and a name without handlers, count as not
\* handled; that too is known only after a turn of the microtask queue.
PushCommand(c, wellFormed) ==
  /\ Number <= MaxInputs
  /\ Typed(c, IF wellFormed /\ handlers[c] > 0 THEN "asked" ELSE "passed")
  /\ UNCHANGED <<handlers, queue, said>>

Asked(n) == n \in DOMAIN inputs /\ inputs[n].place = "asked"

HandlerPasses(n) ==
  /\ Asked(n)
  /\ inputs' = [inputs EXCEPT ![n].at = @ + 1,
                              ![n].place = IF inputs[n].at < handlers[inputs[n].name]
                                           THEN "asked" ELSE "passed"]
  /\ UNCHANGED <<handlers, queue, said>>

\* Mutant: the answer is shown and the command is given to the model as well.
AnswersAndQueues(n) ==
  /\ Asked(n)
  /\ inputs' = [inputs EXCEPT ![n].place = "answered"]
  /\ said' = Append(said, [of |-> n, kind |-> "answer"])
  /\ queue' = Append(queue, n)
  /\ UNCHANGED handlers

HandlerAnswers(n) ==
  /\ Asked(n)
  /\ inputs' = [inputs EXCEPT ![n].place = "answered"]
  /\ said' = Append(said, [of |-> n, kind |-> "answer"])
  /\ UNCHANGED <<handlers, queue>>

HandlerThrows(n) ==
  /\ Asked(n)
  /\ inputs' = [inputs EXCEPT ![n].place = "failed"]
  /\ said' = Append(said, [of |-> n, kind |-> "error"])
  /\ UNCHANGED <<handlers, queue>>

\* Nobody answered: the input goes to the model after all.
QueueUnhandled(n) ==
  /\ n \in DOMAIN inputs
  /\ inputs[n].place = "passed"
  /\ inputs' = [inputs EXCEPT ![n].place = "queued"]
  /\ queue' = Append(queue, n)
  /\ UNCHANGED <<handlers, said>>

Next ==
  \/ PushPlain
  \/ \E c \in Names : Register(c) \/ \E w \in BOOLEAN : PushCommand(c, w)
  \/ \E n \in DOMAIN inputs : HandlerPasses(n) \/ HandlerAnswers(n) \/ HandlerThrows(n)
                              \/ QueueUnhandled(n)

Spec == Init /\ [][Next]_vars

-----------------------------------------------------------------------------
Times(n, seq) == Cardinality({i \in DOMAIN seq : seq[i] = n})

TypeOK ==
  /\ handlers \in [Names -> 0 .. MaxHandlers]
  /\ \A n \in DOMAIN inputs :
       /\ inputs[n].name \in Names \cup {Plain}
       /\ inputs[n].place \in Places
       /\ inputs[n].at \in 1 .. MaxHandlers + 1
  /\ \A i \in DOMAIN queue : queue[i] \in DOMAIN inputs
  /\ \A i \in DOMAIN said : said[i].of \in DOMAIN inputs

\* Every input ends in one place and is seen there once: in the queue, as an
\* answer or as an error; a command that is still with its handlers is nowhere yet.
EndsOnce ==
  \A n \in DOMAIN inputs :
    Times(n, queue) + Cardinality({i \in DOMAIN said : said[i].of = n})
      = IF inputs[n].place \in {"asked", "passed"} THEN 0 ELSE 1

\* What is no command keeps the order it was typed in, whatever commands do beside it.
PlainStayInOrder ==
  \A i, j \in DOMAIN queue :
    (/\ i < j
     /\ inputs[queue[i]].name = Plain
     /\ inputs[queue[j]].name = Plain) => queue[i] < queue[j]

\* A command reaches the model only when every handler it had when it was typed
\* was asked and passed, and those registered while it was asked as well.
AllWereAsked ==
  \A n \in DOMAIN inputs :
    inputs[n].place \in {"passed", "queued"} => inputs[n].at > inputs[n].known

InputsEndOnce == EndsOnce /\ PlainStayInOrder /\ AllWereAsked

\* Does not hold: inputs reach the model in the order they were typed.
TypedOrder == \A i, j \in DOMAIN queue : i < j => queue[i] < queue[j]
=============================================================================
