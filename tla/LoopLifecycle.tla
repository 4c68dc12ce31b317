--------------------------- MODULE LoopLifecycle ---------------------------
(***************************************************************************)
(* What the execution loop promises of its state: the state machine drawn  *)
(* at the head of packages/core/src/execution/loop.ts, with the exits that *)
(* the drawing leaves out (no model selected, too many tool rounds, stop,  *)
(* an exception), as an observer sees it between the loop's steps.         *)
(*                                                                         *)
(* LoopLifecycle is the abstract specification; ExecutionLoop implements   *)
(* it.  AWAITING_LLM does not appear: the loop sets it and, before it      *)
(* suspends, PROCESSING_RESPONSE.                                          *)
(***************************************************************************)
EXTENDS Naturals

CONSTANT MaxRounds    \* tool rounds a turn may reach

VARIABLES
    phase,            \* the loop's state, or "off", "stopped", "dead"
    rounds            \* tool rounds of the current (or last) turn

vars == <<phase, rounds>>

Move(from, to) == phase \in from /\ phase' \in to

Init == phase = "off" /\ rounds = 0

Boot    == Move({"off"}, {"WAITING_FOR_EVENT"}) /\ UNCHANGED rounds

Accept  == Move({"WAITING_FOR_EVENT"}, {"ASSEMBLING_CONTEXT"}) /\ rounds' = 0

Call    == Move({"ASSEMBLING_CONTEXT"}, {"PROCESSING_RESPONSE"}) /\ UNCHANGED rounds

Execute == /\ Move({"PROCESSING_RESPONSE"}, {"EXECUTING_TOOLS"})
           /\ rounds < MaxRounds
           /\ rounds' = rounds + 1

Again   == /\ Move({"EXECUTING_TOOLS"}, {"ASSEMBLING_CONTEXT"})
           /\ rounds < MaxRounds
           /\ UNCHANGED rounds

Finish  == /\ Move({"ASSEMBLING_CONTEXT", "PROCESSING_RESPONSE", "EXECUTING_TOOLS"},
                   {"WAITING_FOR_EVENT"})
           /\ UNCHANGED rounds

Breach  == /\ Move({"ASSEMBLING_CONTEXT", "EXECUTING_TOOLS"}, {"SAFETY_LOCKOUT"})
           /\ UNCHANGED rounds

Unlock  == Move({"SAFETY_LOCKOUT"}, {"WAITING_FOR_EVENT"}) /\ UNCHANGED rounds

Leave   == Move({"WAITING_FOR_EVENT", "SAFETY_LOCKOUT"}, {"stopped"}) /\ UNCHANGED rounds

Die     == /\ Move({"ASSEMBLING_CONTEXT", "PROCESSING_RESPONSE", "EXECUTING_TOOLS"}, {"dead"})
           /\ UNCHANGED rounds

TurnStep == Call \/ Execute \/ Again \/ Finish \/ Breach \/ Die

Next == Boot \/ Accept \/ TurnStep \/ Unlock \/ Leave

\* What the loop may do.
Safety == Init /\ [][Next]_vars

\* A turn that has begun goes on: it ends, in lockout, or dead.
Spec == Safety /\ WF_vars(TurnStep)
=============================================================================
