--------------------------- MODULE MCChildDaemons ---------------------------
(* Model-checking instances of ChildDaemons, in parts that together stay       *)
(* small: calls that overlap with nothing supervised and no crash before the   *)
(* cascade, forks, and supervised children; in the last two one call at a time *)
(* and below the root.                                                         *)
EXTENDS ChildDaemons

CONSTANTS a, b

VARIABLE half

Forking == \E s \in Slots : calls'[s] # Idle /\ calls'[s].fork

Part ==
    /\ half # "tree" => watched' = <<>> /\ broken = {}
    /\ half # "forks" => ~Forking
    /\ half # "calls" =>
        /\ calls'[2] = Idle
        /\ calls'[1] # Idle => calls'[1].parent = Root
    /\ half = "calls" =>
        /\ alive \subseteq alive' \/ phase' = "reaped"
        /\ calls'[2] # Idle => calls'[2].parent \in {Root, a}
        /\ registry' = <<>> => calls'[2] = Idle

Halves == [][Next /\ Part /\ UNCHANGED half]_<<vars, half>> /\ WF_vars(Tick)

HalvesInit == Init /\ half \in {"calls", "forks", "tree"}
HalvesSpec == HalvesInit /\ Halves
CallsSpec == HalvesInit /\ half = "calls" /\ Halves
=============================================================================
