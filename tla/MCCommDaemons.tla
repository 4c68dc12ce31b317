---------------------------- MODULE MCCommDaemons ----------------------------
(* Model-checking instances of CommDaemons: three agents, every two of which   *)
(* may talk but for a2 and a3, so that a route can end early.                  *)
EXTENDS CommDaemons

CONSTANTS a1, a2, a3

Three == {a1, a2, a3}
ThreeSend == [a \in Three |-> IF a = a2 THEN {a1} ELSE Three \ {a}]
ThreeReceive == [a \in Three |-> IF a = a3 THEN {a1} ELSE Three \ {a}]
ThreeRoutes == {<<a2, a3>>}
=============================================================================
