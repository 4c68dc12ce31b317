--------------------------- MODULE MCRunnerParts ---------------------------
(***************************************************************************)
(* RunnerParts and ChannelParts on a small instance of each component: one  *)
(* of the two moves, and the other keeps one initial state.                 *)
(***************************************************************************)
EXTENDS RunnerParts, ChannelParts

\* Two of three parents share the file their numbers are kept in.
SharedStem == [p \in Parents |-> IF p = "a" THEN "f" ELSE "g"]

\* The second plugin is in the workspace.
TwoPlugins == <<"p", "q">>

\* Directories on the way to the working directory, and one beside it.
Tree == {<<>>, <<"a">>, <<"a", "b">>, <<"c">>}

-----------------------------------------------------------------------------
VARIABLE side

BothInit ==
    /\ side \in {"runner", "channel"}
    /\ PartsInit /\ LinksInit
    /\ side = "runner" => link = "clients"
    /\ side = "channel" => part = "daemons"

BothNext ==
    \/ side = "runner" /\ PartsNext /\ UNCHANGED <<side, linkVars>>
    \/ side = "channel" /\ LinksNext /\ UNCHANGED <<side, allVars>>

BothSpec == BothInit /\ [][BothNext]_<<side, allVars, linkVars>>
=============================================================================
