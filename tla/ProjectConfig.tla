---------------------------- MODULE ProjectConfig ----------------------------
(***************************************************************************)
(* How "start" makes the agent's configuration out of the system's and of  *)
(* the project's .openstarry/ directory: commands/start.ts with            *)
(* project-detector.ts, permission-validator.ts, config-merger.ts,         *)
(* config-validator.ts and schema-drift-policy/index.ts.                   *)
(*                                                                         *)
(* A path is the sequence of the names on it, so p is above d exactly when *)
(* it is a prefix; a limit of 0 stands for one that is not given.  One     *)
(* limit stands for the four that are merged alike; the floor is the mirror *)
(* image of a limit.                                                        *)
(***************************************************************************)
EXTENDS Integers, Sequences, FiniteSets

CONSTANTS
  Dirs,        \* the paths of the file system, <<>> its root
  Tools,
  Limits,      \* values of maxTokens and its like, without 0
  MaxPaths     \* bound on a list of paths

VARIABLES
  stage,
  cwd, marked,   \* where start runs; the directories with a .openstarry in them
  system,        \* the configuration loaded
  project,       \* what the files of the project say; "given": what of it is there
  root,          \* the project found, or NoProject
  config         \* the configuration so far

inputs == <<cwd, marked, system, project>>
vars == <<stage, cwd, marked, system, project, root, config>>

NoProject == <<"no project">>

Above(p, d) == Len(p) <= Len(d) /\ SubSeq(d, 1, Len(p)) = p
Under(paths) == {d \in Dirs : \E p \in paths : Above(p, d)}

Lists == {s \in SUBSET Dirs : Cardinality(s) <= MaxPaths}

Init ==
  /\ stage = "detect"
  /\ cwd \in Dirs
  /\ marked \in Lists
  /\ system \in [paths : Lists, tools : SUBSET Tools, limit : Limits \cup {0}]
  /\ project = [given |-> {}, paths |-> {}, tools |-> {}, denied |-> {}, limit |-> 0,
                plugins |-> {}]
  /\ root = NoProject
  /\ config = system

\* findProjectRoot: the nearest directory above that has one
Nearest(ds) == CHOOSE d \in ds : \A e \in ds : Len(e) <= Len(d)

Detect ==
  /\ stage = "detect"
  /\ LET above == {d \in marked : Above(d, cwd)}
     IN IF above = {} THEN stage' = "validate" /\ UNCHANGED root
        ELSE stage' = "directory" /\ root' = Nearest(above)
  /\ UNCHANGED <<inputs, config>>

\* isPathSafe: strictly below the root
PathSafe(d) == Above(root, d) /\ d # root

Abort == stage' = "aborted"

\* validateProjectConfig, steps 1 to 4: the directory is still there, is one,
\* and is really inside the project
CheckDirectory ==
  /\ stage = "directory"
  /\ \E real \in Dirs \cup {NoProject} :
       IF real # NoProject /\ PathSafe(real) THEN stage' = "config" ELSE Abort
  /\ UNCHANGED <<inputs, root, config>>

\* Steps 5 to 8 for a file: not there; outside, too large, no JSON or against
\* its schema, which aborts whatever the drift policy's mode; or fine.
Outcomes == {"absent", "bad", "ok"}

\* config.json may also hold keys it must not: they are left out with a warning
CheckConfig ==
  /\ stage = "config"
  /\ \E outcome \in Outcomes \cup {"unknown keys"} :
       IF outcome = "bad" THEN Abort ELSE stage' = "permissions"
  /\ UNCHANGED <<inputs, root, config>>

\* permissions.json; step 9 looks at each path it allows
CheckPermissions ==
  /\ stage = "permissions"
  /\ \E outcome \in Outcomes :
       \/ outcome = "bad" /\ Abort /\ UNCHANGED project
       \/ outcome = "absent" /\ stage' = "plugins" /\ UNCHANGED project
       \/ /\ outcome = "ok"
          /\ \E given \in SUBSET {"paths", "tools"}, paths \in Lists,
                tools, denied \in SUBSET Tools, limit \in Limits \cup {0} :
               /\ "paths" \notin given => paths = {}
               /\ "tools" \notin given => tools = {}
               /\ project' = [project EXCEPT !.given = given, !.paths = paths, !.tools = tools,
                                !.denied = denied, !.limit = limit]
               /\ IF \E p \in paths : ~PathSafe(p) THEN Abort ELSE stage' = "plugins"
  /\ UNCHANGED <<cwd, marked, system, root, config>>

\* plugins.json; step 9 looks at each path, and where it leads if it is there
CheckPlugins ==
  /\ stage = "plugins"
  /\ \E outcome \in Outcomes :
       \/ outcome = "bad" /\ Abort /\ UNCHANGED project
       \/ outcome = "absent" /\ stage' = "merge" /\ UNCHANGED project
       \/ /\ outcome = "ok"
          /\ \E path, real \in Dirs :
               /\ project' = [project EXCEPT !.plugins = {real}]
               /\ IF PathSafe(path) /\ PathSafe(real) THEN stage' = "merge" ELSE Abort
  /\ UNCHANGED <<cwd, marked, system, root, config>>

-----------------------------------------------------------------------------
(* mergeConfigs                                                             *)

Smaller(a, b) == IF a = 0 THEN b ELSE IF b = 0 \/ a < b THEN a ELSE b

\* A bug: an overlap either way counts as containment.
KeptEither(paths) == {p \in paths : \E s \in system.paths : Above(s, p) \/ Above(p, s)}
\* The project's paths below one of the system's: a path above one is dropped,
\* not narrowed.
Kept(paths) == {p \in paths : \E s \in system.paths : Above(s, p)}

MergedPaths ==
  CASE "paths" \notin project.given -> system.paths
    [] "paths" \in project.given /\ system.paths = {} -> project.paths
    [] OTHER -> Kept(project.paths)

MergedTools ==
  (IF "tools" \notin project.given THEN system.tools
   ELSE IF system.tools = {} THEN project.tools
   ELSE system.tools \cap project.tools) \ project.denied

Merge ==
  /\ stage = "merge"
  /\ IF "paths" \in project.given /\ system.paths # {} /\ MergedPaths = {}
     THEN Abort /\ UNCHANGED config
     ELSE /\ stage' = "validate"
          /\ config' = [paths |-> MergedPaths, tools |-> MergedTools,
                        limit |-> Smaller(system.limit, project.limit)]
  /\ UNCHANGED <<inputs, root>>

\* validateConfig: an agent without tools is an error, one without paths a
\* warning only
Validate ==
  /\ stage = "validate"
  /\ IF config.tools = {} THEN Abort ELSE stage' = "default"
  /\ UNCHANGED <<inputs, root, config>>

\* The working directory stands in for paths nobody gave, unless the project
\* gave an empty list on purpose.
DefaultPaths ==
  /\ stage = "default"
  /\ config' = [config EXCEPT !.paths =
                  IF @ = {} /\ "paths" \notin project.given THEN {cwd} ELSE @]
  /\ stage' = "started"
  /\ UNCHANGED <<inputs, root>>

Next ==
  \/ Detect \/ CheckDirectory \/ CheckConfig \/ CheckPermissions \/ CheckPlugins
  \/ Merge \/ Validate \/ DefaultPaths

Spec == Init /\ [][Next]_vars

-----------------------------------------------------------------------------
TypeOK ==
  /\ stage \in {"detect", "directory", "config", "permissions", "plugins", "merge",
                "validate", "default", "started", "aborted"}
  /\ root = NoProject \/ root \in marked
  /\ config.paths \subseteq Dirs /\ config.tools \subseteq Tools

\* A project only restricts: the agent reaches no directory the system's own
\* list does not reach, no tool outside it, no tool the project denies, and
\* every limit is the stricter one; where the system gave no list, nothing
\* outside the project, or outside the working directory if there is none
\* ("restrict-only merge semantics", config-merger.ts).
ProjectsOnlyRestrict ==
  stage = "started" =>
    /\ Under(config.paths) \subseteq
         Under(CASE system.paths # {} -> system.paths
                 [] system.paths = {} /\ "paths" \in project.given -> {root}
                 [] OTHER -> {cwd})
    /\ system.tools # {} => config.tools \subseteq system.tools
    /\ config.tools \cap project.denied = {}
    /\ \A l \in {system.limit, project.limit} \ {0} : config.limit <= l /\ config.limit # 0

\* Nothing both sides allow is lost, unless the project asked for more than
\* the system allows: then what it shares with the system may be gone.
SharedPathsStay ==
  stage = "started" /\ "paths" \in project.given /\ system.paths # {}
    /\ (\A p \in project.paths : \E s \in system.paths : Above(s, p))
  => Under(config.paths) = Under(system.paths) \cap Under(project.paths)
=============================================================================
