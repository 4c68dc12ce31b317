---------------------------- MODULE PluginInstall ----------------------------
(***************************************************************************)
(* The plugin directory ~/.openstarry/plugins/installed and its lock file, *)
(* as "plugin install", "plugin uninstall" and "plugin sync" leave them    *)
(* (plugin-installer.ts, plugin-lock.ts, plugin-scanner.ts, plugin-sync.ts)*)
(* and as an agent that resolves its plugins finds them                    *)
(* (plugin-resolver.ts).                                                   *)
(*                                                                         *)
(* One command runs at a time.  Every await is a step: the command may be  *)
(* killed there, a removal or a copy may fail with part of it done, and an *)
(* agent may be looking meanwhile.                                         *)
(***************************************************************************)
EXTENDS Integers, Sequences

CONSTANTS
  Catalog,      \* the plugins of the catalog, in order: <<p, ...>>
  Workspace,    \* those the workspace has; the others are packed by npm
  Versions,     \* what the catalog and the sources may carry
  MaxCommands, MaxTrouble, MaxBoots   \* bounds

VARIABLES
  dirs,         \* plugin -> its directory
  lock,         \* the plugins the lock file names, or Torn
  source,       \* plugin -> version of its source
  cmd,          \* the command under way
  found,        \* plugin -> what the agent's resolver got
  cache,        \* systemPluginCache of that agent
  commands, trouble, boots,
  interrupted,  \* directories a command was cut off in
  disturbed     \* directories a command worked in since the agent booted

fileVars == <<dirs, lock>>
agentVars == <<found, cache, boots>>
vars == <<dirs, lock, source, cmd, found, cache, commands, trouble, boots, interrupted,
          disturbed>>

Elements(s) == {s[i] : i \in DOMAIN s}
Plugins == Elements(Catalog)
Torn == {"torn"}   \* a file that does not parse
Absent == [there |-> FALSE]
\* A directory: the version its package.json gives (0: none), whether it has
\* its entry file, whether the package.json was sanitised.
Dir(v, main, clean) == [there |-> TRUE, pkg |-> v, main |-> main, clean |-> clean]
Whole(d) == d.there /\ d.pkg # 0 /\ d.main /\ d.clean
NoCommand == [op |-> "none"]

Init ==
  /\ dirs = [p \in Plugins |-> Absent]
  /\ lock = {}
  /\ source = [p \in Plugins |-> CHOOSE v \in Versions : TRUE]
  /\ cmd = NoCommand
  /\ found = [p \in Plugins |-> "unasked"]
  /\ cache = [p \in Plugins |-> "unknown"]
  /\ commands = 0 /\ trouble = 0 /\ boots = 0
  /\ interrupted = {} /\ disturbed = {}

\* readLockFile: a file that does not parse is an empty lock.
ReadLock == IF lock = Torn THEN {} ELSE lock

\* The files of d a removal or a copy that stopped half way leaves.
Remains(d) ==
  [there : {TRUE}, pkg : {0, d.pkg}, main : {FALSE, d.main}, clean : {d.clean}]

Current == Head(cmd.todo)
At(op, pc) == cmd.op # "none" /\ cmd.op \in op /\ cmd.pc = pc
Goto(pc) == cmd' = [cmd EXCEPT !.pc = pc]
Works(p) == disturbed' = disturbed \cup {p}

\* The next plugin of the command, or its end.
NextPlugin ==
  cmd' = IF Len(cmd.todo) = 1 THEN NoCommand
         ELSE [cmd EXCEPT !.todo = Tail(@), !.pc = "check"]

-----------------------------------------------------------------------------
(* Commands                                                                 *)

Begin(op, todo, force) ==
  /\ cmd = NoCommand
  /\ commands < MaxCommands
  /\ commands' = commands + 1
  /\ cmd' = [op |-> op, todo |-> todo, force |-> force, pc |-> "check", seen |-> {}]
  /\ UNCHANGED <<fileVars, source, agentVars, trouble, interrupted, disturbed>>

InstallOne == \E p \in Plugins, force \in BOOLEAN : Begin("install", <<p>>, force)
InstallAll == \E force \in BOOLEAN : Begin("install", Catalog, force)
Uninstall == \E p \in Plugins : Begin("uninstall", <<p>>, FALSE)

\* scanPluginDirectory: the entries of the source that have a package.json of a
\* plugin's name and the entry file it gives, the others are passed over, in the
\* order readdir gives them.
Scanned ==
  {s \in UNION {[1..n -> Plugins] : n \in 1..Len(Catalog)} :
     \A i, j \in DOMAIN s : s[i] = s[j] => i = j}
Sync == \E plugins \in Scanned, force \in BOOLEAN : Begin("sync", plugins, force)

\* shouldSyncPlugin: only the versions are compared.
ShouldSync(p) == ~dirs[p].there \/ dirs[p].pkg # source[p]

\* isInstalled asks the lock alone.
Skips(p) ==
  CASE cmd.op = "install" -> ~cmd.force /\ p \in ReadLock
    [] cmd.op = "sync" -> ~cmd.force /\ ~ShouldSync(p)
    [] OTHER -> FALSE

Check ==
  /\ At({"install", "uninstall", "sync"}, "check")
  /\ IF Skips(Current) THEN NextPlugin
     ELSE Goto(CASE dirs[Current].there -> "remove"
                 [] ~dirs[Current].there /\ cmd.op = "uninstall" -> "readLock"
                 [] OTHER -> "copy")
  /\ UNCHANGED <<fileVars, source, agentVars, commands, trouble, interrupted, disturbed>>

\* npm finds no such package, or the tarball has none: nothing was touched yet.
PackFails ==
  /\ trouble < MaxTrouble
  /\ At({"install"}, "check")
  /\ Current \notin Workspace /\ ~Skips(Current)
  /\ trouble' = trouble + 1
  /\ NextPlugin
  /\ UNCHANGED <<fileVars, source, agentVars, commands, interrupted, disturbed>>

\* rm: entry by entry, then gone
Remove ==
  /\ At({"install", "uninstall", "sync"}, "remove")
  /\ \/ /\ dirs' = [dirs EXCEPT ![Current] = Absent]
        /\ Goto(IF cmd.op = "uninstall" THEN "readLock" ELSE "copy")
     \/ /\ \E d \in Remains(dirs[Current]) : dirs' = [dirs EXCEPT ![Current] = d]
        /\ UNCHANGED cmd
  /\ Works(Current)
  /\ UNCHANGED <<lock, source, agentVars, commands, trouble, interrupted>>

\* A bug: the filter that keeps node_modules out keeps the entry file out.
CopiedWithoutEntry(v) == Dir(v, FALSE, FALSE)
\* The copy of a source.
Copied(v) == Dir(v, TRUE, FALSE)

\* copyPluginWithoutNodeModules, or the copy of the unpacked tarball, which
\* is not sanitised and needs not be.
Copy ==
  /\ At({"install", "sync"}, "copy")
  /\ LET packed == cmd.op = "install" /\ Current \notin Workspace
         whole == [Copied(source[Current]) EXCEPT !.clean = packed]
     IN \/ /\ dirs' = [dirs EXCEPT ![Current] = whole]
           /\ Goto(IF packed THEN "readLock" ELSE "sanitise")
        \/ /\ \E d \in Remains(whole) : dirs' = [dirs EXCEPT ![Current] = d]
           /\ UNCHANGED cmd
  /\ Works(Current)
  /\ UNCHANGED <<lock, source, agentVars, commands, trouble, interrupted>>

\* What a command that ends well in p's directory makes of "interrupted".
Mended(p) == interrupted \ {p}

\* sanitizePackageJson; the npm install after it cannot fail the command
Sanitise ==
  /\ At({"install", "sync"}, "sanitise")
  /\ dirs' = [dirs EXCEPT ![Current].clean = TRUE]
  /\ Works(Current)
  /\ IF cmd.op = "install" THEN Goto("readLock") /\ UNCHANGED interrupted
     ELSE NextPlugin /\ interrupted' = Mended(Current)
  /\ UNCHANGED <<lock, source, agentVars, commands, trouble>>

\* addToLock and removeFromLock: read, change, write in place
ReadLockFile ==
  /\ At({"install", "uninstall"}, "readLock")
  /\ cmd' = [cmd EXCEPT !.pc = "openLock", !.seen = ReadLock]
  /\ UNCHANGED <<fileVars, source, agentVars, commands, trouble, interrupted, disturbed>>

OpenLockFile ==
  /\ At({"install", "uninstall"}, "openLock")
  /\ lock' = Torn
  /\ Goto("writeLock")
  /\ UNCHANGED <<dirs, source, agentVars, commands, trouble, interrupted, disturbed>>

\* A bug: the whole batch is entered with its first plugin.
EntryForBatch == cmd.seen \cup Elements(cmd.todo)
\* addToLock's entry
Entered == cmd.seen \cup {Current}

WriteLockFile ==
  /\ At({"install", "uninstall"}, "writeLock")
  /\ lock' = IF cmd.op = "install" THEN Entered ELSE cmd.seen \ {Current}
  /\ interrupted' = Mended(Current)
  /\ NextPlugin
  /\ UNCHANGED <<dirs, source, agentVars, commands, trouble, disturbed>>

\* What is left half done counts as cut off.
CutOff ==
  interrupted' = interrupted \cup
    IF cmd.pc \in {"remove", "copy", "sanitise"} \/ cmd.op = "uninstall"
    THEN {Current} ELSE {}

\* A removal or a copy throws.  A sync goes on with the next plugin, and so does
\* an install that came from npm; one from the workspace ends the command.
Fail ==
  /\ trouble < MaxTrouble
  /\ \/ At({"install", "uninstall", "sync"}, "remove")
     \/ At({"install", "sync"}, "copy")
  /\ trouble' = trouble + 1
  /\ IF cmd.op = "sync" \/ (cmd.op = "install" /\ Current \notin Workspace)
     THEN NextPlugin ELSE cmd' = NoCommand
  /\ CutOff
  /\ UNCHANGED <<fileVars, source, agentVars, commands, disturbed>>

Killed ==
  /\ cmd # NoCommand
  /\ trouble < MaxTrouble
  /\ trouble' = trouble + 1
  /\ cmd' = NoCommand
  /\ CutOff
  /\ UNCHANGED <<fileVars, source, agentVars, commands, disturbed>>

\* The source of p moves to another version.
Released(p) ==
  /\ cmd = NoCommand
  /\ \E v \in Versions : v > source[p] /\ source' = [source EXCEPT ![p] = v]
  /\ UNCHANGED <<fileVars, cmd, agentVars, commands, trouble, interrupted, disturbed>>

-----------------------------------------------------------------------------
(* An agent resolves its plugins                                            *)

Boot ==
  /\ boots < MaxBoots
  /\ boots' = boots + 1
  /\ found' = [p \in Plugins |-> "unasked"]
  /\ cache' = [p \in Plugins |-> "unknown"]
  /\ disturbed' = IF cmd = NoCommand THEN {} ELSE Elements(cmd.todo)
  /\ UNCHANGED <<fileVars, source, cmd, commands, trouble, interrupted>>

\* resolvePlugin for a plugin no workspace has: findInSystemDirectory looks
\* for its package.json only.  Plugins that fail do not stop the others.
Find(p) ==
  /\ boots > 0
  /\ found[p] = "unasked" /\ p \notin Workspace
  /\ cache' = [cache EXCEPT ![p] =
       IF @ # "unknown" THEN @
       ELSE IF dirs[p].there /\ dirs[p].pkg # 0 THEN "entry" ELSE "none"]
  /\ found' = [found EXCEPT ![p] = cache'[p]]
  /\ UNCHANGED <<fileVars, source, cmd, boots, commands, trouble, interrupted, disturbed>>

\* the import of the entry found
Import(p) ==
  /\ found[p] = "entry"
  /\ found' = [found EXCEPT ![p] =
                 IF dirs[p].there /\ dirs[p].main THEN "loaded" ELSE "broken"]
  /\ disturbed' = disturbed \cup (interrupted \cap {p})
  /\ UNCHANGED <<fileVars, source, cmd, cache, boots, commands, trouble, interrupted>>

Next ==
  \/ InstallOne \/ InstallAll \/ Uninstall \/ Sync
  \/ Check \/ Remove \/ Copy \/ Sanitise
  \/ ReadLockFile \/ OpenLockFile \/ WriteLockFile
  \/ Fail \/ PackFails \/ Killed
  \/ \E p \in Plugins : Released(p)
  \/ Boot
  \/ \E p \in Plugins : Find(p) \/ Import(p)

Spec == Init /\ [][Next]_vars

-----------------------------------------------------------------------------
TypeOK ==
  /\ lock = Torn \/ lock \subseteq Plugins
  /\ \A p \in Plugins : dirs[p] = Absent \/ dirs[p].pkg \in Versions \cup {0}
  /\ interrupted \subseteq Plugins /\ disturbed \subseteq Plugins
  /\ \A p \in Plugins : found[p] \in {"unasked", "entry", "none", "loaded", "broken"}

\* The lock names a plugin only while its directory is whole, or while the
\* command under way works on it, or after a command on that same plugin was
\* cut off: trouble with one plugin never makes the lock lie about another
\* (installPlugin, installAll, uninstallPlugin).
LockTellsTruth ==
  \A p \in ReadLock :
    \/ Whole(dirs[p])
    \/ p \in interrupted
    \/ cmd # NoCommand /\ Current = p

\* A plugin an agent found but could not load is one whose directory a command
\* was working in, or was cut off in (findInSystemDirectory, resolvePlugin).
BrokenOnesWereDisturbed == \A p \in Plugins : found[p] = "broken" => p \in disturbed

\* "Write the lock file atomically (write to tmp, then rename)" (plugin-lock.ts)
LockIsAtomic == cmd = NoCommand => lock # Torn
=============================================================================
