----------------------------- MODULE MihonAdapter -----------------------------
(***************************************************************************)
(* The adapter for JVM extensions: packages on disk, their metadata, the   *)
(* list of packages the user has uninstalled, and the class loaders and    *)
(* sources of the JVM, which the adapter reaches through the bridge.       *)
(*                                                                         *)
(* A package is one file below jars/ and may hold several sources; on      *)
(* Android it may be installed in the system as well, or only there, where *)
(* the adapter cannot delete it.                                           *)
(***************************************************************************)
EXTENDS CompatJar, FiniteSets

CONSTANTS
  Packages, Versions,
  Creates,     \* the sources each package creates, by its version
  Tasks,       \* futures of the application
  Uses,        \* what applications do and where, see Usage
  None

SourcesOf == [p \in Packages |-> UNION {Creates[p][v] : v \in Versions}]
Sources   == UNION {SourcesOf[p] : p \in Packages}
Paths     == {"private", "system"} \X Packages
Usage     == [platform : {"desktop", "android"},
              system : [Packages -> Versions \cup {Absent}],
              installs : SUBSET (Packages \X Versions),
              does : SUBSET {"uninstall", "scan", "end"},
              incompatible : SUBSET Versions,
              tags : SUBSET Tags, downgrades : BOOLEAN,
              tasks : Nat]

ASSUME MihonAssumption ==
  /\ \A p, q \in Packages : p # q => SourcesOf[p] \cap SourcesOf[q] = {}
  /\ Uses \subseteq Usage
  /\ None \notin Versions \cup Paths \cup Packages \cup {Torn, Absent}
  /\ Absent \notin Versions /\ Torn \notin Versions /\ Absent # Torn
  /\ \A list \in SUBSET Packages : list # Torn

VARIABLES
  use,       \* what this application does
  artifact,  \* the private JAR or APK of each package
  meta,      \* the version in the .json beside it
  hidden,    \* hidden_packages.json
  loaders,   \* the class loader the JVM keeps for each path
  jvm,       \* the version of each source registered with the JVM
  jarPaths,  \* extension_jar_paths
  packages,  \* extension_packages
  held,      \* the sources the application holds an extension for
  task,      \* where each future is
  gone,      \* history: packages uninstalled since they were installed
  installed, \* history: the version an install that returned has left
  cut        \* history: files that were being written when a process ended

disk    == << artifact, meta, hidden >>
memory  == << loaders, jvm, jarPaths, packages, held >>
history == << gone, installed, cut >>
vars    == << use, compat, disk, memory, task, history >>

Idle == [op |-> "none", at |-> "idle", pkg |-> None, version |-> None, path |-> None,
         src |-> None, ids |-> {}, seen |-> {}, todo |-> {}]

Init ==
  /\ use \in Uses
  /\ CompatInit
  /\ artifact = [p \in Packages |-> Absent]
  /\ meta = [p \in Packages |-> Absent]
  /\ hidden = {}
  /\ loaders = [x \in Paths |-> None]
  /\ jvm = [s \in Sources |-> None]
  /\ jarPaths = [s \in Sources |-> None]
  /\ packages = [s \in Sources |-> None]
  /\ held = {}
  /\ task = [t \in Tasks |-> Idle]
  /\ gone = {}
  /\ installed = [p \in Packages |-> None]
  /\ cut = {}

Android == use.platform = "android"
Does(what) == start = "up" /\ what \in use.does
At(t, at) == task[t].at = at
Goto(t, at) == task' = [task EXCEPT ![t].at = at]
Busy == {t \in Tasks : task[t] # Idle}
Private(p) == << "private", p >>
PackageOf(s) == CHOOSE p \in Packages : s \in SourcesOf[p]

\* Bounds: the application looks for extensions while it does nothing else, and
\* runs one operation on a package at a time.
Free(t) ==
  /\ t \notin Busy /\ Cardinality(Busy) < use.tasks
  /\ \A x \in Busy : task[x].op # "scan"
Touched(p) == \E t \in Tasks : task[t].op \in {"install", "uninstall"} /\ task[t].pkg = p

\* A file that is torn or missing stands for an empty list.
LoadHidden == IF hidden = Torn THEN {} ELSE hidden

-----------------------------------------------------------------------------
(* Processes. *)

Start(new) ==
  /\ new \in use.tags /\ (use.downgrades \/ new >= tag)
  /\ StartProcess(new, ~Android)
  /\ UNCHANGED << use, disk, memory, task, history >>

Extract ==
  /\ EnsureCompatJar
  /\ UNCHANGED << use, disk, memory, task, history >>

\* The process ends, at any point.
End ==
  /\ "end" \in use.does /\ EndProcess
  /\ cut' = (cut \cup {p \in Packages : Touched(p)})
              \cup (IF hidden = Torn THEN {"hidden"} ELSE {})
  /\ installed' = [p \in Packages |-> IF Touched(p) THEN None ELSE installed[p]]
  /\ loaders' = [x \in Paths |-> None]
  /\ jvm' = [s \in Sources |-> None]
  /\ jarPaths' = [s \in Sources |-> None]
  /\ packages' = [s \in Sources |-> None]
  /\ held' = {}
  /\ task' = [t \in Tasks |-> Idle]
  /\ UNCHANGED << use, disk, gone >>

-----------------------------------------------------------------------------
(* install, after the download. *)

\* On Android the bridge refuses an incompatible version at once.
Install(t, p, v) ==
  /\ start = "up" /\ << p, v >> \in use.installs
  /\ Free(t) /\ ~Touched(p)
  /\ Android => v \notin use.incompatible
  /\ task' = [task EXCEPT ![t] = [Idle EXCEPT !.op = "install", !.at = "convert", !.pkg = p,
                                              !.version = v, !.path = Private(p)]]
  /\ installed' = [installed EXCEPT ![p] = None]
  /\ gone' = gone \ {p}
  /\ UNCHANGED << use, compat, disk, memory, cut >>

\* Mutant: the class loader of the version before is kept.
MutantConvert(t) ==
  /\ At(t, "convert") /\ Goto(t, "converted")
  /\ artifact' = [artifact EXCEPT ![task[t].pkg] = Torn]
  /\ UNCHANGED << use, compat, meta, hidden, memory, history >>

\* The bridge closes the class loader and converts the APK to a JAR; on Android
\* the adapter removes the old APK and copies the new one.
Convert(t) ==
  /\ At(t, "convert") /\ Goto(t, "converted")
  /\ loaders' = IF Android THEN loaders ELSE [loaders EXCEPT ![task[t].path] = None]
  /\ artifact' = [artifact EXCEPT ![task[t].pkg] = Torn]
  /\ UNCHANGED << use, compat, meta, hidden, jvm, jarPaths, packages, held, history >>

\* The desktop bridge looks at the library version once the JAR is written.
Converted(t) ==
  /\ At(t, "converted")
  /\ artifact' = [artifact EXCEPT ![task[t].pkg] = task[t].version]
  /\ task' = [task EXCEPT ![t] = IF @.version \in use.incompatible THEN Idle
                                 ELSE [@ EXCEPT !.at = "meta"]]
  /\ UNCHANGED << use, compat, meta, hidden, memory, history >>

SaveMeta(t) ==
  /\ \/ At(t, "meta") /\ meta' = [meta EXCEPT ![task[t].pkg] = Torn] /\ Goto(t, "meta rest")
     \/ /\ At(t, "meta rest") /\ Goto(t, "unhide")
        /\ meta' = [meta EXCEPT ![task[t].pkg] = task[t].version]
  /\ UNCHANGED << use, compat, artifact, hidden, memory, history >>

UnhidePackage(t) ==
  /\ At(t, "unhide")
  /\ task' = [task EXCEPT ![t].seen = LoadHidden \ {task[t].pkg},
                          ![t].at = IF task[t].pkg \in LoadHidden THEN "hidden" ELSE "load"]
  /\ UNCHANGED << use, compat, disk, memory, history >>

\* The task returns to the application.
Installed(t) ==
  /\ task' = [task EXCEPT ![t] = Idle]
  /\ installed' = [installed EXCEPT ![task[t].pkg] = task[t].version]
  /\ UNCHANGED << gone, cut >>

\* The package is gone, unless a source of its copy in the system was uninstalled
\* that the copy below jars/ does not have: that copy stays.
Uninstalled(t) ==
  /\ task' = [task EXCEPT ![t] = Idle]
  /\ gone' = gone \cup {p \in Packages : /\ task[t].pkg = p
                                         /\ task[t].path = Private(p) \/ artifact[p] = Absent}
  /\ held' = held \ {task[t].src}
  /\ UNCHANGED << installed, cut >>

\* persist_hidden_packages writes what was read, with one package more or less.
PersistHidden(t) ==
  \/ /\ At(t, "hidden") /\ hidden' = Torn /\ Goto(t, "hidden rest")
     /\ UNCHANGED << use, compat, artifact, meta, memory, history >>
  \/ /\ At(t, "hidden rest") /\ hidden' = task[t].seen
     /\ IF task[t].op = "install"
        THEN Goto(t, "load") /\ UNCHANGED << held, history >>
        ELSE Uninstalled(t)
     /\ UNCHANGED << use, compat, artifact, meta, loaders, jvm, jarPaths, packages >>

-----------------------------------------------------------------------------
(* load_extension_from_jar, for install and for each package that is found. *)

FileAt(path) == IF path[1] = "private" THEN artifact[path[2]] ELSE use.system[path[2]]

\* Mutant: a package that does not load ends get_extensions.
MutantFails(t) == task' = [task EXCEPT ![t] = Idle]

Fails(t) == task' = [task EXCEPT ![t] = IF @.op = "scan" THEN [@ EXCEPT !.at = "next"] ELSE Idle]

\* What the code of a package creates; half a file has no code.
CreatedBy(p, code) == IF code \in Versions THEN Creates[p][code] ELSE {}

\* The bridge keeps a class loader for each path, even for a file it cannot use;
\* a package that creates no source is no extension. The sources that are created
\* replace those with their ids; the others the JVM runs as before, also those
\* that the version before has created and this one does not.
Load(t) ==
  /\ At(t, "load")
  /\ LET path   == task[t].path
         loader == IF loaders[path] # None THEN loaders[path] ELSE FileAt(path)
         made   == CreatedBy(path[2], loader)
     IN IF FileAt(path) = Absent
        THEN Fails(t) /\ UNCHANGED << loaders, jvm >>
        ELSE /\ loaders' = [loaders EXCEPT ![path] = loader]
             /\ jvm' = [s \in Sources |-> IF s \in made THEN loader ELSE jvm[s]]
             /\ IF made = {} THEN Fails(t)
                ELSE task' = [task EXCEPT ![t].at = "record", ![t].ids = made]
  /\ UNCHANGED << use, compat, disk, jarPaths, packages, held, history >>

\* The extensions are made; install gives the application one of them.
Record(t) ==
  /\ At(t, "record")
  /\ LET made == task[t].ids IN
     /\ jarPaths' = [s \in Sources |-> IF s \in made THEN task[t].path ELSE jarPaths[s]]
     /\ packages' = [s \in Sources |-> IF s \in made THEN task[t].path[2] ELSE packages[s]]
     /\ IF task[t].op = "install"
        THEN held' = held \cup {CHOOSE s \in made : TRUE} /\ Installed(t)
        ELSE held' = held \cup made /\ Goto(t, "next") /\ UNCHANGED history
  /\ UNCHANGED << use, compat, disk, loaders, jvm >>

-----------------------------------------------------------------------------
(* get_extensions. *)

Scan(t) ==
  /\ Does("scan") /\ Free(t) /\ Busy = {}
  /\ task' = [task EXCEPT ![t] = [Idle EXCEPT !.op = "scan", !.at = "list",
                                              !.seen = IF Android THEN LoadHidden ELSE {}]]
  /\ UNCHANGED << use, compat, disk, memory, history >>

\* An APK tells its own metadata, which are saved; a JAR without is skipped.
Recovers(p) == Android /\ meta[p] = Absent /\ artifact[p] \in Versions

FindsPrivate(p) == (artifact[p] # Absent /\ meta[p] \in Versions) \/ Recovers(p)

\* Mutant: uninstalled packages are found all the same.
MutantFindsSystem(t, p) == Android /\ use.system[p] # Absent

FindsSystem(t, p) == Android /\ use.system[p] # Absent /\ p \notin task[t].seen

List(t) ==
  /\ At(t, "list")
  /\ meta' = [p \in Packages |-> IF Recovers(p) THEN artifact[p] ELSE meta[p]]
  /\ task' = [task EXCEPT ![t].at = "next",
       ![t].todo = {Private(p) : p \in {q \in Packages : FindsPrivate(q)}} \cup
                   {<< "system", p >> : p \in {q \in Packages : FindsSystem(t, q)
                                                                /\ ~FindsPrivate(q)}}]
  /\ UNCHANGED << use, compat, artifact, hidden, memory, history >>

NextCandidate(t) ==
  /\ At(t, "next")
  /\ \/ task[t].todo = {} /\ task' = [task EXCEPT ![t] = Idle]
     \/ \E path \in task[t].todo :
          task' = [task EXCEPT ![t].at = "load", ![t].path = path, ![t].todo = @ \ {path}]
  /\ UNCHANGED << use, compat, disk, memory, history >>

-----------------------------------------------------------------------------
(* uninstall. *)

\* The source leaves the JVM first.
Uninstall(t, s) ==
  /\ Does("uninstall") /\ Free(t) /\ s \in held
  /\ ~Touched(PackageOf(s))
  /\ jvm' = [jvm EXCEPT ![s] = None]
  /\ task' = [task EXCEPT ![t] = [Idle EXCEPT !.op = "uninstall", !.at = "forget", !.src = s,
                                              !.path = jarPaths[s], !.pkg = packages[s]]]
  /\ installed' = [installed EXCEPT ![PackageOf(s)] = None]
  /\ UNCHANGED << use, compat, disk, loaders, jarPaths, packages, held, gone, cut >>

\* Mutant: all sources of the package are forgotten.
MutantForget(t) ==
  /\ At(t, "forget")
  /\ jarPaths' = [s \in Sources |-> IF packages[s] = task[t].pkg THEN None ELSE jarPaths[s]]
  /\ packages' = [s \in Sources |-> IF packages[s] = task[t].pkg THEN None ELSE packages[s]]
  /\ Goto(t, IF task[t].path = None THEN "hide" ELSE "unload")
  /\ UNCHANGED << use, compat, disk, loaders, jvm, held, history >>

Forget(t) ==
  /\ At(t, "forget")
  /\ jarPaths' = [jarPaths EXCEPT ![task[t].src] = None]
  /\ packages' = [packages EXCEPT ![task[t].src] = None]
  /\ Goto(t, IF task[t].path = None THEN "hide" ELSE "unload")
  /\ UNCHANGED << use, compat, disk, loaders, jvm, held, history >>

\* On Android the sources the file has created go as well.
UnloadExtension(t) ==
  /\ At(t, "unload") /\ Goto(t, "delete")
  /\ loaders' = [loaders EXCEPT ![task[t].path] = None]
  /\ LET path == task[t].path IN
     jvm' = [s \in Sources |-> IF Android /\ s \in CreatedBy(path[2], loaders[path]) THEN None
                               ELSE jvm[s]]
  /\ UNCHANGED << use, compat, disk, jarPaths, packages, held, history >>

\* Files of the system cannot be deleted.
DeleteFiles(t) ==
  /\ LET private == task[t].path[1] = "private"
         p       == task[t].path[2]
     IN \/ /\ At(t, "delete") /\ Goto(t, "delete meta")
           /\ artifact' = IF private THEN [artifact EXCEPT ![p] = Absent] ELSE artifact
           /\ UNCHANGED meta
        \/ /\ At(t, "delete meta") /\ Goto(t, "hide")
           /\ meta' = IF private THEN [meta EXCEPT ![p] = Absent] ELSE meta
           /\ UNCHANGED artifact
  /\ UNCHANGED << use, compat, hidden, memory, history >>

HidePackage(t) ==
  /\ At(t, "hide")
  /\ IF task[t].pkg = None \/ task[t].pkg \in LoadHidden
     THEN Uninstalled(t)
     ELSE /\ task' = [task EXCEPT ![t].at = "hidden",
                                  ![t].seen = LoadHidden \cup {task[t].pkg}]
          /\ UNCHANGED << held, history >>
  /\ UNCHANGED << use, compat, disk, loaders, jvm, jarPaths, packages >>

-----------------------------------------------------------------------------
Step(t) ==
  \/ Convert(t)
  \/ Converted(t)
  \/ SaveMeta(t)
  \/ UnhidePackage(t)
  \/ PersistHidden(t)
  \/ Load(t)
  \/ Record(t)
  \/ List(t)
  \/ NextCandidate(t)
  \/ Forget(t)
  \/ UnloadExtension(t)
  \/ DeleteFiles(t)
  \/ HidePackage(t)

Next ==
  \/ \E new \in Tags : Start(new)
  \/ Extract
  \/ End
  \/ \E t \in Tasks :
       \/ Step(t)
       \/ \E p \in Packages, v \in Versions : Install(t, p, v)
       \/ Scan(t)
       \/ \E s \in Sources : Uninstall(t, s)

Spec == Init /\ [][Next]_vars

-----------------------------------------------------------------------------
(* Properties. *)

TaskState ==
  [op : {"none", "install", "uninstall", "scan"},
   at : {"idle", "convert", "converted", "meta", "meta rest", "unhide", "hidden", "hidden rest",
         "load", "record", "list", "next", "forget", "unload", "delete", "delete meta", "hide"},
   pkg : Packages \cup {None}, version : Versions \cup {None}, path : Paths \cup {None},
   src : Sources \cup {None}, ids : SUBSET Sources, seen : SUBSET Packages, todo : SUBSET Paths]

\* The state has its types, and every extension the application holds can be
\* uninstalled: the adapter knows its file and its package.
TypeOK ==
  /\ use \in Uses
  /\ tag \in Tags \cup {0} /\ (start # "down" => tag \in Tags)
  /\ jar \in Tags \cup {Absent, Torn} /\ sidecar \in Tags \cup {Absent, Torn}
  /\ artifact \in [Packages -> Versions \cup {Absent, Torn}]
  /\ meta \in [Packages -> Versions \cup {Absent, Torn}]
  /\ hidden = Torn \/ hidden \subseteq Packages
  /\ loaders \in [Paths -> Versions \cup {Torn, None}]
  /\ jvm \in [Sources -> Versions \cup {None}]
  /\ jarPaths \in [Sources -> Paths \cup {None}]
  /\ packages \in [Sources -> Packages \cup {None}]
  /\ task \in [Tasks -> TaskState]
  /\ held \subseteq Sources
  /\ \A s \in held : packages[s] = None => \E t \in Tasks : task[t].src = s

\* The JVM gets the JAR its build was made with, however earlier processes
\* ended, as long as no older build runs.
JvmGetsItsJar == ~Android /\ ~use.downgrades /\ start = "up" => jar = tag

\* What install left is on disk, with its metadata, until the package is
\* installed again or uninstalled; and on the desktop the JVM runs that version
\* of every source it creates. A source that it does not create any more may run
\* the version before.
InstalledRuns ==
  \A p \in Packages :
    installed[p] # None =>
      /\ artifact[p] = installed[p] /\ meta[p] = installed[p]
      /\ Android \/ \A s \in Creates[p][installed[p]] : jvm[s] \in {None, installed[p]}

\* "Packages the user uninstalled stay uninstalled": the application gets no
\* extension of such a package, unless the process ended while the list of
\* them was written.
UninstalledStayAway ==
  [][\A s \in held' \ held : PackageOf(s) \notin gone \/ "hidden" \in cut]_vars

\* The code a process runs for a package: on Android the first it has loaded.
Code(p) == CASE installed[p] = None -> use.system[p]
             [] installed[p] # None /\ Android -> loaders[Private(p)]
             [] OTHER -> installed[p]

\* get_extensions finds every package that was installed, and every system
\* package that is not hidden, with all sources of the code that runs.
ScanFindsInstalled ==
  [][\A t \in Tasks :
       task[t].op = "scan" /\ task'[t] = Idle /\ start' = "up" =>
         \A p \in Packages :
           \/ installed[p] # None
           \/ /\ Android /\ use.system[p] # Absent
              /\ artifact[p] = Absent /\ p \notin LoadHidden
           => /\ Code(p) \in Versions
              /\ Creates[p][Code(p)] \subseteq held]_vars
=============================================================================
