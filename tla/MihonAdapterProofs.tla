-------------------------- MODULE MihonAdapterProofs --------------------------
(***************************************************************************)
(* The safety of MihonAdapter, for all packages, versions, builds, tasks   *)
(* and applications.                                                       *)
(***************************************************************************)
EXTENDS MihonAdapter, FiniteSetTheorems, TLAPS

(* The JAR of the compatibility layer.  The sidecar never says more than    *)
(* what the JAR is: from the moment a build decides to write the JAR until  *)
(* it has, the sidecar has another tag, and whoever ends meanwhile leaves   *)
(* it like that.                                                            *)

SidecarIsTrue ==
  /\ tag \in Tags \cup {0} /\ (start # "down" => tag \in Tags)
  /\ use \in Uses
  /\ start \in {"down", "check", "write jar", "jar rest", "write sidecar",
                "sidecar rest", "up"}
  /\ Android => start \in {"down", "up"}
  /\ ~use.downgrades =>
       /\ sidecar \in Tags => sidecar <= tag
       /\ sidecar = tag => jar = tag
       /\ start \in {"write jar", "jar rest"} => sidecar # tag
       /\ start \in {"write sidecar", "sidecar rest"} => jar = tag
       /\ start = "up" /\ ~Android => jar = tag

\* Before the first process there is neither JAR nor sidecar.
LEMMA InitSidecar == Init => SidecarIsTrue
BY CompatJarAssumption DEF Init, CompatInit, SidecarIsTrue, Android

\* Starting, extracting and ending a process keep the sidecar true.
LEMMA NextSidecar == SidecarIsTrue /\ [Next]_vars => SidecarIsTrue'
<1> SUFFICES ASSUME SidecarIsTrue, [Next]_vars PROVE SidecarIsTrue'
  OBVIOUS
<1> USE CompatJarAssumption DEF SidecarIsTrue, Android
<1>1. ASSUME NEW new \in Tags, Start(new) PROVE SidecarIsTrue'
  <2>1. /\ start = "down" /\ tag' = new /\ start' = IF ~Android THEN "check" ELSE "up"
        /\ UNCHANGED << use, jar, sidecar >>
        /\ use.downgrades \/ new >= tag
    BY <1>1 DEF Start, StartProcess
  <2>2. CASE use.downgrades
    BY <2>1, <2>2
  <2>3. CASE ~use.downgrades
    <3>1. new \in Nat /\ tag \in Nat /\ new >= tag
      BY <2>1, <2>3
    <3>2. CASE sidecar \in Tags
      <4>1. sidecar \in Nat /\ sidecar <= tag
        BY <2>3, <3>2
      <4>2. sidecar <= new /\ (sidecar = new => sidecar = tag)
        <5> HIDE CompatJarAssumption DEF SidecarIsTrue
        <5>1. QED
          BY <3>1, <4>1
      <4>3. QED
        BY <2>1, <2>3, <4>2
    <3>3. CASE sidecar \notin Tags
      BY <2>1, <2>3, <3>3
    <3>4. QED
      BY <3>2, <3>3
  <2>4. QED
    BY <2>2, <2>3
<1>2. CASE Extract
  <2>1. UNCHANGED << use, tag >>
    BY <1>2 DEF Extract, EnsureCompatJar
  <2>2. tag \in Nat /\ tag <= tag
    <3>1. tag \in Tags \cup {0}
      OBVIOUS
    <3>2. QED
      <4> HIDE DEF SidecarIsTrue
      <4>1. QED
        BY <3>1
  <2>3. CASE start = "check"
    BY <1>2, <2>1, <2>3 DEF Extract, EnsureCompatJar
  <2>4. CASE start \in {"write jar", "jar rest"}
    BY <1>2, <2>1, <2>4 DEF Extract, EnsureCompatJar
  <2>5. CASE start \in {"write sidecar", "sidecar rest"}
    BY <1>2, <2>1, <2>2, <2>5 DEF Extract, EnsureCompatJar
  <2>6. QED
    BY <1>2, <2>3, <2>4, <2>5 DEF Extract, EnsureCompatJar
<1>3. CASE End
  BY <1>3 DEF End, EndProcess
<1>4. ASSUME UNCHANGED << use, compat >> PROVE SidecarIsTrue'
  BY <1>4 DEF compat
<1>5. ASSUME NEW t \in Tasks, Step(t) PROVE UNCHANGED << use, compat >>
  BY <1>5 DEF Step, Convert, Converted, SaveMeta, UnhidePackage, PersistHidden, Load, Record,
              List, NextCandidate, Forget, UnloadExtension, DeleteFiles, HidePackage
<1>6. ASSUME NEW t \in Tasks, NEW p \in Packages, NEW v \in Versions, Install(t, p, v)
      PROVE  UNCHANGED << use, compat >>
  BY <1>6 DEF Install
<1>7. ASSUME NEW t \in Tasks, Scan(t) PROVE UNCHANGED << use, compat >>
  BY <1>7 DEF Scan
<1>8. ASSUME NEW t \in Tasks, NEW s \in Sources, Uninstall(t, s)
      PROVE  UNCHANGED << use, compat >>
  BY <1>8 DEF Uninstall
<1>9. CASE UNCHANGED vars
  BY <1>9, <1>4 DEF vars
<1>10. QED
  BY <1>1, <1>2, <1>3, <1>4, <1>5, <1>6, <1>7, <1>8, <1>9 DEF Next

\* However processes end, and whatever builds follow each other, the JVM gets
\* the JAR of its own build.
THEOREM EachBuildGetsItsJar == Spec => []JvmGetsItsJar
<1>1. SidecarIsTrue => JvmGetsItsJar
  BY DEF SidecarIsTrue, JvmGetsItsJar
<1>2. QED
  BY <1>1, InitSidecar, NextSidecar, PTL DEF Spec

-----------------------------------------------------------------------------
(* Types, and what a task knows at each of its steps.                       *)

InstallSteps   == {"convert", "converted", "meta", "meta rest", "unhide", "hidden",
                   "hidden rest", "load", "record"}
ScanSteps      == {"list", "next", "load", "record"}
UninstallSteps == {"forget", "unload", "delete", "delete meta", "hide", "hidden",
                   "hidden rest"}

TaskKnows(x) ==
  /\ x.op = "none" => x = Idle
  /\ x.op = "install" =>
       /\ x.at \in InstallSteps
       /\ x.pkg \in Packages /\ x.version \in Versions /\ x.path = Private(x.pkg)
  /\ x.op = "scan" =>
       /\ x.at \in ScanSteps
       /\ x.at \in {"load", "record"} => x.path \in Paths
       /\ ~Android => \A path \in x.todo \cup {x.path} : path = None \/ path[1] = "private"
  /\ x.op = "uninstall" =>
       /\ x.at \in UninstallSteps
       /\ x.pkg \in Packages /\ x.src \in SourcesOf[x.pkg]
       /\ x.path \in Paths /\ x.path[2] = x.pkg
  /\ x.at = "record" => x.ids # {} /\ x.ids \subseteq SourcesOf[x.path[2]]

TasksKnow == task \in [Tasks -> TaskState] /\ \A t \in Tasks : TaskKnows(task[t])

\* The maps of the adapter agree, on a package that has the source.
MapsAgree ==
  \A s \in Sources : packages[s] # None =>
    /\ s \in SourcesOf[packages[s]]
    /\ jarPaths[s] \in Paths /\ jarPaths[s][2] = packages[s]

\* What the application holds is in the maps, but for what is being uninstalled.
HeldAreKnown ==
  \A s \in held : packages[s] = None =>
    \E t \in Tasks : task[t].op = "uninstall" /\ task[t].src = s

Known == TasksKnow /\ MapsAgree /\ HeldAreKnown

\* The path of a package below jars/, and the package of a path.
LEMMA PrivatePath ==
  \A p \in Packages : Private(p) \in Paths /\ Private(p)[1] = "private" /\ Private(p)[2] = p
BY DEF Paths, Private

\* The second part of a path is its package.
LEMMA PathPackage == \A x \in Paths : x[2] \in Packages
BY DEF Paths

\* The package of a source is the one that creates it.
LEMMA SourceFacts ==
  /\ \A p \in Packages : \A s \in SourcesOf[p] : s \in Sources /\ PackageOf(s) = p
  /\ \A s \in Sources : PackageOf(s) \in Packages /\ s \in SourcesOf[PackageOf(s)]
<1>1. ASSUME NEW s \in Sources
      PROVE  PackageOf(s) \in Packages /\ s \in SourcesOf[PackageOf(s)]
  <2>1. \E p \in Packages : s \in SourcesOf[p]
    BY DEF Sources
  <2>2. QED
    BY <2>1 DEF PackageOf
<1>2. ASSUME NEW p \in Packages, NEW s \in SourcesOf[p]
      PROVE  s \in Sources /\ PackageOf(s) = p
  <2>1. s \in Sources
    BY DEF Sources
  <2>2. PackageOf(s) \in Packages /\ s \in SourcesOf[PackageOf(s)]
    BY <2>1, <1>1
  <2>3. QED
    BY <2>1, <2>2, MihonAssumption
<1>3. QED
  BY <1>1, <1>2

\* What a version creates is among the sources of the package.
LEMMA CreatesSome ==
  \A p \in Packages :
    /\ \A v \in Versions : Creates[p][v] \subseteq SourcesOf[p] /\ CreatedBy(p, v) = Creates[p][v]
    /\ CreatedBy(p, Torn) = {}
    /\ \A code : CreatedBy(p, code) \subseteq SourcesOf[p]
BY MihonAssumption DEF SourcesOf, CreatedBy

\* Initially nothing is on disk, loaded or under way.
LEMMA InitKnown == Init => TypeOK /\ Known
<1> SUFFICES ASSUME Init PROVE TypeOK /\ Known
  OBVIOUS
<1>1. Idle \in TaskState /\ TaskKnows(Idle)
  BY DEF Idle, TaskState, TaskKnows
<1>2. TypeOK
  BY <1>1 DEF Init, CompatInit, TypeOK
<1>3. Known
  BY <1>1 DEF Init, Known, TasksKnow, MapsAgree, HeldAreKnown
<1>4. QED
  BY <1>2, <1>3

\* A step of one task leaves the others as they are.
LEMMA OneTask ==
  ASSUME TasksKnow, NEW t \in Tasks, NEW x \in TaskState, TaskKnows(x),
         task' = [task EXCEPT ![t] = x], use' = use
  PROVE  /\ TasksKnow'
         /\ task'[t] = x
         /\ \A u \in Tasks \ {t} : task'[u] = task[u]
BY DEF TasksKnow, TaskKnows, Android

\* A task that goes on to another of its steps still knows what it needs.
LEMMA GoesOn ==
  ASSUME TasksKnow, NEW t \in Tasks, NEW at, use' = use, Goto(t, at),
         task[t].op \in {"install", "scan", "uninstall"},
         task[t].op = "install" => at \in InstallSteps,
         task[t].op = "scan" => at \in {"list", "next"} /\ task[t].at # "list",
         task[t].op = "uninstall" => at \in UninstallSteps,
         at # "record"
  PROVE  /\ TasksKnow'
         /\ task'[t] = [task[t] EXCEPT !.at = at]
         /\ \A u \in Tasks \ {t} : task'[u] = task[u]
<1> DEFINE x == [task[t] EXCEPT !.at = at]
<1>1. task[t] \in TaskState /\ TaskKnows(task[t])
  BY DEF TasksKnow
<1>2. at \in InstallSteps \cup ScanSteps \cup UninstallSteps
  BY DEF ScanSteps
<1>3. x \in TaskState
  BY <1>1, <1>2 DEF TaskState, InstallSteps, ScanSteps, UninstallSteps
<1>4. /\ x.op = task[t].op /\ x.at = at /\ x.pkg = task[t].pkg /\ x.version = task[t].version
      /\ x.path = task[t].path /\ x.src = task[t].src /\ x.todo = task[t].todo
  BY <1>1 DEF TaskState
<1>5. TaskKnows(x)
  <2> HIDE DEF x
  <2>1. QED
    BY <1>1, <1>4 DEF TaskKnows, ScanSteps
<1>6. task' = [task EXCEPT ![t] = x]
  BY DEF Goto, TasksKnow
<1>7. QED
  <2> HIDE DEF x
  <2>1. TasksKnow' /\ task'[t] = x /\ \A u \in Tasks \ {t} : task'[u] = task[u]
    BY <1>3, <1>5, <1>6, OneTask
  <2>2. QED
    BY <2>1 DEF x

\* A task that has loaded a package knows the sources that were created.
LEMMA GoesToRecord ==
  ASSUME TasksKnow, NEW t \in Tasks, NEW made, use' = use, task[t].at = "load",
         task[t].op \in {"install", "scan"},
         made # {}, made \subseteq SourcesOf[task[t].path[2]], made \subseteq Sources,
         task' = [task EXCEPT ![t].at = "record", ![t].ids = made]
  PROVE  /\ TasksKnow'
         /\ task'[t] = [task[t] EXCEPT !.at = "record", !.ids = made]
         /\ \A u \in Tasks \ {t} : task'[u] = task[u]
<1> DEFINE x == [task[t] EXCEPT !.at = "record", !.ids = made]
<1>1. task[t] \in TaskState /\ TaskKnows(task[t])
  BY DEF TasksKnow
<1>2. x \in TaskState
  BY <1>1 DEF TaskState
<1>3. /\ x.op = task[t].op /\ x.at = "record" /\ x.pkg = task[t].pkg
      /\ x.version = task[t].version /\ x.path = task[t].path /\ x.src = task[t].src
      /\ x.todo = task[t].todo /\ x.ids = made
  BY <1>1 DEF TaskState
<1>4. task' = [task EXCEPT ![t] = x]
  BY DEF TasksKnow
<1> HIDE DEF x
<1>5. TaskKnows(x)
  BY <1>1, <1>3 DEF TaskKnows, InstallSteps, ScanSteps
<1>6. TasksKnow' /\ task'[t] = x /\ \A u \in Tasks \ {t} : task'[u] = task[u]
  BY <1>2, <1>4, <1>5, OneTask
<1>7. QED
  BY <1>6 DEF x

\* Idle, and every task that is started, is a task that knows enough.
LEMMA IdleKnows == Idle \in TaskState /\ TaskKnows(Idle)
BY DEF Idle, TaskState, TaskKnows

\* A task that returns, or whose process ends, knows nothing.
LEMMA Returns ==
  ASSUME TasksKnow, NEW t \in Tasks, task' = [task EXCEPT ![t] = Idle], use' = use
  PROVE  /\ TasksKnow'
         /\ task'[t] = Idle
         /\ \A u \in Tasks \ {t} : task'[u] = task[u]
BY IdleKnows, OneTask

\* Which operation a step belongs to.
LEMMA StepsOf ==
  ASSUME TasksKnow, NEW t \in Tasks
  PROVE  /\ task[t].at \in {"convert", "converted", "meta", "meta rest", "unhide"}
              => task[t].op = "install"
         /\ task[t].at \in {"list", "next"} => task[t].op = "scan"
         /\ task[t].at \in {"forget", "unload", "delete", "delete meta", "hide"}
              => task[t].op = "uninstall"
         /\ task[t].at \in {"hidden", "hidden rest"} => task[t].op \in {"install", "uninstall"}
         /\ task[t].at \in {"load", "record"} => task[t].op \in {"install", "scan"}
         /\ task[t].op \in {"none", "install", "uninstall", "scan"}
<1>1. TaskKnows(task[t]) /\ task[t].op \in {"none", "install", "uninstall", "scan"}
  BY DEF TasksKnow, TaskState
<1>2. task[t].op = "none" => task[t].at = "idle"
  BY <1>1 DEF TaskKnows, Idle
<1>3. QED
  BY <1>1, <1>2 DEF TaskKnows, InstallSteps, ScanSteps, UninstallSteps

\* What is loaded has a path.
LEMMA LoadsAPath ==
  ASSUME TasksKnow, NEW t \in Tasks, task[t].at \in {"load", "record"}
  PROVE  task[t].path \in Paths /\ task[t].path[2] \in Packages
<1>1. TaskKnows(task[t])
  BY DEF TasksKnow
<1>2. CASE task[t].op = "install"
  <2>1. task[t].pkg \in Packages /\ task[t].path = Private(task[t].pkg)
    BY <1>1, <1>2, Zenon DEF TaskKnows
  <2>2. QED
    BY <2>1, PrivatePath, PathPackage
<1>3. CASE task[t].op = "scan"
  <2>1. task[t].path \in Paths
    BY <1>1, <1>3 DEF TaskKnows
  <2>2. QED
    BY <2>1, PrivatePath, PathPackage
<1>4. QED
  BY <1>2, <1>3, StepsOf

\* A task has loaded the code of its package, which creates some sources.
Loads(t, made) ==
  /\ made # {} /\ made \subseteq SourcesOf[task[t].path[2]] /\ made \subseteq Sources
  /\ task' = [task EXCEPT ![t].at = "record", ![t].ids = made]

\* Loading a package fails, or creates some of its sources.
LEMMA LoadSteps ==
  ASSUME TasksKnow, NEW t \in Tasks, Load(t)
  PROVE  Fails(t) \/ \E made : Loads(t, made)
<1> DEFINE path   == task[t].path
           loader == IF loaders[path] # None THEN loaders[path] ELSE FileAt(path)
           made   == CreatedBy(path[2], loader)
<1>1. path[2] \in Packages
  BY LoadsAPath DEF Load, At
<1>2. made \subseteq SourcesOf[path[2]] /\ made \subseteq Sources
  <2> HIDE DEF loader
  <2>1. made \subseteq SourcesOf[path[2]]
    BY <1>1, CreatesSome
  <2>2. QED
    BY <1>1, <2>1, SourceFacts
<1>3. \/ Fails(t)
      \/ made # {} /\ task' = [task EXCEPT ![t].at = "record", ![t].ids = made]
  BY DEF Load
<1>4. QED
  <2> HIDE DEF made
  <2>1. QED
    BY <1>2, <1>3 DEF Loads

\* Every step leaves each task with what it needs.
LEMMA NextTasks == TypeOK /\ Known /\ [Next]_vars => TasksKnow'
<1> SUFFICES ASSUME TypeOK, Known, [Next]_vars PROVE TasksKnow'
  OBVIOUS
<1>0. TasksKnow
  BY DEF Known
<1>1. ASSUME UNCHANGED << use, task >> PROVE TasksKnow'
  BY <1>0, <1>1 DEF TasksKnow, TaskKnows, Android
<1>2. CASE End
  BY <1>2, IdleKnows DEF End, TasksKnow, TaskKnows, Idle
<1>3. ASSUME NEW t \in Tasks, NEW p \in Packages, NEW v \in Versions, Install(t, p, v)
      PROVE  TasksKnow'
  <2> DEFINE x == [Idle EXCEPT !.op = "install", !.at = "convert", !.pkg = p,
                               !.version = v, !.path = Private(p)]
  <2>1. x \in TaskState /\ TaskKnows(x)
    BY PrivatePath, PathPackage DEF TaskState, TaskKnows, Idle, InstallSteps
  <2>2. task' = [task EXCEPT ![t] = x] /\ use' = use
    BY <1>3 DEF Install
  <2>3. QED
    BY <1>0, <2>1, <2>2, OneTask
<1>4. ASSUME NEW t \in Tasks, Scan(t) PROVE TasksKnow'
  <2> DEFINE x == [Idle EXCEPT !.op = "scan", !.at = "list",
                               !.seen = IF Android THEN LoadHidden ELSE {}]
  <2>1. LoadHidden \subseteq Packages
    BY DEF LoadHidden, TypeOK
  <2>2. x \in TaskState /\ TaskKnows(x)
    BY <2>1 DEF TaskState, TaskKnows, Idle, ScanSteps
  <2>3. task' = [task EXCEPT ![t] = x] /\ use' = use
    BY <1>4 DEF Scan
  <2>4. QED
    BY <1>0, <2>2, <2>3, OneTask
<1>5. ASSUME NEW t \in Tasks, NEW s \in Sources, Uninstall(t, s) PROVE TasksKnow'
  <2> DEFINE x == [Idle EXCEPT !.op = "uninstall", !.at = "forget", !.src = s,
                               !.path = jarPaths[s], !.pkg = packages[s]]
  <2>1. packages[s] # None
    <3>1. SUFFICES ASSUME packages[s] = None PROVE FALSE
      OBVIOUS
    <3>2. PICK u \in Tasks : task[u].op = "uninstall" /\ task[u].src = s
      BY <1>5, <3>1 DEF Known, HeldAreKnown, Uninstall
    <3>3. task[u].pkg = PackageOf(s)
      BY <1>0, <3>2, SourceFacts DEF TasksKnow, TaskKnows
    <3>4. QED
      BY <1>5, <3>2, <3>3 DEF Uninstall, Touched
  <2>2. /\ packages[s] \in Packages /\ s \in SourcesOf[packages[s]]
        /\ jarPaths[s] \in Paths /\ jarPaths[s][2] = packages[s]
    BY <2>1 DEF Known, MapsAgree, TypeOK
  <2>3. x \in TaskState /\ TaskKnows(x)
    BY <2>2 DEF TaskState, TaskKnows, Idle, UninstallSteps
  <2>4. task' = [task EXCEPT ![t] = x] /\ use' = use
    BY <1>5 DEF Uninstall
  <2>5. QED
    BY <1>0, <2>3, <2>4, OneTask
<1>6. ASSUME NEW t \in Tasks, Step(t) PROVE TasksKnow'
  <2> USE <1>0, StepsOf DEF At
  <2>1. CASE Convert(t)
    BY <2>1, GoesOn DEF Convert, InstallSteps
  <2>2. CASE Converted(t)
    <3>1. \/ task' = [task EXCEPT ![t] = Idle]
          \/ Goto(t, "meta")
      BY <2>2 DEF Converted, Goto, TasksKnow
    <3>2. QED
      BY <2>2, <3>1, GoesOn, Returns DEF Converted, InstallSteps
  <2>3. CASE SaveMeta(t)
    BY <2>3, GoesOn DEF SaveMeta, InstallSteps
  <2>4. CASE UnhidePackage(t)
    <3> DEFINE x == [task[t] EXCEPT !.seen = LoadHidden \ {task[t].pkg},
                       !.at = IF task[t].pkg \in LoadHidden THEN "hidden" ELSE "load"]
    <3>1. LoadHidden \subseteq Packages
      BY DEF LoadHidden, TypeOK
    <3>2. task[t] \in TaskState /\ TaskKnows(task[t]) /\ task[t].op = "install"
      BY <2>4 DEF TasksKnow, UnhidePackage
    <3>3. x \in TaskState /\ TaskKnows(x)
      BY <3>1, <3>2 DEF TaskState, TaskKnows, InstallSteps
    <3>4. task' = [task EXCEPT ![t] = x] /\ use' = use
      BY <2>4 DEF UnhidePackage, TasksKnow
    <3>5. QED
      BY <3>3, <3>4, OneTask
  <2>5. CASE PersistHidden(t)
    <3>1. use' = use
      BY <2>5 DEF PersistHidden
    <3>2. \/ task[t].at \in {"hidden", "hidden rest"} /\ Goto(t, "hidden rest")
          \/ task[t].at = "hidden rest" /\ task[t].op = "install" /\ Goto(t, "load")
          \/ task' = [task EXCEPT ![t] = Idle]
      BY <2>5 DEF PersistHidden, Uninstalled
    <3>3. QED
      BY <3>1, <3>2, GoesOn, Returns DEF InstallSteps, UninstallSteps
  <2>6. CASE Load(t)
    <3> HIDE StepsOf
    <3>1. /\ use' = use /\ task[t].at = "load" /\ task[t].op \in {"install", "scan"}
      BY <2>6, StepsOf DEF Load
    <3>2. \/ Fails(t)
          \/ \E made : Loads(t, made)
      BY <2>6, LoadSteps DEF At
    <3>3. CASE Fails(t)
      <4>1. \/ task' = [task EXCEPT ![t] = Idle]
            \/ task[t].op = "scan" /\ Goto(t, "next")
        BY <3>3 DEF Fails, Goto, TasksKnow
      <4>2. QED
        BY <3>1, <4>1, GoesOn, Returns
    <3>4. QED
      BY <3>1, <3>2, <3>3, GoesToRecord DEF Loads
  <2>7. CASE Record(t)
    <3>1. /\ use' = use /\ task[t].at = "record"
          /\ \/ task' = [task EXCEPT ![t] = Idle]
             \/ task[t].op # "install" /\ Goto(t, "next")
      BY <2>7 DEF Record, Installed
    <3>2. QED
      BY <3>1, GoesOn, Returns
  <2>8. CASE List(t)
    <3> DEFINE todo == {Private(p) : p \in {q \in Packages : FindsPrivate(q)}} \cup
                       {<< "system", p >> : p \in {q \in Packages : FindsSystem(t, q)
                                                                    /\ ~FindsPrivate(q)}}
               x == [task[t] EXCEPT !.at = "next", !.todo = todo]
    <3>1. task[t] \in TaskState /\ TaskKnows(task[t]) /\ task[t].op = "scan"
      BY <2>8 DEF TasksKnow, List
    <3> HIDE DEF x
    <3>2. ASSUME NEW path \in todo PROVE path \in Paths
      <4>1. \/ \E p \in Packages : path = Private(p)
            \/ \E p \in Packages : path = << "system", p >>
        OBVIOUS
      <4> HIDE StepsOf, <1>0 DEF todo
      <4>2. QED
        BY <4>1 DEF Paths, Private
    <3>3. ASSUME NEW path \in todo, ~Android PROVE path[1] = "private"
      <4>1. PICK p \in Packages : path = Private(p)
        BY <3>3 DEF FindsSystem
      <4>2. QED
        BY <4>1, PrivatePath, PathPackage
    <3> HIDE DEF todo
    <3>4. x \in TaskState /\ TaskKnows(x)
      <4>1. x \in TaskState
        BY <3>1, <3>2 DEF TaskState, x
      <4>2. x.op = "scan" /\ x.at = "next" /\ x.todo = todo /\ x.path = task[t].path
        BY <3>1 DEF TaskState, x
      <4>3. ~Android => task[t].path = None \/ task[t].path[1] = "private"
        BY <3>1 DEF TaskKnows
      <4>4. QED
        BY <4>1, <4>2, <4>3, <3>3 DEF TaskKnows, ScanSteps
    <3>5. task' = [task EXCEPT ![t] = x] /\ use' = use
      BY <2>8 DEF List, TasksKnow, x, todo
    <3>6. QED
      BY <3>4, <3>5, OneTask
  <2>9. CASE NextCandidate(t)
    <3>1. use' = use /\ task[t].at = "next" /\ task[t].op = "scan"
      BY <2>9 DEF NextCandidate
    <3>2. CASE task' = [task EXCEPT ![t] = Idle]
      BY <3>1, <3>2, Returns
    <3>3. ASSUME NEW path \in task[t].todo,
                 task' = [task EXCEPT ![t].at = "load", ![t].path = path, ![t].todo = @ \ {path}]
          PROVE  TasksKnow'
      <4> DEFINE x == [task[t] EXCEPT !.at = "load", !.path = path, !.todo = @ \ {path}]
      <4>1. task[t] \in TaskState /\ TaskKnows(task[t])
        BY DEF TasksKnow
      <4>2. path \in Paths /\ (~Android => path = None \/ path[1] = "private")
        BY <3>1, <4>1 DEF TaskState, TaskKnows
      <4>3. x \in TaskState
        BY <4>1, <4>2 DEF TaskState
      <4>4. /\ x.op = "scan" /\ x.at = "load" /\ x.path = path
            /\ x.todo = task[t].todo \ {path}
        BY <3>1, <4>1 DEF TaskState
      <4>5. ~Android => \A y \in task[t].todo : y = None \/ y[1] = "private"
        BY <3>1, <4>1 DEF TaskKnows
      <4>6. TaskKnows(x)
        <5> HIDE DEF x
        <5>1. QED
          BY <4>2, <4>4, <4>5 DEF TaskKnows, ScanSteps
      <4>7. task' = [task EXCEPT ![t] = x]
        BY <3>3 DEF TasksKnow
      <4>8. QED
        <5> HIDE DEF x
        <5>1. QED
          BY <3>1, <4>3, <4>6, <4>7, OneTask
    <3>4. QED
      BY <2>9, <3>2, <3>3 DEF NextCandidate
  <2>10. CASE Forget(t)
    <3>1. /\ use' = use /\ task[t].at = "forget"
          /\ Goto(t, "hide") \/ Goto(t, "unload")
      BY <2>10 DEF Forget
    <3>2. QED
      BY <3>1, GoesOn DEF UninstallSteps
  <2>11. CASE UnloadExtension(t)
    BY <2>11, GoesOn DEF UnloadExtension, UninstallSteps
  <2>12. CASE DeleteFiles(t)
    <3>1. /\ use' = use /\ task[t].at \in {"delete", "delete meta"}
          /\ Goto(t, "delete meta") \/ Goto(t, "hide")
      BY <2>12 DEF DeleteFiles
    <3>2. QED
      BY <3>1, GoesOn DEF UninstallSteps
  <2>13. CASE HidePackage(t)
    <3> DEFINE x == [task[t] EXCEPT !.at = "hidden", !.seen = LoadHidden \cup {task[t].pkg}]
    <3>1. LoadHidden \subseteq Packages
      BY DEF LoadHidden, TypeOK
    <3>2. task[t] \in TaskState /\ TaskKnows(task[t]) /\ task[t].op = "uninstall"
      BY <2>13 DEF TasksKnow, HidePackage
    <3>3. x \in TaskState /\ TaskKnows(x)
      BY <3>1, <3>2 DEF TaskState, TaskKnows, UninstallSteps
    <3>4. /\ use' = use
          /\ task' = [task EXCEPT ![t] = x] \/ task' = [task EXCEPT ![t] = Idle]
      BY <2>13 DEF HidePackage, Uninstalled, TasksKnow
    <3>5. QED
      BY <3>3, <3>4, OneTask, Returns
  <2>14. QED
    BY <1>6, <2>1, <2>2, <2>3, <2>4, <2>5, <2>6, <2>7, <2>8, <2>9, <2>10, <2>11, <2>12, <2>13
       DEF Step
<1>7. QED
  BY <1>1, <1>2, <1>3, <1>4, <1>5, <1>6 DEF Next, vars, Start, Extract

DiskType ==
  /\ artifact \in [Packages -> Versions \cup {Absent, Torn}]
  /\ meta \in [Packages -> Versions \cup {Absent, Torn}]
  /\ hidden = Torn \/ hidden \subseteq Packages

\* A step writes versions, or half of one, and lists of packages.
LEMMA NextDisk == TypeOK /\ Known /\ [Next]_vars => DiskType'
<1> SUFFICES ASSUME TypeOK, Known, [Next]_vars PROVE DiskType'
  OBVIOUS
<1>0. DiskType /\ TasksKnow
  BY DEF TypeOK, Known, DiskType
<1>1. ASSUME UNCHANGED disk PROVE DiskType'
  BY <1>0, <1>1 DEF disk, DiskType
<1>2. ASSUME NEW t \in Tasks, Convert(t) PROVE DiskType'
  BY <1>0, <1>2 DEF Convert, DiskType
<1>3. ASSUME NEW t \in Tasks, Converted(t) PROVE DiskType'
  <2>1. task[t].op = "install"
    BY <1>0, <1>3, StepsOf DEF Converted, At
  <2>2. task[t].version \in Versions
    BY <1>0, <2>1 DEF TasksKnow, TaskKnows
  <2>3. QED
    BY <1>0, <1>3, <2>2 DEF Converted, DiskType
<1>4. ASSUME NEW t \in Tasks, SaveMeta(t) PROVE DiskType'
  <2>1. task[t].op = "install"
    BY <1>0, <1>4, StepsOf DEF SaveMeta, At
  <2>2. task[t].version \in Versions
    BY <1>0, <2>1 DEF TasksKnow, TaskKnows
  <2>3. QED
    BY <1>0, <1>4, <2>2 DEF SaveMeta, DiskType
<1>5. ASSUME NEW t \in Tasks, PersistHidden(t) PROVE DiskType'
  <2>1. task[t].seen \subseteq Packages
    BY <1>0 DEF TasksKnow, TaskState
  <2>2. QED
    BY <1>0, <1>5, <2>1 DEF PersistHidden, DiskType
<1>6. ASSUME NEW t \in Tasks, List(t) PROVE DiskType'
  BY <1>0, <1>6 DEF List, Recovers, DiskType
<1>7. ASSUME NEW t \in Tasks, DeleteFiles(t) PROVE DiskType'
  BY <1>0, <1>7 DEF DeleteFiles, DiskType
<1>8. QED
  BY <1>1, <1>2, <1>3, <1>4, <1>5, <1>6, <1>7
     DEF Next, Step, vars, Start, Extract, End, Install, Scan, Uninstall, UnhidePackage, Load,
         Record, NextCandidate, Forget, UnloadExtension, HidePackage, disk

MemoryType ==
  /\ loaders \in [Paths -> Versions \cup {Torn, None}]
  /\ jvm \in [Sources -> Versions \cup {None}]
  /\ jarPaths \in [Sources -> Paths \cup {None}]
  /\ packages \in [Sources -> Packages \cup {None}]
  /\ held \subseteq Sources

\* A step loads versions that are on disk, and records paths and packages.
LEMMA NextMemory == TypeOK /\ Known /\ [Next]_vars => MemoryType'
<1> SUFFICES ASSUME TypeOK, Known, [Next]_vars PROVE MemoryType'
  OBVIOUS
<1>0. MemoryType /\ DiskType /\ TasksKnow /\ use \in Uses
  BY DEF TypeOK, Known, DiskType, MemoryType
<1>1. ASSUME UNCHANGED memory PROVE MemoryType'
  BY <1>0, <1>1 DEF memory, MemoryType
<1>2. CASE End
  BY <1>2 DEF End, MemoryType
<1>3. ASSUME NEW t \in Tasks, Convert(t) PROVE MemoryType'
  BY <1>0, <1>3 DEF Convert, MemoryType
<1>4. ASSUME NEW t \in Tasks, PersistHidden(t) PROVE MemoryType'
  BY <1>0, <1>4 DEF PersistHidden, Uninstalled, MemoryType, memory
<1>5. ASSUME NEW t \in Tasks, Load(t) PROVE MemoryType'
  <2> DEFINE path   == task[t].path
             loader == IF loaders[path] # None THEN loaders[path] ELSE FileAt(path)
  <2>1. task[t].at = "load" /\ TaskKnows(task[t])
    BY <1>0, <1>5 DEF Load, At, TasksKnow
  <2>2. path \in Paths
    BY <1>0, <2>1, LoadsAPath
  <2>3. path[2] \in Packages
    BY <2>2, PrivatePath, PathPackage
  <2>4. FileAt(path) \in Versions \cup {Absent, Torn}
    <3>1. use.system \in [Packages -> Versions \cup {Absent}]
      BY <1>0, MihonAssumption DEF Usage
    <3>2. QED
      BY <1>0, <2>3, <3>1 DEF FileAt, DiskType
  <2>5. loaders[path] \in Versions \cup {Torn, None}
    BY <1>0, <2>2 DEF MemoryType
  <2>6. FileAt(path) # Absent => loader \in Versions \cup {Torn}
    BY <2>4, <2>5
  <2> HIDE DEF path, loader
  <2>7. /\ \/ UNCHANGED << loaders, jvm >>
           \/ /\ FileAt(path) # Absent
              /\ loaders' = [loaders EXCEPT ![path] = loader]
              /\ jvm' = [s \in Sources |-> IF s \in CreatedBy(path[2], loader)
                                            THEN loader ELSE jvm[s]]
        /\ UNCHANGED << jarPaths, packages, held >>
    BY <1>5 DEF Load, path, loader
  <2>8. CreatedBy(path[2], loader) # {} => loader \in Versions
    BY DEF CreatedBy
  <2>9. QED
    BY <1>0, <2>6, <2>7, <2>8 DEF MemoryType
<1>6. ASSUME NEW t \in Tasks, Record(t) PROVE MemoryType'
  <2>1. task[t].at = "record" /\ TaskKnows(task[t])
    BY <1>0, <1>6 DEF Record, At, TasksKnow
  <2>2. task[t].path \in Paths
    BY <1>0, <2>1, LoadsAPath
  <2>3. task[t].path[2] \in Packages /\ task[t].ids \subseteq Sources /\ task[t].ids # {}
    BY <2>1, <2>2, PrivatePath, PathPackage, SourceFacts DEF TaskKnows
  <2>4. (CHOOSE s \in task[t].ids : TRUE) \in task[t].ids
    BY <2>3
  <2>5. held' \subseteq Sources
    BY <1>0, <1>6, <2>3, <2>4 DEF Record, MemoryType
  <2>6. /\ jarPaths' \in [Sources -> Paths \cup {None}]
        /\ packages' \in [Sources -> Packages \cup {None}]
        /\ UNCHANGED << loaders, jvm >>
    BY <1>0, <1>6, <2>2, <2>3 DEF Record, MemoryType
  <2>7. QED
    BY <1>0, <2>5, <2>6 DEF MemoryType
<1>7. ASSUME NEW t \in Tasks, NEW s \in Sources, Uninstall(t, s) PROVE MemoryType'
  BY <1>0, <1>7 DEF Uninstall, MemoryType
<1>8. ASSUME NEW t \in Tasks, Forget(t) PROVE MemoryType'
  BY <1>0, <1>8 DEF Forget, MemoryType
<1>9. ASSUME NEW t \in Tasks, UnloadExtension(t) PROVE MemoryType'
  BY <1>0, <1>9 DEF UnloadExtension, MemoryType
<1>10. ASSUME NEW t \in Tasks, HidePackage(t) PROVE MemoryType'
  BY <1>0, <1>10 DEF HidePackage, Uninstalled, MemoryType
<1>11. QED
  BY <1>1, <1>2, <1>3, <1>4, <1>5, <1>6, <1>7, <1>8, <1>9, <1>10
     DEF Next, Step, vars, Start, Extract, Install, Scan, Converted, SaveMeta, UnhidePackage,
         List, NextCandidate, DeleteFiles, memory

\* The maps change together: record sets both, uninstall clears both.
LEMMA NextMaps == TypeOK /\ Known /\ [Next]_vars => MapsAgree'
<1> SUFFICES ASSUME TypeOK, Known, [Next]_vars PROVE MapsAgree'
  OBVIOUS
<1>0. MemoryType /\ TasksKnow /\ MapsAgree
  BY DEF TypeOK, Known, MemoryType
<1>1. ASSUME UNCHANGED << jarPaths, packages >> PROVE MapsAgree'
  BY <1>0, <1>1 DEF MapsAgree
<1>2. CASE End
  BY <1>2 DEF End, MapsAgree
<1>3. ASSUME NEW t \in Tasks, Record(t) PROVE MapsAgree'
  <2>1. task[t].at = "record" /\ TaskKnows(task[t])
    BY <1>0, <1>3 DEF Record, At, TasksKnow
  <2>2. task[t].path \in Paths
    BY <1>0, <2>1, LoadsAPath
  <2>3. task[t].ids \subseteq SourcesOf[task[t].path[2]]
    BY <2>1 DEF TaskKnows
  <2>4. QED
    BY <1>0, <1>3, <2>2, <2>3 DEF Record, MapsAgree, MemoryType
<1>4. ASSUME NEW t \in Tasks, Forget(t) PROVE MapsAgree'
  <2>1. ASSUME NEW s \in Sources, packages'[s] # None
        PROVE  packages'[s] = packages[s] /\ jarPaths'[s] = jarPaths[s]
    BY <1>0, <1>4, <2>1 DEF Forget, MemoryType
  <2>2. QED
    BY <1>0, <2>1 DEF MapsAgree
<1>5. QED
  BY <1>1, <1>2, <1>3, <1>4
     DEF Next, Step, vars, Start, Extract, Install, Scan, Uninstall, Convert, Converted, SaveMeta,
         UnhidePackage, PersistHidden, Load, List, NextCandidate, UnloadExtension, DeleteFiles,
         HidePackage, Uninstalled, memory, disk

\* What a task that goes on keeps.
Keeps(t) ==
  /\ task'[t].op = task[t].op /\ task'[t].src = task[t].src
  /\ task'[t].pkg = task[t].pkg /\ task'[t].version = task[t].version
  /\ task[t].op # "scan" => task'[t].path = task[t].path

\* A task that only goes to another step keeps everything else.
LEMMA GoingKeeps ==
  ASSUME TasksKnow, NEW t \in Tasks, NEW at, Goto(t, at)
  PROVE  Keeps(t) /\ \A u \in Tasks \ {t} : task'[u] = task[u]
BY DEF TasksKnow, Keeps, Goto, TaskState

\* A step goes on with its operation or returns; only uninstall takes an
\* extension from the application.
LEMMA StepKeeps ==
  ASSUME TasksKnow, NEW t \in Tasks, Step(t)
  PROVE  /\ \A u \in Tasks \ {t} : task'[u] = task[u]
         /\ \/ task'[t] = Idle /\ (task[t].op = "uninstall" => Uninstalled(t))
            \/ Keeps(t)
<1>0. task \in [Tasks -> TaskState]
  BY DEF TasksKnow
<1>1. ASSUME task' = [task EXCEPT ![t] = Idle],
             task[t].op = "uninstall" => Uninstalled(t)
      PROVE  /\ \A u \in Tasks \ {t} : task'[u] = task[u]
             /\ task'[t] = Idle /\ (task[t].op = "uninstall" => Uninstalled(t))
  BY <1>0, <1>1
<1>2. CASE Convert(t) \/ SaveMeta(t) \/ UnloadExtension(t) \/ DeleteFiles(t) \/ Forget(t)
  BY <1>2, GoingKeeps DEF Convert, SaveMeta, UnloadExtension, DeleteFiles, Forget
<1>3. CASE UnhidePackage(t)
  BY <1>0, <1>3 DEF UnhidePackage, TaskState, Keeps
<1>4. CASE Converted(t)
  <2>1. task[t].op = "install"
    BY <1>4, StepsOf DEF Converted, At
  <2>2. task' = [task EXCEPT ![t] = Idle] \/ Goto(t, "meta")
    BY <1>0, <1>4 DEF Converted, Goto
  <2>3. QED
    BY <1>1, <2>1, <2>2, GoingKeeps
<1>5. CASE PersistHidden(t)
  <2>1. \/ Uninstalled(t)
        \/ \E at \in {"hidden rest", "load"} : Goto(t, at)
    BY <1>5 DEF PersistHidden
  <2>2. CASE Uninstalled(t)
    BY <1>1, <2>2 DEF Uninstalled
  <2>3. QED
    BY <2>1, <2>2, GoingKeeps
<1>6. CASE Load(t)
  <2>1. task[t].op \in {"install", "scan"}
    BY <1>6, StepsOf DEF Load, At
  <2>2. \/ task' = [task EXCEPT ![t] = Idle]
        \/ \E at \in {"next", "record"} : Goto(t, at)
    BY <1>0, <1>6 DEF Load, Fails, Goto
  <2>3. QED
    BY <1>1, <2>1, <2>2, GoingKeeps
<1>7. CASE Record(t)
  <2>1. task[t].op \in {"install", "scan"}
    BY <1>7, StepsOf DEF Record, At
  <2>2. task' = [task EXCEPT ![t] = Idle] \/ Goto(t, "next")
    BY <1>7 DEF Record, Installed
  <2>3. QED
    BY <1>1, <2>1, <2>2, GoingKeeps
<1>8. CASE List(t)
  <2> DEFINE new == {Private(p) : p \in {q \in Packages : FindsPrivate(q)}} \cup
                   {<< "system", p >> : p \in {q \in Packages : FindsSystem(t, q)
                                                                /\ ~FindsPrivate(q)}}
  <2>1. task' = [task EXCEPT ![t].at = "next", ![t].todo = new]
    BY <1>8 DEF List
  <2> HIDE DEF new
  <2>2. QED
    BY <1>0, <2>1 DEF TaskState, Keeps
<1>9. CASE NextCandidate(t)
  <2>1. task[t].op = "scan"
    BY <1>9, StepsOf DEF NextCandidate, At
  <2>2. \/ task' = [task EXCEPT ![t] = Idle]
        \/ \E path \in task[t].todo :
             task' = [task EXCEPT ![t].at = "load", ![t].path = path, ![t].todo = @ \ {path}]
    BY <1>9 DEF NextCandidate
  <2>3. ASSUME NEW path \in task[t].todo,
               task' = [task EXCEPT ![t].at = "load", ![t].path = path, ![t].todo = @ \ {path}]
        PROVE  Keeps(t) /\ \A u \in Tasks \ {t} : task'[u] = task[u]
    BY <1>0, <2>1, <2>3 DEF TaskState, Keeps
  <2>4. QED
    BY <1>1, <2>1, <2>2, <2>3
<1>10. CASE HidePackage(t)
  <2>1. CASE Uninstalled(t)
    BY <1>1, <2>1 DEF Uninstalled
  <2>2. CASE ~Uninstalled(t)
    <3>1. PICK new : task' = [task EXCEPT ![t].at = "hidden", ![t].seen = new]
      BY <1>10, <2>2 DEF HidePackage
    <3>2. \A u \in Tasks \ {t} : task'[u] = task[u]
      BY <1>0, <3>1
    <3>3. task[t] \in TaskState /\ task'[t] = [task[t] EXCEPT !.at = "hidden", !.seen = new]
      BY <1>0, <3>1
    <3>4. Keeps(t)
      BY <3>3 DEF TaskState, Keeps
    <3>5. QED
      BY <3>2, <3>4
  <2>3. QED
    BY <2>1, <2>2
<1>11. QED
  BY <1>2, <1>3, <1>4, <1>5, <1>6, <1>7, <1>8, <1>9, <1>10 DEF Step

\* Whatever the application holds stays known, or is being uninstalled.
LEMMA NextHeld == TypeOK /\ Known /\ [Next]_vars => HeldAreKnown'
<1> SUFFICES ASSUME TypeOK, Known, [Next]_vars PROVE HeldAreKnown'
  OBVIOUS
<1>0. MemoryType /\ TasksKnow /\ HeldAreKnown
  BY DEF TypeOK, Known, MemoryType
<1>1. ASSUME UNCHANGED << held, packages >>,
             \A u \in Tasks : task[u].op = "uninstall" => task'[u] = task[u]
      PROVE  HeldAreKnown'
  BY <1>0, <1>1 DEF HeldAreKnown
<1>2. CASE End
  BY <1>2 DEF End, HeldAreKnown
<1>3. ASSUME NEW t \in Tasks, NEW p \in Packages, NEW v \in Versions, Install(t, p, v)
      PROVE  HeldAreKnown'
  BY <1>0, <1>1, <1>3 DEF Install, Free, Busy, memory, TasksKnow, Idle
<1>4. ASSUME NEW t \in Tasks, Scan(t) PROVE HeldAreKnown'
  BY <1>0, <1>1, <1>4 DEF Scan, Free, Busy, memory, TasksKnow, Idle
<1>5. ASSUME NEW t \in Tasks, NEW s \in Sources, Uninstall(t, s) PROVE HeldAreKnown'
  BY <1>0, <1>1, <1>5 DEF Uninstall, Free, Busy, memory, TasksKnow, Idle
<1>6. ASSUME NEW t \in Tasks, Step(t) PROVE HeldAreKnown'
  <2>1. /\ \A u \in Tasks \ {t} : task'[u] = task[u]
        /\ \/ task'[t] = Idle /\ (task[t].op = "uninstall" => Uninstalled(t))
           \/ task'[t].op = task[t].op /\ task'[t].src = task[t].src
    BY <1>0, <1>6, StepKeeps DEF Keeps
  <2>2. ASSUME held' \subseteq held, \A s \in held' : packages'[s] = packages[s],
               task[t].op = "uninstall" /\ task'[t] = Idle => task[t].src \notin held'
        PROVE  HeldAreKnown'
    BY <1>0, <2>1, <2>2 DEF HeldAreKnown
  <2>3. CASE PersistHidden(t) \/ HidePackage(t)
    <3>1. UNCHANGED packages /\ (held' = held \/ Uninstalled(t))
      BY <2>3 DEF PersistHidden, HidePackage, memory
    <3>2. task[t].op = "uninstall" /\ task'[t] = Idle => Uninstalled(t)
      BY <1>0, <1>6, StepKeeps DEF Keeps, Idle
    <3>3. QED
      BY <2>2, <3>1, <3>2 DEF Uninstalled
  <2>4. CASE Forget(t)
    <3>1. /\ held' = held
          /\ packages' = [packages EXCEPT ![task[t].src] = None]
          /\ task[t].op = "uninstall" /\ task'[t] # Idle
      <4>1. task[t].op = "uninstall"
        BY <1>0, <2>4, StepsOf DEF Forget, At
      <4>2. task'[t].at \in {"hide", "unload"}
        BY <1>0, <2>4 DEF Forget, Goto, TasksKnow, TaskState
      <4>3. QED
        BY <2>4, <4>1, <4>2 DEF Forget, Idle
    <3>2. QED
      BY <1>0, <2>1, <3>1 DEF HeldAreKnown, MemoryType
  <2>5. CASE Record(t)
    <3>1. task[t].path[2] \in Packages /\ task[t].op # "uninstall"
      BY <1>0, <2>5, LoadsAPath, StepsOf DEF Record, At
    <3>2. task[t].ids # {} /\ task[t].ids \subseteq SourcesOf[task[t].path[2]]
      BY <1>0, <2>5 DEF Record, At, TasksKnow, TaskKnows
    <3>3. /\ held' \subseteq held \cup task[t].ids
          /\ packages' = [s \in Sources |-> IF s \in task[t].ids
                                            THEN task[t].path[2] ELSE packages[s]]
      <4>1. (CHOOSE s \in task[t].ids : TRUE) \in task[t].ids
        BY <3>2
      <4>2. QED
        BY <2>5, <4>1 DEF Record
    <3>4. task[t].path[2] # None
      BY <3>1, MihonAssumption
    <3>5. ASSUME NEW s \in held', packages'[s] = None
          PROVE  s \in held /\ packages[s] = None
      <4>1. s \in Sources
        BY <1>0, <3>1, <3>2, <3>3, SourceFacts DEF MemoryType
      <4>2. s \notin task[t].ids
        BY <3>3, <3>4, <3>5, <4>1
      <4>3. QED
        BY <3>3, <3>5, <4>1, <4>2
    <3>6. QED
      BY <1>0, <2>1, <3>1, <3>5 DEF HeldAreKnown
  <2>6. CASE Convert(t) \/ Converted(t) \/ SaveMeta(t) \/ UnhidePackage(t) \/ Load(t)
             \/ List(t) \/ NextCandidate(t) \/ UnloadExtension(t) \/ DeleteFiles(t)
    <3>1. UNCHANGED << held, packages >>
      BY <2>6
         DEF Convert, Converted, SaveMeta, UnhidePackage, Load, List, NextCandidate,
             UnloadExtension, DeleteFiles, memory
    <3>2. task[t].op = "uninstall" /\ task'[t] = Idle => held' = held \ {task[t].src}
      BY <1>0, <1>6, StepKeeps DEF Uninstalled, Keeps, Idle
    <3>3. QED
      BY <2>2, <3>1, <3>2
  <2>7. QED
    BY <1>6, <2>3, <2>4, <2>5, <2>6 DEF Step
<1>7. QED
  BY <1>1, <1>2, <1>3, <1>4, <1>5, <1>6 DEF Next, vars, Start, Extract, memory

\* No step takes the state out of its types, or makes a task or a map forget.
LEMMA NextKnown ==
  TypeOK /\ SidecarIsTrue /\ Known /\ [Next]_vars => TypeOK' /\ Known'
<1> SUFFICES ASSUME TypeOK, SidecarIsTrue, Known, [Next]_vars PROVE TypeOK' /\ Known'
  OBVIOUS
<1>1. TasksKnow' /\ DiskType' /\ MemoryType' /\ MapsAgree' /\ HeldAreKnown' /\ SidecarIsTrue'
  BY NextTasks, NextDisk, NextMemory, NextMaps, NextHeld, NextSidecar
<1>2. jar' \in Tags \cup {Absent, Torn} /\ sidecar' \in Tags \cup {Absent, Torn}
  <2>1. CASE Extract
    BY <2>1 DEF Extract, EnsureCompatJar, TypeOK, SidecarIsTrue
  <2>2. CASE UNCHANGED << jar, sidecar >>
    BY <2>2 DEF TypeOK
  <2>3. QED
    BY <2>1, <2>2
       DEF Next, Step, vars, compat, Start, StartProcess, End, EndProcess, Install, Scan, Uninstall,
           Convert, Converted, SaveMeta, UnhidePackage, PersistHidden, Load, Record, List,
           NextCandidate, Forget, UnloadExtension, DeleteFiles, HidePackage
<1>3. \A s \in held' : packages'[s] = None => \E t \in Tasks : task'[t].src = s
  BY <1>1 DEF HeldAreKnown
<1>4. QED
  BY <1>1, <1>2, <1>3 DEF TypeOK, Known, TasksKnow, DiskType, MemoryType, SidecarIsTrue

\* The type invariant: whatever is installed, found, uninstalled or cut off, the
\* adapter can uninstall every extension the application holds.
THEOREM MihonTypeCorrect == Spec => []TypeOK
<1>1. Init => TypeOK /\ SidecarIsTrue /\ Known
  BY InitKnown, InitSidecar
<1>2. TypeOK /\ SidecarIsTrue /\ Known /\ [Next]_vars => TypeOK' /\ SidecarIsTrue' /\ Known'
  BY NextKnown, NextSidecar
<1>3. QED
  BY <1>1, <1>2, PTL DEF Spec

-----------------------------------------------------------------------------
(* What install leaves.  Nothing else touches the package between its steps,*)
(* so that each step finds what the one before has left.                    *)

Works(x) == x.op \in {"install", "uninstall"}

\* One operation on a package at a time, and none while extensions are looked for.
OneAtATime ==
  /\ \A t, u \in Tasks : Works(task[t]) /\ Works(task[u]) /\ task[t].pkg = task[u].pkg => t = u
  /\ \A t, u \in Tasks : task[t].op = "scan" /\ task[u].op # "none" => t = u

\* What an install has done so far.
Progress(x) ==
  x.op = "install" =>
    /\ x.at \notin {"convert", "converted"} => artifact[x.pkg] = x.version
    /\ x.at \notin {"convert", "converted", "meta", "meta rest"} => meta[x.pkg] = x.version
    /\ ~Android /\ x.at \notin {"convert", "record"} => loaders[x.path] = None
    /\ ~Android /\ x.at = "record" =>
         /\ loaders[x.path] = x.version
         /\ \A s \in Creates[x.pkg][x.version] : jvm[s] \in {None, x.version}

\* A package that is installed is at rest, and the JVM has no other version of it.
AtRest ==
  /\ installed \in [Packages -> Versions \cup {None}]
  /\ \A t \in Tasks : Works(task[t]) => installed[task[t].pkg] = None
  /\ ~Android => \A p \in Packages :
       installed[p] # None => loaders[Private(p)] \in {None, installed[p]}

InstallsWork ==
  OneAtATime /\ (\A t \in Tasks : Progress(task[t])) /\ AtRest /\ InstalledRuns

\* What there is of a package, on disk and in memory, does not change.
Same(p) ==
  /\ artifact'[p] = artifact[p] /\ meta'[p] = meta[p] /\ installed'[p] = installed[p]
  /\ loaders'[Private(p)] = loaders[Private(p)]
  /\ \A s \in SourcesOf[p] : jvm'[s] = jvm[s]

\* A task that installs or uninstalls a package knows its path.
LEMMA WorksOnItsPath ==
  ASSUME TasksKnow, NEW t \in Tasks, Works(task[t])
  PROVE  /\ task[t].pkg \in Packages /\ task[t].path \in Paths
         /\ task[t].path[2] = task[t].pkg
<1>1. TaskKnows(task[t])
  BY DEF TasksKnow
<1>2. CASE task[t].op = "install"
  <2>1. task[t].pkg \in Packages /\ task[t].path = Private(task[t].pkg)
    BY <1>1, <1>2, Zenon DEF TaskKnows
  <2>2. QED
    BY <2>1, PrivatePath
<1>3. CASE task[t].op = "uninstall"
  BY <1>1, <1>3 DEF TaskKnows
<1>4. QED
  BY <1>2, <1>3 DEF Works

\* A task that is idle does nothing.
LEMMA IdleRests == ASSUME TasksKnow, NEW t \in Tasks, Step(t) PROVE task[t].op # "none"
<1>1. TaskKnows(task[t])
  BY DEF TasksKnow
<1>2. SUFFICES ASSUME task[t].op = "none" PROVE FALSE
  OBVIOUS
<1>3. task[t].at = "idle"
  BY <1>1, <1>2 DEF TaskKnows, Idle
<1>4. QED
  BY <1>3 DEF Step, At, Convert, Converted, SaveMeta, UnhidePackage, PersistHidden, Load, Record,
              List, NextCandidate, Forget, UnloadExtension, DeleteFiles, HidePackage

\* Installing and uninstalling a package leave the other packages alone.
LEMMA LeavesOthers ==
  ASSUME TypeOK, Known, AtRest, NEW t \in Tasks, Step(t), Works(task[t]),
         NEW p \in Packages, p # task[t].pkg
  PROVE  Same(p)
<1>0. MemoryType /\ DiskType /\ TasksKnow
  BY DEF TypeOK, Known, MemoryType, DiskType
<1>1. /\ task[t].pkg \in Packages /\ task[t].path \in Paths
      /\ task[t].path[2] = task[t].pkg
  BY <1>0, WorksOnItsPath
<1>2. Private(p) \in Paths /\ Private(p) # task[t].path
  BY <1>1, PrivatePath
<1>3. \A s \in SourcesOf[p] : s \in Sources /\ s \notin SourcesOf[task[t].pkg]
  BY <1>1, MihonAssumption, SourceFacts
<1>4. installed \in [Packages -> Versions \cup {None}]
  BY DEF AtRest
<1> USE DEF Same
<1>5. ASSUME UNCHANGED << artifact, meta, installed, loaders, jvm >> PROVE Same(p)
  BY <1>5
<1>6. CASE Convert(t)
  BY <1>0, <1>2, <1>6 DEF Convert, history, DiskType, MemoryType
<1>7. CASE Converted(t) \/ SaveMeta(t)
  BY <1>0, <1>7 DEF Converted, SaveMeta, history, memory, DiskType
<1>8. CASE Load(t)
  <2>1. \/ UNCHANGED << loaders, jvm >>
        \/ \E loader :
             /\ loaders' = [loaders EXCEPT ![task[t].path] = loader]
             /\ jvm' = [s \in Sources |-> IF s \in CreatedBy(task[t].path[2], loader)
                                          THEN loader ELSE jvm[s]]
    BY <1>8 DEF Load
  <2>2. UNCHANGED << artifact, meta, installed >>
    BY <1>8 DEF Load, disk, history
  <2>3. \A loader : CreatedBy(task[t].path[2], loader) \subseteq SourcesOf[task[t].pkg]
    BY <1>1, CreatesSome
  <2>4. QED
    BY <1>0, <1>1, <1>2, <1>3, <2>1, <2>2, <2>3 DEF MemoryType
<1>9. CASE Record(t)
  BY <1>1, <1>4, <1>5, <1>9 DEF Record, Installed, disk, history
<1>10. CASE UnloadExtension(t)
  <2>1. /\ loaders' = [loaders EXCEPT ![task[t].path] = None]
        /\ \E code :
             jvm' = [s \in Sources |-> IF Android /\ s \in CreatedBy(task[t].path[2], code) THEN None
                                       ELSE jvm[s]]
        /\ UNCHANGED << artifact, meta, installed >>
    BY <1>10 DEF UnloadExtension, disk, history
  <2>2. \A code : CreatedBy(task[t].path[2], code) \subseteq SourcesOf[task[t].pkg]
    BY <1>1, CreatesSome
  <2>3. QED
    BY <1>0, <1>1, <1>2, <1>3, <2>1, <2>2 DEF MemoryType
<1>11. CASE DeleteFiles(t)
  BY <1>0, <1>1, <1>11 DEF DeleteFiles, memory, history, DiskType
<1>12. CASE PersistHidden(t) \/ HidePackage(t)
  BY <1>5, <1>12 DEF PersistHidden, HidePackage, Uninstalled, history, memory, disk
<1>13. CASE UnhidePackage(t) \/ Forget(t)
  BY <1>5, <1>13 DEF UnhidePackage, Forget, history, memory, disk
<1>14. ~List(t) /\ ~NextCandidate(t)
  BY <1>0, StepsOf DEF List, NextCandidate, At, Works
<1>15. QED
  BY <1>6, <1>7, <1>8, <1>9, <1>10, <1>11, <1>12, <1>13, <1>14 DEF Step

\* On the desktop there is one version of what is installed.
OneVersion(p) ==
  /\ loaders[Private(p)] \in {None, installed[p]}
  /\ \A s \in Creates[p][installed[p]] : jvm[s] \in {None, installed[p]}

\* Looking for extensions loads the versions that are installed, and mends no
\* metadata but missing ones.
LEMMA ScanLoadsInstalled ==
  ASSUME TypeOK, Known, AtRest, InstalledRuns, NEW t \in Tasks, Step(t), task[t].op = "scan",
         NEW p \in Packages, installed[p] # None
  PROVE  /\ installed' = installed /\ artifact' = artifact /\ meta'[p] = meta[p]
         /\ ~Android => OneVersion(p)'
<1>0. MemoryType /\ DiskType /\ TasksKnow
  BY DEF TypeOK, Known, MemoryType, DiskType
<1>1. /\ artifact[p] = installed[p] /\ meta[p] = installed[p]
      /\ ~Android => OneVersion(p)
      /\ installed[p] \in Versions
  BY DEF InstalledRuns, AtRest, OneVersion
<1>2. task[t].at \in ScanSteps
  BY <1>0 DEF TasksKnow, TaskKnows
<1>3. CASE List(t)
  <2>1. /\ meta' = [q \in Packages |-> IF Recovers(q) THEN artifact[q] ELSE meta[q]]
        /\ UNCHANGED << artifact, installed, loaders, jvm >>
    BY <1>3 DEF List, memory, history
  <2>2. meta[p] # Absent
    BY <1>1, MihonAssumption
  <2>3. QED
    BY <1>1, <2>1, <2>2 DEF Recovers, OneVersion
<1>4. CASE NextCandidate(t) \/ Record(t)
  <2>1. UNCHANGED << artifact, meta, installed, loaders, jvm >>
    BY <1>4 DEF NextCandidate, Record, memory, disk, history
  <2>2. QED
    BY <1>1, <2>1 DEF OneVersion
<1>5. CASE Load(t)
  <2> DEFINE path   == task[t].path
             loader == IF loaders[path] # None THEN loaders[path] ELSE FileAt(path)
  <2>1. UNCHANGED << installed, artifact, meta >>
    BY <1>5 DEF Load, disk, history
  <2>2. SUFFICES ASSUME ~Android PROVE OneVersion(p)'
    BY <2>1
  <2>3. path \in Paths /\ path[1] = "private"
    <3>1. TaskKnows(task[t]) /\ task[t].at = "load"
      BY <1>0, <1>5 DEF TasksKnow, Load, At
    <3>2. path \in Paths
      BY <1>0, <3>1, LoadsAPath
    <3>3. path # None
      BY <3>2, MihonAssumption
    <3>4. QED
      BY <2>2, <3>1, <3>2, <3>3 DEF TaskKnows
  <2>4. path[2] \in Packages /\ path = Private(path[2])
    BY <2>3 DEF Paths, Private
  <2>5. path[2] = p => loader = installed[p]
    BY <1>1, <2>2, <2>3, <2>4 DEF OneVersion, FileAt
  <2>6. path[2] # p => Private(p) # path /\ \A s \in SourcesOf[p] : s \notin SourcesOf[path[2]]
    BY <2>4, PrivatePath, MihonAssumption
  <2>7. Private(p) \in Paths /\ \A s \in SourcesOf[p] : s \in Sources
    BY PrivatePath, SourceFacts
  <2>8. /\ \/ UNCHANGED loaders
           \/ loaders' = [loaders EXCEPT ![path] = loader]
        /\ \/ UNCHANGED jvm
           \/ jvm' = [s \in Sources |-> IF s \in CreatedBy(path[2], loader) THEN loader ELSE jvm[s]]
    BY <1>5 DEF Load
  <2> HIDE DEF path, loader
  <2>9. loaders'[Private(p)] \in {None, installed[p]}
    BY <1>0, <1>1, <2>2, <2>4, <2>5, <2>6, <2>7, <2>8 DEF MemoryType, OneVersion
  <2>10. \A s \in Creates[p][installed[p]] : jvm'[s] \in {None, installed[p]}
    <3>1. Creates[p][installed[p]] \subseteq SourcesOf[p]
      BY <1>1, CreatesSome
    <3>2. CreatedBy(path[2], loader) \subseteq SourcesOf[path[2]]
      BY <2>4, CreatesSome
    <3>3. QED
      BY <1>0, <1>1, <2>2, <2>4, <2>5, <2>6, <2>7, <2>8, <3>1, <3>2 DEF MemoryType, OneVersion
  <2>11. QED
    BY <2>1, <2>9, <2>10 DEF OneVersion
<1>6. QED
  BY <1>2, <1>3, <1>4, <1>5
     DEF Step, At, ScanSteps, Convert, Converted, SaveMeta, UnhidePackage, PersistHidden, Forget,
         UnloadExtension, DeleteFiles, HidePackage

\* Each step of an install finds what the one before has left; the last one
\* leaves the package as it should be.
LEMMA InstallProgresses ==
  ASSUME TypeOK, Known, AtRest, NEW t \in Tasks, Step(t), task[t].op = "install",
         Progress(task[t])
  PROVE  /\ Progress(task[t])'
         /\ \/ UNCHANGED installed
            \/ /\ installed' = [installed EXCEPT ![task[t].pkg] = task[t].version]
               /\ artifact'[task[t].pkg] = task[t].version
               /\ meta'[task[t].pkg] = task[t].version
               /\ ~Android => /\ loaders'[task[t].path] = task[t].version
                              /\ \A s \in Creates[task[t].pkg][task[t].version] :
                                   jvm'[s] \in {None, task[t].version}
               /\ task'[t] = Idle
<1> DEFINE p == task[t].pkg
           v == task[t].version
           x == task[t].path
<1>0. MemoryType /\ DiskType /\ TasksKnow /\ UNCHANGED use
  <2>1. UNCHANGED use
    BY DEF Step, Convert, Converted, SaveMeta, UnhidePackage, PersistHidden, Load, Record, List,
           NextCandidate, Forget, UnloadExtension, DeleteFiles, HidePackage
  <2>2. QED
    BY <2>1 DEF TypeOK, Known, MemoryType, DiskType
<1>1. /\ p \in Packages /\ v \in Versions /\ x = Private(p) /\ x \in Paths /\ x[2] = p
      /\ x[1] = "private" /\ task[t].at \in InstallSteps
  <2>1. TaskKnows(task[t])
    BY <1>0 DEF TasksKnow
  <2>2. p \in Packages /\ v \in Versions /\ x = Private(p) /\ task[t].at \in InstallSteps
    BY <2>1 DEF TaskKnows
  <2>3. QED
    BY <2>2, PrivatePath
<1>2. v # None /\ v # Torn /\ v # Absent
  BY <1>1, MihonAssumption
<1>3. \/ task'[t] = Idle
      \/ Keeps(t)
  BY <1>0, StepKeeps
<1>4. ASSUME task'[t] = Idle PROVE Progress(task[t])'
  <2>1. task'[t].op = "none"
    BY <1>4 DEF Idle
  <2>2. QED
    BY <2>1 DEF Progress
<1>5. task \in [Tasks -> TaskState]
  BY <1>0 DEF TasksKnow
<1>6. CASE Convert(t)
  <2>1. task'[t].at = "converted"
    BY <1>5, <1>6 DEF Convert, Goto, TaskState
  <2>2. ~Android => loaders'[x] = None
    BY <1>0, <1>1, <1>6 DEF Convert, MemoryType
  <2>3. UNCHANGED installed
    BY <1>6 DEF Convert, history
  <2> HIDE DEF p, v, x
  <2>4. QED
    BY <1>0, <1>3, <1>4, <2>1, <2>2, <2>3 DEF Progress, Keeps, Android, x
<1>7. CASE Converted(t)
  <2>1. artifact'[p] = v /\ UNCHANGED << loaders, installed >> /\ task[t].at = "converted"
    BY <1>0, <1>1, <1>7 DEF Converted, At, DiskType, memory, history
  <2>2. task'[t] = Idle \/ task'[t].at = "meta"
    BY <1>5, <1>7 DEF Converted, TaskState
  <2> HIDE DEF p, v, x
  <2>3. ~Android => loaders[x] = None
    BY <2>1 DEF Progress, x
  <2>4. QED
    BY <1>0, <1>3, <1>4, <2>1, <2>2, <2>3 DEF Progress, Keeps, Android, p, v, x
<1>8. CASE SaveMeta(t)
  <2>1. /\ task[t].at \in {"meta", "meta rest"} /\ UNCHANGED << artifact, loaders, installed >>
        /\ \/ task'[t].at = "meta rest"
           \/ task'[t].at = "unhide" /\ meta'[p] = v
    <3>1. /\ task[t].at \in {"meta", "meta rest"} /\ UNCHANGED << artifact, loaders, installed >>
          /\ \/ Goto(t, "meta rest")
             \/ Goto(t, "unhide") /\ meta' = [meta EXCEPT ![p] = v]
      BY <1>8 DEF SaveMeta, At, memory, history
    <3>2. \A at : Goto(t, at) => task'[t].at = at
      BY <1>5 DEF Goto, TaskState
    <3>3. meta' = [meta EXCEPT ![p] = v] => meta'[p] = v
      BY <1>0, <1>1 DEF DiskType
    <3>4. QED
      BY <3>1, <3>2, <3>3
  <2> HIDE DEF p, v, x
  <2>2. artifact[p] = v /\ (~Android => loaders[x] = None)
    BY <2>1 DEF Progress, p, v, x
  <2>3. QED
    BY <1>0, <1>3, <1>4, <2>1, <2>2 DEF Progress, Keeps, Android, p, v, x
<1>9. CASE UnhidePackage(t) \/ (PersistHidden(t) /\ ~Uninstalled(t))
  <2>1. /\ task[t].at \in {"unhide", "hidden", "hidden rest"}
        /\ UNCHANGED << artifact, meta, loaders, installed >>
    BY <1>9 DEF UnhidePackage, PersistHidden, At, disk, memory, history
  <2>2. task'[t].at \in {"hidden", "hidden rest", "load"}
    BY <1>5, <1>9 DEF UnhidePackage, PersistHidden, Goto, TaskState
  <2> HIDE DEF p, v, x
  <2>3. artifact[p] = v /\ meta[p] = v /\ (~Android => loaders[x] = None)
    BY <2>1 DEF Progress, p, v, x
  <2>4. QED
    BY <1>0, <1>3, <1>4, <2>1, <2>2, <2>3 DEF Progress, Keeps, Android, p, v, x
<1>10. CASE PersistHidden(t) /\ Uninstalled(t)
  BY <1>4, <1>5, <1>10 DEF Uninstalled
<1>11. CASE Load(t)
  <2>1. task[t].at = "load" /\ UNCHANGED << artifact, meta, installed >>
    BY <1>11 DEF Load, At, disk, history
  <2>2. artifact[p] = v /\ meta[p] = v /\ (~Android => loaders[x] = None)
    BY <2>1 DEF Progress
  <2>3. \/ task'[t] = Idle
        \/ /\ task'[t].at = "record"
           /\ ~Android => /\ loaders' = [loaders EXCEPT ![x] = v]
                          /\ jvm' = [s \in Sources |-> IF s \in Creates[p][v] THEN v ELSE jvm[s]]
    <3>1. FileAt(x) = v
      BY <1>1, <2>2 DEF FileAt
    <3>2. \/ Fails(t)
          \/ /\ \E made : Loads(t, made)
             /\ ~Android => /\ loaders' = [loaders EXCEPT ![x] = v]
                            /\ jvm' = [s \in Sources |-> IF s \in Creates[p][v] THEN v ELSE jvm[s]]
      <4>1. Fails(t) \/ \E made : Loads(t, made)
        BY <1>0, <1>11, LoadSteps
      <4>2. CreatedBy(p, v) = Creates[p][v]
        BY <1>1, CreatesSome
      <4>3. ~Android => \/ Fails(t)
                        \/ /\ loaders' = [loaders EXCEPT ![x] = v]
                           /\ jvm' = [s \in Sources |-> IF s \in Creates[p][v] THEN v ELSE jvm[s]]
        BY <1>1, <1>2, <1>11, <2>2, <3>1, <4>2 DEF Load
      <4>4. QED
        BY <4>1, <4>3
    <3>3. Fails(t) => task'[t] = Idle
      BY <1>5 DEF Fails, TaskState
    <3>4. ASSUME NEW made, Loads(t, made) PROVE task'[t].at = "record"
      BY <1>5, <3>4 DEF Loads, TaskState
    <3>5. QED
      BY <3>2, <3>3, <3>4
  <2>4. \A s \in Creates[p][v] : s \in Sources
    BY <1>1, SourceFacts, CreatesSome
  <2> HIDE DEF p, v, x
  <2>5. task'[t].at = "record" /\ ~Android =>
          loaders'[x] = v /\ \A s \in Creates[p][v] : jvm'[s] = v
    BY <1>0, <1>1, <2>1, <2>3, <2>4 DEF MemoryType, Idle
  <2>6. QED
    BY <1>0, <1>3, <1>4, <2>1, <2>2, <2>3, <2>5 DEF Progress, Keeps, Android, p, v, x
<1>12. CASE Record(t)
  <2>1. /\ task[t].at = "record" /\ UNCHANGED << artifact, meta, loaders, jvm >>
        /\ task'[t] = Idle /\ installed' = [installed EXCEPT ![p] = v]
    BY <1>5, <1>12 DEF Record, Installed, At, disk
  <2>2. /\ artifact[p] = v /\ meta[p] = v
        /\ ~Android => loaders[x] = v /\ \A s \in Creates[p][v] : jvm[s] \in {None, v}
    BY <2>1 DEF Progress
  <2> HIDE DEF p, v, x
  <2>3. QED
    BY <1>4, <2>1, <2>2 DEF p, v, x
<1>13. task[t].at \notin {"list", "next", "forget", "unload", "delete", "delete meta", "hide"}
  BY <1>1 DEF InstallSteps
<1>14. QED
  BY <1>6, <1>7, <1>8, <1>9, <1>10, <1>11, <1>12, <1>13
     DEF Step, At, List, NextCandidate, Forget, UnloadExtension, DeleteFiles, HidePackage

\* Tasks on a package, and looking for extensions, exclude each other.
LEMMA NextAlone == TypeOK /\ Known /\ OneAtATime /\ [Next]_vars => OneAtATime'
<1> SUFFICES ASSUME TypeOK, Known, OneAtATime, [Next]_vars PROVE OneAtATime'
  OBVIOUS
<1>0. TasksKnow
  BY DEF Known
<1>1. ASSUME UNCHANGED task PROVE OneAtATime'
  BY <1>1 DEF OneAtATime, Works
<1>2. CASE End
  BY <1>2 DEF End, OneAtATime, Works, Idle
<1>3. ASSUME NEW t \in Tasks, NEW p \in Packages, NEW v \in Versions, Install(t, p, v)
      PROVE  OneAtATime'
  <2>1. /\ task'[t].op = "install" /\ task'[t].pkg = p
        /\ \A u \in Tasks \ {t} : task'[u] = task[u]
    BY <1>0, <1>3 DEF Install, TasksKnow, Idle
  <2>2. \A u \in Tasks : ~(Works(task[u]) /\ task[u].pkg = p)
    BY <1>3 DEF Install, Touched, Works
  <2>3. \A u \in Tasks : task[u].op # "scan"
    BY <1>3 DEF Install, Free, Busy, Idle
  <2>4. QED
    BY <2>1, <2>2, <2>3 DEF OneAtATime, Works
<1>4. ASSUME NEW t \in Tasks, Scan(t) PROVE OneAtATime'
  <2>1. /\ task'[t].op = "scan"
        /\ \A u \in Tasks \ {t} : task'[u] = Idle
    BY <1>0, <1>4 DEF Scan, TasksKnow, Idle, Busy
  <2>2. QED
    BY <2>1 DEF OneAtATime, Works, Idle
<1>5. ASSUME NEW t \in Tasks, NEW s \in Sources, Uninstall(t, s) PROVE OneAtATime'
  <2>1. /\ task'[t].op = "uninstall" /\ task'[t].pkg = packages[s]
        /\ \A u \in Tasks \ {t} : task'[u] = task[u]
    BY <1>0, <1>5 DEF Uninstall, TasksKnow, Idle
  <2>2. \A u \in Tasks : ~(Works(task[u]) /\ task[u].pkg = PackageOf(s))
    BY <1>5 DEF Uninstall, Touched, Works
  <2>3. packages[s] # None => packages[s] = PackageOf(s)
    BY SourceFacts DEF Known, MapsAgree, TypeOK
  <2>4. \A u \in Tasks : Works(task[u]) => task[u].pkg # None
    BY <1>0, WorksOnItsPath, MihonAssumption
  <2>5. \A u \in Tasks : task[u].op # "scan"
    BY <1>5 DEF Uninstall, Free, Busy, Idle
  <2>6. QED
    BY <2>1, <2>2, <2>3, <2>4, <2>5 DEF OneAtATime, Works
<1>6. ASSUME NEW t \in Tasks, Step(t) PROVE OneAtATime'
  <2>1. /\ \A u \in Tasks \ {t} : task'[u] = task[u]
        /\ task'[t] = Idle \/ (task'[t].op = task[t].op /\ task'[t].pkg = task[t].pkg)
    BY <1>0, <1>6, StepKeeps DEF Keeps
  <2>2. task[t].op # "none" /\ (task'[t] = Idle => task'[t].op = "none")
    BY <1>0, <1>6, IdleRests DEF Idle
  <2>3. QED
    BY <2>1, <2>2 DEF OneAtATime, Works
<1>7. QED
  BY <1>1, <1>2, <1>3, <1>4, <1>5, <1>6 DEF Next, vars, Start, Extract

\* What a step of another task leaves to an install, and to a package at rest.
LEMMA NextProgress ==
  TypeOK /\ SidecarIsTrue /\ Known /\ InstallsWork /\ [Next]_vars
    => \A t \in Tasks : Progress(task[t])'
<1> SUFFICES ASSUME TypeOK, SidecarIsTrue, Known, InstallsWork, [Next]_vars,
                    NEW u \in Tasks
             PROVE  Progress(task[u])'
  OBVIOUS
<1>0. TasksKnow /\ AtRest /\ OneAtATime /\ Progress(task[u])
  BY DEF Known, InstallsWork
<1>1. ASSUME UNCHANGED << use, artifact, meta, loaders, jvm >>, task'[u] = task[u]
      PROVE  Progress(task[u])'
  BY <1>0, <1>1 DEF Progress, Android
<1>2. CASE End
  <2>1. task'[u].op = "none"
    BY <1>2 DEF End, Idle
  <2>2. QED
    BY <2>1 DEF Progress
<1>3. ASSUME NEW t \in Tasks, NEW p \in Packages, NEW v \in Versions, Install(t, p, v)
      PROVE  Progress(task[u])'
  <2>1. /\ UNCHANGED << use, artifact, meta, loaders, jvm >>
        /\ u = t => task'[u].at = "convert"
        /\ u # t => task'[u] = task[u]
    BY <1>0, <1>3 DEF Install, TasksKnow, Idle, disk, memory
  <2>2. CASE u = t
    BY <2>1, <2>2 DEF Progress
  <2>3. QED
    BY <1>1, <2>1, <2>2
<1>4. ASSUME NEW t \in Tasks, Scan(t) PROVE Progress(task[u])'
  <2>1. /\ UNCHANGED << use, artifact, meta, loaders, jvm >>
        /\ u = t => task'[u].op = "scan"
        /\ u # t => task'[u] = task[u]
    BY <1>0, <1>4 DEF Scan, TasksKnow, Idle, disk, memory
  <2>2. CASE u = t
    BY <2>1, <2>2 DEF Progress
  <2>3. QED
    BY <1>1, <2>1, <2>2
<1>5. ASSUME NEW t \in Tasks, NEW s \in Sources, Uninstall(t, s) PROVE Progress(task[u])'
  <2>1. /\ UNCHANGED << use, artifact, meta, loaders >>
        /\ jvm' = [jvm EXCEPT ![s] = None]
        /\ u = t => task'[u].op = "uninstall"
        /\ u # t => task'[u] = task[u]
    BY <1>0, <1>5 DEF Uninstall, TasksKnow, Idle, disk
  <2>2. CASE u = t
    BY <2>1, <2>2 DEF Progress
  <2>3. CASE u # t
    <3>1. \A r \in Sources : jvm'[r] \in {None, jvm[r]}
      BY <2>1 DEF TypeOK
    <3>2. task[u].op = "install" => \A r \in Creates[task[u].pkg][task[u].version] : r \in Sources
      <4>1. task[u].op = "install" => task[u].pkg \in Packages /\ task[u].version \in Versions
        BY <1>0 DEF TasksKnow, TaskKnows
      <4>2. QED
        BY <4>1, SourceFacts, CreatesSome
    <3>3. task[u].op = "install" /\ ~Android /\ task[u].at = "record" =>
            \A r \in Creates[task[u].pkg][task[u].version] : jvm'[r] \in {None, task[u].version}
      BY <1>0, <3>1, <3>2 DEF Progress
    <3>4. QED
      BY <1>0, <2>1, <2>3, <3>3 DEF Progress, Android
  <2>4. QED
    BY <2>2, <2>3
<1>6. ASSUME NEW t \in Tasks, Step(t) PROVE Progress(task[u])'
  <2>0. task[t].op \in {"install", "uninstall", "scan"}
    BY <1>0, <1>6, StepsOf, IdleRests
  <2>1. CASE u = t
    <3>1. CASE task[t].op = "install"
      BY <1>0, <1>6, <2>1, <3>1, InstallProgresses
    <3>2. CASE task[t].op # "install"
      <4>1. task'[t].op # "install"
        BY <1>0, <1>6, <3>2, StepKeeps DEF Keeps, Idle
      <4>2. QED
        BY <2>1, <4>1 DEF Progress
    <3>3. QED
      BY <3>1, <3>2
  <2>2. CASE u # t
    <3>1. task'[u] = task[u]
      BY <1>0, <1>6, <2>2, StepKeeps
    <3>2. CASE task[u].op # "install"
      BY <3>1, <3>2 DEF Progress
    <3>3. CASE task[u].op = "install"
      <4>1. Works(task[t]) /\ task[u].pkg # task[t].pkg
        BY <1>0, <2>0, <2>2, <3>3 DEF OneAtATime, Works
      <4>2. /\ task[u].pkg \in Packages /\ task[u].path = Private(task[u].pkg)
            /\ task[u].version \in Versions
        <5>1. TaskKnows(task[u])
          BY <1>0 DEF TasksKnow
        <5>2. QED
          BY <3>3, <5>1, Zenon DEF TaskKnows
      <4>3. Same(task[u].pkg)
        BY <1>0, <1>6, <4>1, <4>2, LeavesOthers
      <4>4. use' = use
        BY <1>6
           DEF Step, Convert, Converted, SaveMeta, UnhidePackage, PersistHidden, Load, Record,
               List, NextCandidate, Forget, UnloadExtension, DeleteFiles, HidePackage
      <4>5. Creates[task[u].pkg][task[u].version] \subseteq SourcesOf[task[u].pkg]
        BY <4>2, CreatesSome
      <4>6. QED
        BY <1>0, <3>1, <4>2, <4>3, <4>4, <4>5 DEF Progress, Same, Android
    <3>4. QED
      BY <3>2, <3>3
  <2>3. QED
    BY <2>1, <2>2
<1>7. QED
  BY <1>1, <1>2, <1>3, <1>4, <1>5, <1>6 DEF Next, vars, Start, Extract, disk, memory

\* A package that is installed stays as it is, in every step of every task.
LEMMA NextAtRest ==
  TypeOK /\ SidecarIsTrue /\ Known /\ InstallsWork /\ [Next]_vars => AtRest' /\ InstalledRuns'
<1> SUFFICES ASSUME TypeOK, SidecarIsTrue, Known, InstallsWork, [Next]_vars
             PROVE  AtRest' /\ InstalledRuns'
  OBVIOUS
<1>0. TasksKnow /\ AtRest /\ OneAtATime /\ InstalledRuns
  BY DEF Known, InstallsWork
<1>a. ASSUME NEW p \in Packages, installed[p] # None
      PROVE  artifact[p] = installed[p] /\ meta[p] = installed[p] /\ (~Android => OneVersion(p))
  BY <1>0, <1>a DEF AtRest, InstalledRuns, OneVersion
<1>b. ASSUME installed' \in [Packages -> Versions \cup {None}],
             \A t \in Tasks : Works(task'[t]) => installed'[task'[t].pkg] = None,
             \A p \in Packages : installed'[p] # None =>
               /\ artifact'[p] = installed'[p] /\ meta'[p] = installed'[p]
               /\ ~Android' => OneVersion(p)'
      PROVE  AtRest' /\ InstalledRuns'
  BY <1>b DEF AtRest, InstalledRuns, OneVersion, Works
<1>c. SidecarIsTrue'
  BY NextSidecar
<1>1. ASSUME UNCHANGED << use, artifact, meta, loaders, jvm, installed, task >>
      PROVE  AtRest' /\ InstalledRuns'
  BY <1>0, <1>1 DEF AtRest, InstalledRuns, Android, Works
<1>2. CASE End
  <2>1. /\ \A t \in Tasks : task'[t] = Idle
        /\ UNCHANGED << use, artifact, meta >>
        /\ installed' = [p \in Packages |-> IF Touched(p) THEN None ELSE installed[p]]
        /\ loaders' = [x \in Paths |-> None] /\ jvm' = [s \in Sources |-> None]
    BY <1>2 DEF End, disk
  <2>2. \A t \in Tasks : ~Works(task'[t])
    BY <2>1 DEF Works, Idle
  <2>3. \A p \in Packages : installed'[p] # None => installed'[p] = installed[p]
    BY <2>1
  <2>4. \A p \in Packages : installed'[p] # None => OneVersion(p)'
    <3>1. \A p \in Packages : installed'[p] # None => Creates[p][installed'[p]] \subseteq SourcesOf[p]
      BY <1>0, <2>3, CreatesSome DEF AtRest
    <3>2. QED
      BY <2>1, <3>1, PrivatePath, SourceFacts DEF OneVersion
  <2>5. installed' \in [Packages -> Versions \cup {None}]
    BY <1>0, <2>1 DEF AtRest
  <2>6. QED
    BY <1>a, <1>b, <2>1, <2>2, <2>3, <2>4, <2>5
<1>3. ASSUME NEW t \in Tasks, NEW p \in Packages, NEW v \in Versions, Install(t, p, v)
      PROVE  AtRest' /\ InstalledRuns'
  <2>1. /\ UNCHANGED << use, artifact, meta, loaders, jvm >>
        /\ installed' = [installed EXCEPT ![p] = None]
        /\ task'[t].pkg = p /\ \A u \in Tasks \ {t} : task'[u] = task[u]
    BY <1>0, <1>3 DEF Install, TasksKnow, Idle, disk, memory
  <2>2. \A q \in Packages : installed'[q] \in {None, installed[q]}
    BY <1>0, <2>1 DEF AtRest
  <2>3. \A u \in Tasks : Works(task[u]) => task[u].pkg \in Packages
    BY <1>0, WorksOnItsPath
  <2>4. \A u \in Tasks : Works(task'[u]) => installed'[task'[u].pkg] = None
    BY <1>0, <2>1, <2>2, <2>3 DEF AtRest
  <2>5. QED
    BY <1>0, <2>1, <2>2, <2>4 DEF AtRest, InstalledRuns, Android
<1>4. ASSUME NEW t \in Tasks, Scan(t) PROVE AtRest' /\ InstalledRuns'
  <2>1. /\ UNCHANGED << use, artifact, meta, loaders, jvm, installed >>
        /\ task'[t].op = "scan" /\ \A u \in Tasks \ {t} : task'[u] = task[u]
    BY <1>0, <1>4 DEF Scan, TasksKnow, Idle, disk, memory, history
  <2>2. QED
    BY <1>0, <2>1 DEF AtRest, InstalledRuns, Android, Works
<1>5. ASSUME NEW t \in Tasks, NEW s \in Sources, Uninstall(t, s)
      PROVE  AtRest' /\ InstalledRuns'
  <2>1. /\ UNCHANGED << use, artifact, meta, loaders >>
        /\ jvm' = [jvm EXCEPT ![s] = None]
        /\ installed' = [installed EXCEPT ![PackageOf(s)] = None]
        /\ task'[t].pkg = packages[s] /\ \A u \in Tasks \ {t} : task'[u] = task[u]
    BY <1>0, <1>5 DEF Uninstall, TasksKnow, Idle, disk
  <2>2. PackageOf(s) \in Packages /\ (packages[s] # None => packages[s] = PackageOf(s))
    BY SourceFacts DEF Known, MapsAgree, TypeOK
  <2>3. \A q \in Packages : installed'[q] \in {None, installed[q]}
    BY <1>0, <2>1 DEF AtRest
  <2>4. \A u \in Tasks : Works(task'[u]) => task'[u].pkg \in Packages
    <3>1. TasksKnow'
      BY NextTasks
    <3>2. QED
      BY <3>1 DEF TasksKnow, TaskKnows, Works
  <2>5. \A u \in Tasks : Works(task'[u]) => installed'[task'[u].pkg] = None
    <3>1. task'[t].pkg \in Packages => installed'[task'[t].pkg] = None
      BY <1>0, <2>1, <2>2, MihonAssumption DEF AtRest
    <3>2. QED
      BY <1>0, <2>1, <2>3, <2>4, <3>1 DEF AtRest
  <2>6. \A r \in Sources : jvm'[r] \in {None, jvm[r]}
    BY <2>1 DEF TypeOK
  <2>7. \A q \in Packages : /\ ~Android /\ OneVersion(q)
                           /\ installed'[q] = installed[q] /\ installed[q] # None => OneVersion(q)'
    <3>1. \A q \in Packages : installed[q] # None => Creates[q][installed[q]] \subseteq SourcesOf[q]
      BY <1>0, CreatesSome DEF AtRest
    <3>2. QED
      BY <2>1, <2>6, <3>1, SourceFacts DEF OneVersion
  <2>8. installed' \in [Packages -> Versions \cup {None}]
    BY <1>0, <2>1 DEF AtRest
  <2>9. ~Android' => ~Android
    BY <2>1 DEF Android
  <2>10. QED
    BY <1>a, <1>b, <2>1, <2>3, <2>5, <2>7, <2>8, <2>9
<1>6. ASSUME NEW t \in Tasks, Step(t) PROVE AtRest' /\ InstalledRuns'
  <2>0. /\ task[t].op \in {"install", "uninstall", "scan"}
        /\ \A u \in Tasks \ {t} : task'[u] = task[u]
        /\ task'[t] = Idle \/ (task'[t].op = task[t].op /\ task'[t].pkg = task[t].pkg)
    BY <1>0, <1>6, StepsOf, IdleRests, StepKeeps DEF Keeps
  <2>1. use' = use /\ ~Works(Idle)
    BY <1>6
       DEF Step, Convert, Converted, SaveMeta, UnhidePackage, PersistHidden, Load, Record, List,
           NextCandidate, Forget, UnloadExtension, DeleteFiles, HidePackage, Works, Idle
  <2>2. ~Android' => ~Android
    BY <2>1 DEF Android
  <2>3. installed \in [Packages -> Versions \cup {None}]
    BY <1>0 DEF AtRest
  <2>4. \A u \in Tasks : Works(task[u]) => task[u].pkg \in Packages /\ installed[task[u].pkg] = None
    BY <1>0, WorksOnItsPath DEF AtRest
  <2>5. CASE task[t].op = "scan"
    <3>1. installed' = installed
      BY <1>6, <2>5 DEF Step, Convert, Converted, SaveMeta, UnhidePackage, PersistHidden, Load,
             Record, List, NextCandidate, Forget, UnloadExtension, DeleteFiles, HidePackage,
             Installed, Uninstalled, history
    <3>2. \A u \in Tasks : Works(task'[u]) => Works(task[u]) /\ task'[u].pkg = task[u].pkg
      BY <2>0, <2>1 DEF Works
    <3>3. ASSUME NEW p \in Packages, installed[p] # None
          PROVE  artifact'[p] = installed[p] /\ meta'[p] = installed[p] /\ (~Android => OneVersion(p)')
      BY <1>0, <1>6, <1>a, <2>5, <3>3, ScanLoadsInstalled
    <3>4. QED
      BY <1>b, <2>2, <2>3, <2>4, <3>1, <3>2, <3>3
  <2>6. ASSUME Works(task[t]), UNCHANGED installed PROVE AtRest' /\ InstalledRuns'
    <3>1. \A u \in Tasks : Works(task'[u]) => Works(task[u]) /\ task'[u].pkg = task[u].pkg
      BY <2>0, <2>1 DEF Works
    <3>2. ASSUME NEW p \in Packages, installed[p] # None
          PROVE  artifact'[p] = installed[p] /\ meta'[p] = installed[p] /\ (~Android => OneVersion(p)')
      <4>1. p # task[t].pkg
        BY <2>4, <2>6, <3>2
      <4>2. Same(p)
        BY <1>0, <1>6, <2>6, <4>1, LeavesOthers
      <4>3. Creates[p][installed[p]] \subseteq SourcesOf[p]
        BY <2>3, <3>2, CreatesSome
      <4>4. QED
        BY <1>a, <2>6, <3>2, <4>2, <4>3 DEF Same, OneVersion
    <3>3. QED
      BY <1>b, <2>2, <2>3, <2>4, <2>6, <3>1, <3>2
  <2>7. CASE task[t].op = "uninstall"
    <3>1. UNCHANGED installed
      <4>1. ~Record(t)
        BY <1>0, <2>7, StepsOf DEF Record, At
      <4>2. QED
        BY <1>6, <4>1
           DEF Step, Convert, Converted, SaveMeta, UnhidePackage, PersistHidden, Load, List,
               NextCandidate, Forget, UnloadExtension, DeleteFiles, HidePackage, Uninstalled, history
    <3>2. QED
      BY <2>6, <2>7, <3>1 DEF Works
  <2>8. CASE task[t].op = "install"
    <3>1. Progress(task[t]) /\ Works(task[t])
      BY <2>8 DEF InstallsWork, Works
    <3>2. CASE UNCHANGED installed
      BY <2>6, <3>1, <3>2
    <3>3. CASE /\ installed' = [installed EXCEPT ![task[t].pkg] = task[t].version]
               /\ artifact'[task[t].pkg] = task[t].version
               /\ meta'[task[t].pkg] = task[t].version
               /\ ~Android => /\ loaders'[task[t].path] = task[t].version
                              /\ \A s \in Creates[task[t].pkg][task[t].version] :
                                   jvm'[s] \in {None, task[t].version}
               /\ task'[t] = Idle
      <4>1. /\ task[t].pkg \in Packages /\ task[t].version \in Versions
            /\ task[t].path = Private(task[t].pkg)
        <5>1. TaskKnows(task[t])
          BY <1>0 DEF TasksKnow
        <5>2. QED
          BY <2>8, <5>1, Zenon DEF TaskKnows
      <4>2. \A u \in Tasks : Works(task'[u]) => installed'[task'[u].pkg] = None
        <5>1. ASSUME NEW u \in Tasks, Works(task'[u]) PROVE installed'[task'[u].pkg] = None
          <6>1. u # t /\ task'[u] = task[u]
            BY <2>0, <2>1, <3>3, <5>1
          <6>2. task[u].pkg # task[t].pkg
            BY <1>0, <3>1, <5>1, <6>1 DEF OneAtATime
          <6>3. QED
            BY <2>3, <2>4, <3>3, <5>1, <6>1, <6>2
        <5>2. QED
          BY <5>1
      <4>3. ASSUME NEW p \in Packages, installed'[p] # None, p # task[t].pkg
            PROVE  artifact'[p] = installed'[p] /\ meta'[p] = installed'[p] /\ (~Android => OneVersion(p)')
        <5>1. Same(p)
          BY <1>0, <1>6, <3>1, <4>3, LeavesOthers
        <5>2. installed[p] # None /\ installed[p] \in Versions
          BY <2>3, <4>3, <5>1 DEF Same
        <5>3. Creates[p][installed[p]] \subseteq SourcesOf[p]
          BY <5>2, CreatesSome
        <5>4. QED
          BY <1>a, <4>3, <5>1, <5>2, <5>3 DEF Same, OneVersion
      <4>4. ASSUME NEW p \in Packages, p = task[t].pkg
            PROVE  artifact'[p] = installed'[p] /\ meta'[p] = installed'[p] /\ (~Android => OneVersion(p)')
        <5>1. installed'[p] = task[t].version
          BY <2>3, <3>3, <4>1, <4>4
        <5>2. QED
          BY <3>3, <4>1, <4>4, <5>1 DEF OneVersion
      <4>5. installed' \in [Packages -> Versions \cup {None}]
        BY <2>3, <3>3, <4>1
      <4>6. QED
        BY <1>b, <2>2, <4>2, <4>3, <4>4, <4>5
    <3>4. QED
      BY <1>0, <1>6, <2>8, <3>1, <3>2, <3>3, InstallProgresses
  <2>9. QED
    BY <2>0, <2>5, <2>7, <2>8
<1>7. QED
  BY <1>1, <1>2, <1>3, <1>4, <1>5, <1>6 DEF Next, vars, Start, Extract, disk, memory, history

\* What is known of every state: types, the JAR, the tasks, and what installs leave.
Sound == TypeOK /\ SidecarIsTrue /\ Known /\ InstallsWork

\* The invariants above, taken together, hold at first and in every step.
LEMMA InitSound == Init => Sound
<1>1. Init => \A t \in Tasks : task[t].op = "none"
  BY DEF Init, Idle
<1>2. Init => installed = [p \in Packages |-> None]
  BY DEF Init
<1>3. Init => InstallsWork
  BY <1>1, <1>2 DEF InstallsWork, OneAtATime, Progress, AtRest, InstalledRuns, Works
<1>4. QED
  BY <1>3, InitKnown, InitSidecar DEF Sound

\* Whoever relies on them finds them after any step.
LEMMA NextSound == Sound /\ [Next]_vars => Sound'
<1>1. Sound /\ [Next]_vars => InstallsWork'
  BY NextAlone, NextProgress, NextAtRest DEF InstallsWork, Sound
<1>2. QED
  BY <1>1, NextKnown, NextSidecar DEF Sound

\* What install left is on disk with its metadata, and runs, until the package
\* is installed again or uninstalled: whatever other tasks do meanwhile, and
\* however often the process ends.
THEOREM InstalledPackagesRun == Spec => []InstalledRuns
<1>1. Sound => InstalledRuns
  BY DEF Sound, InstallsWork
<1>2. QED
  BY <1>1, InitSound, NextSound, PTL DEF Spec

-----------------------------------------------------------------------------
(* What is uninstalled stays away.  A private package goes with its files,  *)
(* and one of the system is on the list of those that are hidden.           *)

\* A device has packages in its system.
OnDevice(u) == u.platform = "android" /\ \E p \in Packages : u.system[p] # Absent

\* There the application waits for each operation.
DevicesWait == \A u \in Uses : OnDevice(u) => u.tasks <= 1

Alone == OnDevice(use) => \A t, u \in Tasks : task[t].op # "none" /\ task[u].op # "none" => t = u

\* What a scan may give the application.
MayCome(path) ==
  /\ path[1] = "private" => FindsPrivate(path[2])
  /\ path[1] = "system"  => path[2] \notin gone \/ "hidden" \in cut

\* What a scan still has to load, or has loaded last.
Coming(x) == IF x.at \in {"load", "record"} THEN x.todo \cup {x.path} ELSE x.todo

\* What a task relies on at each of its steps.
Careful(x) ==
  /\ x.op = "install" => x.pkg \notin gone
  /\ x.op = "uninstall" =>
       \A p \in Packages : x.pkg = p =>
         /\ x.path = Private(p) /\ x.at \notin {"forget", "unload", "delete"} => artifact[p] = Absent
         /\ x.at \in {"hidden", "hidden rest"} => p \in x.seen
  /\ x.op = "scan" =>
       /\ x.at = "list" /\ OnDevice(use) => gone \subseteq x.seen \/ "hidden" \in cut
       /\ x.at # "list" => \A path \in Coming(x) : MayCome(path)

\* Uninstalled packages have no files that are found.
GoneAreDeleted == \A p \in Packages : p \in gone => ~FindsPrivate(p)

\* The list has the packages that are gone, or the task that writes it does.
GoneAreHidden ==
  OnDevice(use) =>
    \/ "hidden" \in cut
    \/ \E t \in Tasks : /\ task[t].at = "hidden rest" /\ hidden = Torn
                        /\ gone \subseteq task[t].seen
    \/ /\ \A t \in Tasks : /\ task[t].at # "hidden rest"
                           /\ task[t].at = "hidden" => gone \subseteq task[t].seen
       /\ gone \subseteq LoadHidden

\* What is found below jars/ depends on its two files.
LEMMA FindsAsBefore ==
  ASSUME NEW p \in Packages, use' = use, artifact'[p] = artifact[p], meta'[p] = meta[p]
  PROVE  FindsPrivate(p)' <=> FindsPrivate(p)
BY DEF FindsPrivate, Recovers, Android

\* Where there is no file, none is found.
LEMMA NothingFound == \A p \in Packages : artifact[p] = Absent => ~FindsPrivate(p)
BY MihonAssumption DEF FindsPrivate, Recovers

\* What no step changes.
LEMMA StepLeaves ==
  ASSUME NEW t \in Tasks, Step(t)
  PROVE  UNCHANGED << use, compat, cut >>
BY DEF Step, Convert, Converted, SaveMeta, UnhidePackage, PersistHidden, Load, Record, List,
       NextCandidate, Forget, UnloadExtension, DeleteFiles, HidePackage, Installed, Uninstalled,
       history

\* Steps of one task leave the other packages as they were found.
LEMMA OthersAsFound ==
  ASSUME Sound, NEW t \in Tasks, Step(t), Works(task[t]), NEW p \in Packages, p # task[t].pkg
  PROVE  (FindsPrivate(p)' <=> FindsPrivate(p)) /\ artifact'[p] = artifact[p]
<1>1. Same(p)
  BY LeavesOthers DEF Sound, InstallsWork
<1>2. QED
  BY <1>1, StepLeaves, FindsAsBefore DEF Same

\* A path is private or of the system.
LEMMA PathKinds ==
  \A x \in Paths : /\ x[1] \in {"private", "system"}
                   /\ x[1] = "private" => x = Private(x[2])
                   /\ x[1] = "system" => \A p \in Packages : x # Private(p)
BY DEF Paths, Private

\* An install goes on or returns; it takes nothing away.
LEMMA InstallStep ==
  ASSUME TasksKnow, NEW t \in Tasks, Step(t), task[t].op = "install"
  PROVE  UNCHANGED gone /\ (Keeps(t) \/ task'[t] = Idle)
<1>1. task'[t] = Idle \/ Keeps(t)
  BY StepKeeps
<1>2. ~(At(t, "hide") \/ (At(t, "hidden rest") /\ task[t].op # "install"))
  BY StepsOf DEF At
<1>3. UNCHANGED gone
  BY <1>2
     DEF Step, Convert, Converted, SaveMeta, UnhidePackage, PersistHidden, Load, Record, List,
         NextCandidate, Forget, UnloadExtension, DeleteFiles, HidePackage, Installed, history
<1>4. QED
  BY <1>1, <1>3

\* A step of an uninstall makes nothing found; when it returns, and the package
\* has gone, nothing of it is found.
LEMMA UninstallStep ==
  ASSUME Sound, NEW t \in Tasks, Step(t), task[t].op = "uninstall", Careful(task[t]),
         NEW p \in Packages, p = task[t].pkg
  PROVE  /\ FindsPrivate(p)' => FindsPrivate(p)
         /\ \/ Keeps(t) /\ UNCHANGED gone /\ Careful(task[t])'
            \/ /\ task'[t] = Idle /\ gone' \subseteq gone \cup {p}
               /\ p \in gone' \ gone => ~FindsPrivate(p)'
<1> DEFINE x == task[t].path
<1>0. /\ MemoryType /\ DiskType /\ TasksKnow /\ task \in [Tasks -> TaskState]
      /\ UNCHANGED << use, cut >>
  BY StepLeaves DEF Sound, TypeOK, Known, MemoryType, DiskType, TasksKnow
<1>1. x \in Paths /\ x[2] = p /\ task[t].at \in UninstallSteps /\ p # None
  BY <1>0, MihonAssumption DEF TasksKnow, TaskKnows
<1>2. /\ x = Private(p) =>
           /\ x[1] = "private"
           /\ task[t].at \notin {"forget", "unload", "delete"} => artifact[p] = Absent
      /\ x # Private(p) => x[1] = "system"
      /\ task[t].at \in {"hidden", "hidden rest"} => p \in task[t].seen
  BY <1>1, PathKinds, PrivatePath DEF Careful
<1>5. ASSUME Keeps(t), UNCHANGED gone,
             x = Private(p) /\ task'[t].at \notin {"forget", "unload", "delete"}
               => artifact'[p] = Absent,
             task'[t].at \in {"hidden", "hidden rest"} => p \in task'[t].seen
      PROVE  Keeps(t) /\ UNCHANGED gone /\ Careful(task[t])'
  <2>1. task'[t].op = "uninstall" /\ task'[t].pkg = p /\ task'[t].path = x
    BY <1>5 DEF Keeps
  <2>2. QED
    BY <1>2, <1>5, <2>1 DEF Careful
<1> HIDE DEF x
<1>6. ASSUME UNCHANGED << artifact, meta >>
      PROVE  FindsPrivate(p)' <=> FindsPrivate(p)
  BY <1>0, <1>6, FindsAsBefore
<1>7. CASE Forget(t)
  <2>1. UNCHANGED << artifact, meta, gone >> /\ task[t].at = "forget"
    BY <1>7 DEF Forget, At, disk, history
  <2>2. task'[t].at = "unload"
    <3>1. Goto(t, "unload")
      BY <1>1, <1>7, MihonAssumption DEF Forget, x
    <3>2. QED
      BY <1>0, <3>1 DEF Goto, TaskState
  <2>3. Keeps(t)
    BY <1>0, <1>7, GoingKeeps DEF Forget
  <2>4. QED
    BY <1>5, <1>6, <2>1, <2>2, <2>3
<1>8. CASE UnloadExtension(t)
  <2>1. UNCHANGED << artifact, meta, gone >> /\ task[t].at = "unload"
    BY <1>8 DEF UnloadExtension, At, disk, history
  <2>2. task'[t].at = "delete"
    BY <1>0, <1>8 DEF UnloadExtension, Goto, TaskState
  <2>3. Keeps(t)
    BY <1>0, <1>8, GoingKeeps DEF UnloadExtension
  <2>4. QED
    BY <1>5, <1>6, <2>1, <2>2, <2>3
<1>9. CASE DeleteFiles(t)
  <2>1. UNCHANGED gone
    BY <1>9 DEF DeleteFiles, history
  <2>2. \/ /\ task[t].at = "delete" /\ task'[t].at = "delete meta"
           /\ x = Private(p) => artifact' = [artifact EXCEPT ![p] = Absent]
           /\ x # Private(p) => artifact' = artifact
           /\ meta' = meta
        \/ /\ task[t].at = "delete meta" /\ task'[t].at = "hide"
           /\ artifact' = artifact
           /\ x # Private(p) => meta' = meta
    BY <1>0, <1>1, <1>2, <1>9 DEF DeleteFiles, Goto, At, TaskState, x
  <2>3. Keeps(t)
    BY <1>0, <1>9, GoingKeeps DEF DeleteFiles
  <2>4. CASE x = Private(p)
    <3>1. artifact'[p] = Absent
      BY <1>0, <1>2, <2>2, <2>4 DEF DiskType
    <3>2. ~FindsPrivate(p)'
      BY <3>1, MihonAssumption DEF FindsPrivate, Recovers
    <3>3. QED
      BY <1>5, <2>1, <2>2, <2>3, <2>4, <3>1, <3>2
  <2>5. CASE x # Private(p)
    BY <1>5, <1>6, <2>1, <2>2, <2>3, <2>5
  <2>6. QED
    BY <2>4, <2>5
<1>11. ASSUME Uninstalled(t), UNCHANGED << artifact, meta >>,
              task[t].at \notin {"forget", "unload", "delete"}
       PROVE  /\ task'[t] = Idle /\ gone' \subseteq gone \cup {p}
              /\ p \in gone' \ gone => ~FindsPrivate(p)'
  <2>1. task'[t] = Idle /\ gone' \subseteq gone \cup {p}
    BY <1>0, <1>11 DEF Uninstalled
  <2>2. p \in gone' \ gone => artifact[p] = Absent
    BY <1>2, <1>11 DEF Uninstalled, x
  <2>3. QED
    BY <1>6, <1>11, <2>1, <2>2, NothingFound
<1>12. CASE HidePackage(t)
  <2>1. UNCHANGED << artifact, meta >> /\ task[t].at = "hide"
    BY <1>12 DEF HidePackage, At, disk
  <2>2. \/ Uninstalled(t)
        \/ /\ task' = [task EXCEPT ![t].at = "hidden", ![t].seen = LoadHidden \cup {task[t].pkg}]
           /\ UNCHANGED gone
    BY <1>12 DEF HidePackage, history
  <2>3. CASE Uninstalled(t)
    BY <1>6, <1>11, <2>1, <2>3
  <2>4. CASE /\ task' = [task EXCEPT ![t].at = "hidden", ![t].seen = LoadHidden \cup {task[t].pkg}]
             /\ UNCHANGED gone
    <3>1. /\ task'[t].at = "hidden" /\ p \in task'[t].seen
          /\ Keeps(t)
      BY <1>0, <2>4 DEF TaskState, Keeps
    <3>2. QED
      BY <1>2, <1>5, <1>6, <2>1, <2>4, <3>1
  <2>5. QED
    BY <2>2, <2>3, <2>4
<1>13. CASE PersistHidden(t)
  <2>1. UNCHANGED << artifact, meta >> /\ task[t].at \in {"hidden", "hidden rest"}
    BY <1>13 DEF PersistHidden, At
  <2>2. \/ Uninstalled(t)
        \/ Goto(t, "hidden rest") /\ UNCHANGED gone
    BY <1>13 DEF PersistHidden, history
  <2>3. CASE Uninstalled(t)
    BY <1>6, <1>11, <2>1, <2>3
  <2>4. CASE Goto(t, "hidden rest") /\ UNCHANGED gone
    <3>1. task'[t].at = "hidden rest" /\ task'[t].seen = task[t].seen
      BY <1>0, <2>4 DEF Goto, TaskState
    <3>2. Keeps(t)
      BY <1>0, <2>4, GoingKeeps
    <3>3. QED
      BY <1>2, <1>5, <1>6, <2>1, <2>4, <3>1, <3>2
  <2>5. QED
    BY <2>2, <2>3, <2>4
<1>14. task[t].at \notin {"convert", "converted", "meta", "meta rest", "unhide", "load", "record",
                          "list", "next"}
  BY <1>1 DEF UninstallSteps
<1>15. QED
  BY <1>7, <1>8, <1>9, <1>12, <1>13, <1>14
     DEF Step, At, Convert, Converted, SaveMeta, UnhidePackage, Load, Record, List, NextCandidate

\* A step that looks for extensions loads and records what may come, and finds
\* no other private files than before.
LEMMA ScanStep ==
  ASSUME Sound, NEW t \in Tasks, Step(t), task[t].op = "scan", Careful(task[t])
  PROVE  /\ UNCHANGED << gone, hidden >>
         /\ \A p \in Packages : FindsPrivate(p)' <=> FindsPrivate(p)
         /\ task'[t] = Idle \/ (task'[t].op = "scan" /\ Careful(task[t])')
<1>0. /\ MemoryType /\ DiskType /\ TasksKnow /\ task \in [Tasks -> TaskState]
      /\ UNCHANGED << use, cut >>
      /\ task[t].at \in ScanSteps
  <2>1. TasksKnow
    BY DEF Sound, Known
  <2>2. task[t].at \in ScanSteps
    BY <2>1 DEF TasksKnow, TaskKnows
  <2>3. QED
    BY <2>1, <2>2, StepLeaves DEF Sound, TypeOK, Known, MemoryType, DiskType, TasksKnow
<1>2. /\ task[t].at = "list" /\ OnDevice(use) => gone \subseteq task[t].seen \/ "hidden" \in cut
      /\ task[t].at # "list" => \A path \in Coming(task[t]) : MayCome(path)
  BY DEF Careful
<1>3. ASSUME task'[t].op = "scan", task'[t].at # "list",
             \A path \in Coming(task'[t]) : MayCome(path)'
      PROVE  task'[t].op = "scan" /\ Careful(task[t])'
  BY <1>3 DEF Careful, Coming
<1>4. /\ UNCHANGED << gone, hidden, artifact >>
      /\ \A p \in Packages : FindsPrivate(p)' <=> FindsPrivate(p)
  <2>1. CASE List(t)
    <3>1. /\ meta' = [p \in Packages |-> IF Recovers(p) THEN artifact[p] ELSE meta[p]]
          /\ UNCHANGED << gone, hidden, artifact >>
      BY <2>1 DEF List, history
    <3>2. ASSUME NEW p \in Packages PROVE FindsPrivate(p)' <=> FindsPrivate(p)
      <4>1. CASE Recovers(p)
        <5>1. artifact[p] \in Versions /\ artifact'[p] = artifact[p] /\ meta'[p] = artifact[p]
          BY <3>1, <4>1 DEF Recovers
        <5>2. FindsPrivate(p)
          BY <4>1 DEF FindsPrivate
        <5>3. QED
          BY <5>1, <5>2, MihonAssumption DEF FindsPrivate
      <4>2. CASE ~Recovers(p)
        BY <1>0, <3>1, <4>2, FindsAsBefore
      <4>3. QED
        BY <4>1, <4>2
    <3>3. QED
      BY <3>1, <3>2
  <2>2. ASSUME ~List(t) PROVE UNCHANGED << gone, hidden, artifact, meta >>
    BY <1>0, <2>2
       DEF ScanSteps, Step, At, Convert, Converted, SaveMeta, UnhidePackage, PersistHidden, Load,
           Record, NextCandidate, Forget, UnloadExtension, DeleteFiles, HidePackage, disk, history,
           Installed
  <2>3. QED
    BY <1>0, <2>1, <2>2, FindsAsBefore
<1>5. ASSUME NEW path \in Paths, MayCome(path) PROVE MayCome(path)'
  <2>1. path[2] \in Packages
    BY PathPackage
  <2>2. QED
    BY <1>0, <1>4, <1>5, <2>1 DEF MayCome
<1>6. Coming(task[t]) \subseteq Paths
  <2>1. task[t].todo \subseteq Paths
    BY <1>0 DEF TaskState
  <2>2. task[t].at \in {"load", "record"} => task[t].path \in Paths
    BY <1>0, LoadsAPath
  <2>3. QED
    BY <2>1, <2>2 DEF Coming
<1>7. ASSUME task[t].at # "list", task'[t].op = "scan", task'[t].at # "list",
             Coming(task'[t]) \subseteq Coming(task[t])
      PROVE  task'[t].op = "scan" /\ Careful(task[t])'
  BY <1>2, <1>3, <1>5, <1>6, <1>7
<1>8. CASE List(t)
  <2>1. /\ task' = [task EXCEPT ![t].at = "next",
              ![t].todo = {Private(p) : p \in {q \in Packages : FindsPrivate(q)}} \cup
                   {<< "system", p >> : p \in {q \in Packages : FindsSystem(t, q)
                                                                /\ ~FindsPrivate(q)}}]
        /\ task[t].at = "list"
    BY <1>8 DEF List, At
  <2>2. /\ task'[t].op = "scan" /\ task'[t].at = "next"
        /\ task'[t].todo = {Private(p) : p \in {q \in Packages : FindsPrivate(q)}} \cup
                   {<< "system", p >> : p \in {q \in Packages : FindsSystem(t, q)
                                                                /\ ~FindsPrivate(q)}}
    BY <1>0, <2>1 DEF TaskState
  <2>3. ASSUME NEW path \in task'[t].todo PROVE path \in Paths /\ MayCome(path)
    <3>1. CASE path \in {Private(p) : p \in {q \in Packages : FindsPrivate(q)}}
      BY <3>1, PrivatePath DEF MayCome
    <3>2. ASSUME NEW p \in Packages, FindsSystem(t, p), path = << "system", p >>
          PROVE  path \in Paths /\ MayCome(path)
      <4>1. Android /\ use.system[p] # Absent /\ p \notin task[t].seen
        BY <3>2 DEF FindsSystem
      <4>2. OnDevice(use)
        BY <4>1 DEF OnDevice, Android
      <4>3. p \notin gone \/ "hidden" \in cut
        BY <1>2, <2>1, <4>1, <4>2
      <4>4. QED
        BY <3>2, <4>3 DEF MayCome, Paths
    <3>3. QED
      BY <2>2, <3>1, <3>2
  <2>4. Coming(task'[t]) = task'[t].todo
    BY <2>2 DEF Coming
  <2>5. \A path \in Coming(task'[t]) : MayCome(path)'
    BY <1>5, <2>3, <2>4
  <2>6. QED
    BY <1>3, <1>4, <2>2, <2>5
<1>9. CASE NextCandidate(t)
  <2>1. task[t].at = "next"
    BY <1>9 DEF NextCandidate, At
  <2>2. \/ task'[t] = Idle
        \/ /\ task'[t].op = "scan" /\ task'[t].at = "load"
           /\ task'[t].todo \subseteq task[t].todo /\ task'[t].path \in task[t].todo
    <3>1. CASE task' = [task EXCEPT ![t] = Idle]
      BY <1>0, <3>1
    <3>2. ASSUME NEW path \in task[t].todo,
                 task' = [task EXCEPT ![t].at = "load", ![t].path = path, ![t].todo = @ \ {path}]
          PROVE  /\ task'[t].op = "scan" /\ task'[t].at = "load"
                 /\ task'[t].todo \subseteq task[t].todo /\ task'[t].path \in task[t].todo
      BY <1>0, <3>2 DEF TaskState
    <3>3. QED
      BY <1>9, <3>1, <3>2 DEF NextCandidate
  <2>3. CASE task'[t] = Idle
    BY <1>4, <2>3
  <2>4. CASE /\ task'[t].op = "scan" /\ task'[t].at = "load"
             /\ task'[t].todo \subseteq task[t].todo /\ task'[t].path \in task[t].todo
    <3>1. Coming(task'[t]) \subseteq Coming(task[t])
      BY <2>1, <2>4 DEF Coming
    <3>2. QED
      BY <1>4, <1>7, <2>1, <2>4, <3>1
  <2>5. QED
    BY <2>2, <2>3, <2>4
<1>10. CASE Load(t) \/ Record(t)
  <2>1. task[t].at \in {"load", "record"}
    BY <1>10 DEF Load, Record, At
  <2>2. \/ task' = [task EXCEPT ![t] = [task[t] EXCEPT !.at = "next"]]
        \/ \E made \in SUBSET Sources :
             task' = [task EXCEPT ![t] = [task[t] EXCEPT !.at = "record", !.ids = made]]
    <3>1. CASE Load(t)
      <4>1. Fails(t) \/ \E made : Loads(t, made)
        BY <1>0, <3>1, LoadSteps
      <4>2. QED
        BY <1>0, <4>1 DEF Fails, Loads
    <3>2. CASE Record(t)
      <4>1. Goto(t, "next")
        BY <3>2 DEF Record
      <4>2. QED
        BY <1>0, <4>1 DEF Goto
    <3>3. QED
      BY <1>10, <3>1, <3>2
  <2>3. /\ task'[t].op = "scan" /\ task'[t].at \in {"next", "record"}
        /\ task'[t].todo = task[t].todo /\ task'[t].path = task[t].path
    BY <1>0, <2>2 DEF TaskState
  <2>4. Coming(task'[t]) \subseteq Coming(task[t])
    BY <2>1, <2>3 DEF Coming
  <2>5. QED
    BY <1>4, <1>7, <2>1, <2>3, <2>4
<1>12. QED
  BY <1>0, <1>8, <1>9, <1>10
     DEF ScanSteps, Step, At, Convert, Converted, SaveMeta, UnhidePackage, PersistHidden, Forget,
         UnloadExtension, DeleteFiles, HidePackage

\* Under a step of one task, what the other ones rely on stays.
LEMMA OthersCareful ==
  ASSUME Sound, NEW t \in Tasks, Step(t), Works(task[t]), gone' \subseteq gone \cup {task[t].pkg},
         NEW u \in Tasks, u # t, Careful(task[u])
  PROVE  Careful(task[u])'
<1>0. OneAtATime /\ TasksKnow /\ UNCHANGED << use, cut >> /\ task'[u] = task[u]
  BY StepLeaves, StepKeeps DEF Sound, Known, InstallsWork
<1>2. task[u].op # "scan"
  BY <1>0 DEF OneAtATime, Works
<1>3. Works(task[u]) => task[u].pkg # task[t].pkg
  BY <1>0 DEF OneAtATime
<1>4. CASE task[u].op = "install"
  BY <1>0, <1>2, <1>3, <1>4 DEF Careful, Works
<1>5. CASE task[u].op = "uninstall"
  <2>1. ASSUME NEW q \in Packages, task[u].pkg = q PROVE artifact'[q] = artifact[q]
    BY <1>3, <1>5, <2>1, OthersAsFound DEF Works
  <2>2. QED
    BY <1>0, <1>5, <2>1 DEF Careful
<1>6. CASE task[u].op \notin {"install", "uninstall"}
  BY <1>0, <1>2, <1>6 DEF Careful
<1>7. QED
  BY <1>4, <1>5, <1>6

\* What the tasks rely on, and what has gone, from step to step.
Kept == (\A t \in Tasks : Careful(task[t])) /\ GoneAreDeleted

\* A step of an install finds no package again that has gone.
LEMMA InstallKeeps ==
  ASSUME Sound, Kept, NEW t \in Tasks, Step(t), task[t].op = "install"
  PROVE  Kept'
<1>1. PICK p \in Packages : p = task[t].pkg
  BY WorksOnItsPath DEF Sound, Known, Works
<1>2. TasksKnow /\ Works(task[t]) /\ p \notin gone /\ Careful(task[t])
  BY <1>1 DEF Sound, Known, Works, Careful, Kept
<1>3. UNCHANGED gone /\ (Keeps(t) \/ task'[t] = Idle)
  BY <1>2, InstallStep
<1>4. \A q \in Packages \ {p} : FindsPrivate(q)' <=> FindsPrivate(q)
  BY <1>1, <1>2, OthersAsFound
<1>6. GoneAreDeleted'
  BY <1>2, <1>3, <1>4 DEF Kept, GoneAreDeleted
<1>9. ASSUME NEW u \in Tasks PROVE Careful(task[u])'
  <2>1. CASE u # t
    BY <1>2, <1>3, <2>1, OthersCareful DEF Kept
  <2>2. CASE Keeps(t)
    <3>1. task'[t].op = "install" /\ task'[t].pkg = p
      BY <1>1, <2>2 DEF Keeps
    <3>2. Careful(task[t])'
      BY <1>2, <1>3, <3>1 DEF Careful
    <3>3. QED
      BY <2>1, <3>2
  <2>3. CASE task'[t] = Idle
    <3>1. task'[t].op = "none"
      BY <2>3 DEF Idle
    <3>2. Careful(task[t])'
      BY <3>1 DEF Careful
    <3>3. QED
      BY <2>1, <3>2
  <2>4. QED
    BY <1>3, <2>2, <2>3
<1>10. QED
  BY <1>6, <1>9 DEF Kept

\* Nor does a step of an uninstall, whose package goes with its files.
LEMMA UninstallKeeps ==
  ASSUME Sound, Kept, NEW t \in Tasks, Step(t), task[t].op = "uninstall"
  PROVE  Kept'
<1>1. PICK p \in Packages : p = task[t].pkg
  BY WorksOnItsPath DEF Sound, Known, Works
<1>2. TasksKnow /\ Works(task[t]) /\ Careful(task[t])
  BY DEF Sound, Known, Works, Kept
<1>3. /\ FindsPrivate(p)' => FindsPrivate(p)
      /\ \/ Keeps(t) /\ UNCHANGED gone /\ Careful(task[t])'
         \/ /\ task'[t] = Idle /\ gone' \subseteq gone \cup {p}
            /\ p \in gone' \ gone => ~FindsPrivate(p)'
  BY <1>1, <1>2, UninstallStep
<1>4. \A q \in Packages \ {p} : FindsPrivate(q)' <=> FindsPrivate(q)
  BY <1>1, <1>2, OthersAsFound
<1>6. GoneAreDeleted'
  BY <1>3, <1>4 DEF Kept, GoneAreDeleted
<1>9. ASSUME NEW u \in Tasks PROVE Careful(task[u])'
  <2>1. CASE u # t
    BY <1>1, <1>2, <1>3, <2>1, OthersCareful DEF Kept
  <2>2. Careful(task[t])'
    <3>1. CASE task'[t] = Idle
      <4>1. task'[t].op = "none"
        BY <3>1 DEF Idle
      <4>2. QED
        BY <4>1 DEF Careful
    <3>2. QED
      BY <1>3, <3>1
  <2>3. QED
    BY <2>1, <2>2
<1>10. QED
  BY <1>6, <1>9 DEF Kept

\* Nor does a step that looks for extensions.
LEMMA ScanKeeps ==
  ASSUME Sound, Kept, NEW t \in Tasks, Step(t), task[t].op = "scan"
  PROVE  Kept'
<1>0. OneAtATime /\ TasksKnow /\ Careful(task[t])
  BY DEF Sound, Known, Kept, InstallsWork
<1>2. /\ UNCHANGED << gone, hidden >>
      /\ \A p \in Packages : FindsPrivate(p)' <=> FindsPrivate(p)
      /\ task'[t] = Idle \/ (task'[t].op = "scan" /\ Careful(task[t])')
  BY <1>0, ScanStep
<1>3. GoneAreDeleted'
  BY <1>2 DEF Kept, GoneAreDeleted
<1>6. ASSUME NEW u \in Tasks PROVE Careful(task[u])'
  <2>1. CASE u = t
    <3>1. CASE task'[t] = Idle
      <4>1. task'[t].op = "none"
        BY <3>1 DEF Idle
      <4>2. QED
        BY <2>1, <4>1 DEF Careful
    <3>2. QED
      BY <1>2, <2>1, <3>1
  <2>2. CASE u # t
    <3>1. task'[u] = task[u]
      BY <1>0, <2>2, StepKeeps
    <3>2. task[u].op = "none"
      BY <1>0, <2>2 DEF OneAtATime
    <3>3. QED
      BY <3>1, <3>2 DEF Careful
  <2>3. QED
    BY <2>1, <2>2
<1>7. QED
  BY <1>3, <1>6 DEF Kept

\* Where packages are in the system, who begins an operation is alone.
LEMMA FreeAlone ==
  ASSUME DevicesWait, Sound, Alone, NEW t \in Tasks, Free(t), OnDevice(use)
  PROVE  \A u \in Tasks : task[u] = Idle
<1>1. use \in Uses /\ TasksKnow
  BY DEF Sound, TypeOK, Known
<1>2. use.tasks <= 1 /\ use.tasks \in Nat
  BY <1>1, MihonAssumption DEF DevicesWait, Usage
<1>3. \A u \in Busy : u \in Tasks /\ task[u].op # "none"
  BY <1>1 DEF Busy, TasksKnow, TaskKnows
<1>4. \A u, w \in Busy : u = w
  BY <1>3 DEF Alone
<1>5. ASSUME NEW u \in Busy PROVE FALSE
  <2>1. Busy = {u}
    BY <1>4
  <2>2. Cardinality(Busy) = 1
    BY <2>1, FS_Singleton
  <2>3. QED
    BY <1>2, <2>2 DEF Free
<1>6. QED
  BY <1>5 DEF Busy

\* Operations do not overlap there.
LEMMA DevicesStayAlone ==
  ASSUME DevicesWait, Sound, Alone, [Next]_vars
  PROVE  Alone'
<1>0. TasksKnow
  BY DEF Sound, Known
<1>1. SUFFICES ASSUME OnDevice(use)', NEW u \in Tasks, NEW w \in Tasks,
                      task'[u].op # "none", task'[w].op # "none"
               PROVE  u = w
  BY DEF Alone
<1>2. use' = use
  BY StepLeaves
     DEF Next, vars, Start, Extract, End, Install, Scan, Uninstall
<1>3. OnDevice(use) /\ Idle.op = "none"
  BY <1>1, <1>2 DEF Idle
<1>4. ASSUME NEW t \in Tasks, Free(t), \A r \in Tasks \ {t} : task'[r] = task[r] PROVE u = w
  BY <1>1, <1>3, <1>4, FreeAlone
<1>5. ASSUME NEW t \in Tasks, Step(t) PROVE u = w
  <2>1. task[t].op # "none" /\ \A r \in Tasks \ {t} : task'[r] = task[r]
    BY <1>0, <1>5, IdleRests, StepKeeps
  <2>2. QED
    BY <1>1, <1>3, <2>1 DEF Alone
<1>6. CASE End
  BY <1>1, <1>3, <1>6 DEF End
<1>7. CASE UNCHANGED task
  BY <1>1, <1>3, <1>7 DEF Alone
<1>8. ASSUME NEW t \in Tasks, NEW p \in Packages, NEW v \in Versions, Install(t, p, v)
      PROVE  Free(t) /\ \A r \in Tasks \ {t} : task'[r] = task[r]
  BY <1>0, <1>8 DEF Install, TasksKnow
<1>9. ASSUME NEW t \in Tasks, Scan(t) PROVE Free(t) /\ \A r \in Tasks \ {t} : task'[r] = task[r]
  BY <1>0, <1>9 DEF Scan, TasksKnow
<1>10. ASSUME NEW t \in Tasks, NEW s \in Sources, Uninstall(t, s)
       PROVE  Free(t) /\ \A r \in Tasks \ {t} : task'[r] = task[r]
  BY <1>0, <1>10 DEF Uninstall, TasksKnow
<1>11. QED
  BY <1>4, <1>5, <1>6, <1>7, <1>8, <1>9, <1>10 DEF Next, vars, Start, Extract

\* Whether the list has what has gone, seen from the task that may be writing it.
Listed(x) ==
  \/ "hidden" \in cut
  \/ x.at = "hidden rest" /\ hidden = Torn /\ gone \subseteq x.seen
  \/ /\ x.at # "hidden rest" /\ gone \subseteq LoadHidden
     /\ x.at = "hidden" => gone \subseteq x.seen

\* The one task that does anything keeps packages on the list, or in what it writes.
LEMMA StepKeepsList ==
  ASSUME Sound, NEW t \in Tasks, Step(t), Careful(task[t]), Listed(task[t])
  PROVE  Listed(task[t])'
<1>0. /\ TasksKnow /\ task \in [Tasks -> TaskState] /\ UNCHANGED cut /\ DiskType
  BY StepLeaves DEF Sound, Known, TasksKnow, TypeOK, DiskType
<1>1. SUFFICES ASSUME "hidden" \notin cut PROVE Listed(task[t])'
  BY <1>0 DEF Listed
<1>2. /\ Idle.at = "idle"
      /\ task'[t] = Idle => task'[t].at = "idle"
  BY DEF Idle
<1>3. CASE UnhidePackage(t)
  <2>1. /\ task[t].at = "unhide" /\ UNCHANGED << hidden, gone >>
        /\ task'[t].seen = LoadHidden \ {task[t].pkg} /\ task'[t].at \in {"hidden", "load"}
    BY <1>0, <1>3 DEF UnhidePackage, At, disk, history, TaskState
  <2>2. task[t].pkg \notin gone
    BY <1>0, <2>1, StepsOf DEF Careful
  <2>3. QED
    BY <1>1, <2>1, <2>2 DEF Listed, LoadHidden
<1>4. CASE HidePackage(t)
  <2>1. task[t].at = "hide" /\ UNCHANGED hidden /\ gone \subseteq LoadHidden
    BY <1>1, <1>4 DEF HidePackage, At, disk, Listed
  <2>2. CASE Uninstalled(t) /\ task[t].pkg \in LoadHidden \cup {None}
    <3>1. gone' \subseteq LoadHidden /\ task'[t] = Idle
      BY <1>0, <2>1, <2>2, MihonAssumption DEF Uninstalled
    <3>2. QED
      BY <1>2, <2>1, <3>1 DEF Listed, LoadHidden
  <2>3. CASE /\ task' = [task EXCEPT ![t].at = "hidden", ![t].seen = LoadHidden \cup {task[t].pkg}]
             /\ UNCHANGED gone
    <3>1. task'[t].at = "hidden" /\ task'[t].seen = LoadHidden \cup {task[t].pkg}
      BY <1>0, <2>3 DEF TaskState
    <3>2. QED
      BY <2>1, <2>3, <3>1 DEF Listed, LoadHidden
  <2>4. QED
    BY <1>4, <2>2, <2>3 DEF HidePackage, history
<1>5. CASE At(t, "hidden") /\ PersistHidden(t)
  <2>1. /\ task[t].at = "hidden" /\ hidden' = Torn /\ UNCHANGED gone /\ Goto(t, "hidden rest")
    BY <1>5 DEF PersistHidden, At, history
  <2>2. task'[t].at = "hidden rest" /\ task'[t].seen = task[t].seen
    BY <1>0, <2>1 DEF Goto, TaskState
  <2>3. QED
    BY <1>1, <2>1, <2>2 DEF Listed
<1>6. CASE At(t, "hidden rest") /\ PersistHidden(t)
  <2>1. /\ task[t].at = "hidden rest" /\ hidden' = task[t].seen
        /\ \/ Goto(t, "load") /\ UNCHANGED gone
           \/ Uninstalled(t) /\ task[t].op = "uninstall"
    <3>1. task[t].op \in {"install", "uninstall"} /\ task[t].at = "hidden rest"
      BY <1>0, <1>6, StepsOf DEF At
    <3>2. QED
      BY <1>6, <3>1 DEF PersistHidden, At, history
  <2>2. gone \subseteq task[t].seen /\ task[t].seen \subseteq Packages
    BY <1>0, <1>1, <2>1 DEF Listed, TaskState
  <2>3. hidden' # Torn
    BY <2>1, <2>2, MihonAssumption
  <2>4. task'[t].at \in {"load", "idle"}
    BY <1>0, <1>2, <2>1 DEF Goto, Uninstalled, TaskState
  <2>5. gone' \subseteq task[t].seen
    <3>1. CASE Uninstalled(t) /\ task[t].op = "uninstall"
      <4>1. task[t].pkg \in Packages
        BY <1>0, <3>1 DEF TasksKnow, TaskKnows
      <4>2. task[t].pkg \in task[t].seen
        BY <2>1, <3>1, <4>1 DEF Careful
      <4>3. QED
        BY <2>2, <3>1, <4>2 DEF Uninstalled
    <3>2. QED
      BY <2>1, <2>2, <3>1
  <2>6. QED
    BY <2>1, <2>3, <2>4, <2>5 DEF Listed, LoadHidden
<1>7. ASSUME UNCHANGED << hidden, gone >>, task[t].at \notin {"hidden", "hidden rest"},
             task'[t].at \notin {"hidden", "hidden rest"}
      PROVE  Listed(task[t])'
  BY <1>0, <1>7 DEF Listed, LoadHidden
<1>8. ASSUME NEW at, Goto(t, at) PROVE task'[t].at = at
  BY <1>0, <1>8 DEF Goto, TaskState
<1>9. CASE Convert(t) \/ SaveMeta(t) \/ Forget(t) \/ UnloadExtension(t) \/ DeleteFiles(t)
  <2>1. UNCHANGED << hidden, gone >> /\ task[t].at \notin {"hidden", "hidden rest"}
    BY <1>9 DEF Convert, SaveMeta, Forget, UnloadExtension, DeleteFiles, At, disk, history
  <2>2. task'[t].at \notin {"hidden", "hidden rest"}
    BY <1>8, <1>9 DEF Convert, SaveMeta, Forget, UnloadExtension, DeleteFiles
  <2>3. QED
    BY <1>7, <2>1, <2>2
<1>10. CASE Converted(t) \/ List(t)
  <2>1. UNCHANGED << hidden, gone >> /\ task[t].at \notin {"hidden", "hidden rest"}
    BY <1>10 DEF Converted, List, At, disk, history
  <2>2. task'[t] = Idle \/ task'[t].at \in {"meta", "next"}
    <3>1. CASE Converted(t)
      <4>1. \/ task' = [task EXCEPT ![t] = Idle]
            \/ task' = [task EXCEPT ![t] = [task[t] EXCEPT !.at = "meta"]]
        BY <1>0, <3>1 DEF Converted
      <4>2. QED
        BY <1>0, <4>1 DEF TaskState
    <3>2. CASE List(t)
      BY <1>0, <3>2 DEF List, TaskState
    <3>3. QED
      BY <1>10, <3>1, <3>2
  <2>3. QED
    BY <1>2, <1>7, <2>1, <2>2
<1>11. CASE NextCandidate(t)
  <2>1. UNCHANGED << hidden, gone >> /\ task[t].at \notin {"hidden", "hidden rest"}
    BY <1>11 DEF NextCandidate, At, disk, history
  <2>2. task'[t] = Idle \/ task'[t].at = "load"
    BY <1>0, <1>11 DEF NextCandidate, TaskState
  <2>3. QED
    BY <1>2, <1>7, <2>1, <2>2
<1>12. CASE Load(t) \/ Record(t)
  <2>1. UNCHANGED << hidden, gone >> /\ task[t].at \notin {"hidden", "hidden rest"}
    BY <1>12 DEF Load, Record, Installed, At, disk, history
  <2>2. \/ Fails(t) \/ Goto(t, "next") \/ task' = [task EXCEPT ![t] = Idle]
        \/ \E made : Loads(t, made)
    BY <1>0, <1>12, LoadSteps DEF Record, Installed
  <2>3. Fails(t) => task'[t] = Idle \/ task'[t].at = "next"
    BY <1>0 DEF Fails, TaskState
  <2>4. task'[t] = Idle \/ task'[t].at \in {"next", "record"}
    BY <1>0, <1>8, <2>2, <2>3 DEF Loads, TaskState
  <2>5. QED
    BY <1>2, <1>7, <2>1, <2>4
<1>13. PersistHidden(t) => At(t, "hidden") \/ At(t, "hidden rest")
  BY DEF PersistHidden
<1>14. QED
  BY <1>3, <1>4, <1>5, <1>6, <1>9, <1>10, <1>11, <1>12, <1>13 DEF Step

\* The list has what has gone, or is being written with it.
LEMMA NextHidden ==
  ASSUME DevicesWait, Sound, Kept, Alone, GoneAreHidden, [Next]_vars
  PROVE  GoneAreHidden'
<1>0. TasksKnow /\ task \in [Tasks -> TaskState] /\ Idle.at = "idle"
  BY DEF Sound, Known, TasksKnow, Idle
<1>1. use' = use
  BY StepLeaves DEF Next, vars, Start, Extract, End, Install, Scan, Uninstall
<1>2. SUFFICES ASSUME OnDevice(use) PROVE GoneAreHidden'
  BY <1>1 DEF GoneAreHidden
<1>3. \/ "hidden" \in cut
      \/ \E t \in Tasks : Listed(task[t]) /\ task[t].at = "hidden rest"
      \/ \A t \in Tasks : Listed(task[t]) /\ task[t].at # "hidden rest"
  BY <1>2 DEF GoneAreHidden, Listed
<1>4. CASE UNCHANGED << hidden, gone, cut, task >>
  BY <1>1, <1>4 DEF GoneAreHidden, LoadHidden
<1>5. ASSUME NEW t \in Tasks, Step(t) PROVE GoneAreHidden'
  <2>1. \A u \in Tasks \ {t} : task'[u] = Idle /\ task[u] = Idle
    <3>1. task[t].op # "none" /\ \A u \in Tasks \ {t} : task'[u] = task[u]
      BY <1>0, <1>5, IdleRests, StepKeeps
    <3>2. \A u \in Tasks \ {t} : task[u].op = "none"
      BY <1>2, <3>1 DEF Alone
    <3>3. QED
      BY <1>0, <3>1, <3>2 DEF TasksKnow, TaskKnows
  <2>2. Listed(task[t])
    BY <1>0, <1>2, <2>1 DEF GoneAreHidden, Listed
  <2>3. Listed(task[t])'
    BY <1>5, <2>2, StepKeepsList DEF Kept
  <2>4. QED
    BY <1>0, <2>1, <2>3 DEF GoneAreHidden, Listed
<1>6. ASSUME NEW t \in Tasks, Free(t), UNCHANGED << hidden, cut >>, gone' \subseteq gone,
             task'[t].at \notin {"hidden", "hidden rest"},
             \A u \in Tasks \ {t} : task'[u] = task[u]
      PROVE  GoneAreHidden'
  <2>1. \A u \in Tasks : task[u] = Idle
    BY <1>2, <1>6, FreeAlone
  <2>2. "hidden" \in cut \/ gone \subseteq LoadHidden
    BY <1>0, <1>2, <2>1 DEF GoneAreHidden
  <2>3. QED
    BY <1>0, <1>6, <2>1, <2>2 DEF GoneAreHidden, LoadHidden
<1>7. ASSUME NEW t \in Tasks, NEW p \in Packages, NEW v \in Versions, Install(t, p, v)
      PROVE  GoneAreHidden'
  <2>1. /\ Free(t) /\ UNCHANGED << hidden, cut >> /\ gone' \subseteq gone
        /\ task'[t].at = "convert" /\ \A u \in Tasks \ {t} : task'[u] = task[u]
    BY <1>0, <1>7 DEF Install, Idle, disk
  <2>2. QED
    BY <1>6, <2>1
<1>8. ASSUME NEW t \in Tasks, Scan(t) PROVE GoneAreHidden'
  <2>1. /\ Free(t) /\ UNCHANGED << hidden, cut, gone >>
        /\ task'[t].at = "list" /\ \A u \in Tasks \ {t} : task'[u] = task[u]
    BY <1>0, <1>8 DEF Scan, Idle, disk, history
  <2>2. QED
    BY <1>6, <2>1
<1>9. ASSUME NEW t \in Tasks, NEW s \in Sources, Uninstall(t, s) PROVE GoneAreHidden'
  <2>1. /\ Free(t) /\ UNCHANGED << hidden, cut, gone >>
        /\ task'[t].at = "forget" /\ \A u \in Tasks \ {t} : task'[u] = task[u]
    BY <1>0, <1>9 DEF Uninstall, Idle, disk
  <2>2. QED
    BY <1>6, <2>1
<1>10. CASE End
  <2>1. /\ UNCHANGED << hidden, gone >> /\ \A t \in Tasks : task'[t].at = "idle"
        /\ cut \subseteq cut' /\ (hidden = Torn => "hidden" \in cut')
    BY <1>10 DEF End, Idle, disk
  <2>2. QED
    BY <1>2, <2>1 DEF GoneAreHidden, LoadHidden
<1>11. QED
  BY <1>4, <1>5, <1>7, <1>8, <1>9, <1>10
     DEF Next, vars, Start, Extract, disk, memory, history

\* Every step keeps what the tasks rely on.
LEMMA NextKept ==
  ASSUME DevicesWait, Sound, Kept, Alone, GoneAreHidden, [Next]_vars
  PROVE  Kept'
<1>0. TasksKnow /\ task \in [Tasks -> TaskState] /\ Idle.op = "none" /\ OneAtATime /\ DiskType
  BY DEF Sound, Known, TasksKnow, Idle, InstallsWork, TypeOK, DiskType
<1>1. use' = use
  BY StepLeaves DEF Next, vars, Start, Extract, End, Install, Scan, Uninstall
<1>2. ASSUME NEW t \in Tasks, Step(t) PROVE Kept'
  <2>1. task[t].op \in {"install", "uninstall", "scan"}
    BY <1>0, <1>2, StepsOf, IdleRests
  <2>2. QED
    BY <1>2, <2>1, InstallKeeps, UninstallKeeps, ScanKeeps
<1>3. ASSUME UNCHANGED << artifact, meta >>
      PROVE  \A p \in Packages : FindsPrivate(p)' <=> FindsPrivate(p)
  BY <1>1, <1>3, FindsAsBefore
<1>4. CASE End
  <2>1. /\ UNCHANGED << artifact, meta, gone >> /\ \A t \in Tasks : task'[t].op = "none"
    BY <1>4 DEF End, Idle, disk
  <2>2. QED
    BY <1>3, <2>1 DEF Kept, Careful, GoneAreDeleted
<1>5. ASSUME NEW T \in SUBSET Tasks,
             UNCHANGED << artifact, meta, cut >>,
             gone' \subseteq gone,
             \A t \in T : task[t].op = "none" /\ Careful(task[t])',
             \A u \in Tasks \ T : task'[u] = task[u]
      PROVE  Kept'
  <2>1. \A p \in Packages : FindsPrivate(p)' <=> FindsPrivate(p)
    BY <1>3, <1>5
  <2>3. ASSUME NEW u \in Tasks \ T PROVE Careful(task[u])'
    <3>1. Careful(task[u]) /\ task'[u] = task[u]
      BY <1>5, <2>3 DEF Kept
    <3>2. CASE task[u].op = "install"
      BY <1>1, <1>5, <3>1, <3>2 DEF Careful
    <3>3. CASE task[u].op = "uninstall"
      BY <1>1, <1>5, <2>1, <3>1, <3>3 DEF Careful
    <3>4. CASE task[u].op = "scan"
      <4>1. ASSUME NEW path \in Coming(task[u]), task[u].at # "list" PROVE MayCome(path)'
        <5>1. MayCome(path)
          BY <3>1, <3>4, <4>1 DEF Careful
        <5>2. path[2] \in Packages
          <6>1. task[u].todo \subseteq Paths
            BY <1>0 DEF TaskState
          <6>2. task[u].at \in {"load", "record"} => task[u].path \in Paths
            BY <1>0, LoadsAPath
          <6>3. QED
            BY <4>1, <6>1, <6>2, PathPackage DEF Coming
        <5>3. QED
          BY <1>1, <1>5, <2>1, <5>1, <5>2 DEF MayCome
      <4>2. Coming(task'[u]) = Coming(task[u])
        BY <3>1
      <4>3. QED
        BY <1>1, <1>5, <3>1, <3>4, <4>1, <4>2 DEF Careful, Coming
    <3>5. CASE task[u].op \notin {"install", "uninstall", "scan"}
      BY <3>1, <3>5 DEF Careful
    <3>6. QED
      BY <3>2, <3>3, <3>4, <3>5
  <2>4. GoneAreDeleted'
    BY <1>5, <2>1 DEF Kept, GoneAreDeleted
  <2>7. QED
    BY <1>5, <2>3, <2>4 DEF Kept
<1>6. ASSUME NEW t \in Tasks, NEW p \in Packages, NEW v \in Versions, Install(t, p, v)
      PROVE  Kept'
  <2>1. /\ task[t].op = "none" /\ UNCHANGED << artifact, meta, cut >>
        /\ gone' = gone \ {p} /\ \A u \in Tasks \ {t} : task'[u] = task[u]
        /\ task'[t].op = "install" /\ task'[t].pkg = p
    BY <1>0, <1>6 DEF Install, Free, Busy, Idle, disk
  <2>2. Careful(task[t])'
    BY <1>1, <2>1 DEF Careful
  <2>3. QED
    BY <1>5, <2>1, <2>2
<1>7. ASSUME NEW t \in Tasks, Scan(t) PROVE Kept'
  <2>1. /\ task[t].op = "none" /\ UNCHANGED << artifact, meta, cut >>
        /\ UNCHANGED gone /\ \A u \in Tasks \ {t} : task'[u] = task[u]
        /\ task'[t].op = "scan" /\ task'[t].at = "list"
        /\ task'[t].seen = IF Android THEN LoadHidden ELSE {}
        /\ Busy = {}
    BY <1>0, <1>7 DEF Scan, Free, Busy, Idle, disk, history
  <2>2. OnDevice(use) => gone \subseteq LoadHidden \/ "hidden" \in cut
    <3>1. \A u \in Tasks : task[u].at = "idle"
      BY <2>1 DEF Busy, Idle
    <3>2. QED
      BY <3>1 DEF GoneAreHidden
  <2>3. Careful(task[t])'
    BY <1>1, <2>1, <2>2 DEF Careful, OnDevice, Android
  <2>4. QED
    BY <1>5, <2>1, <2>3
<1>8. ASSUME NEW t \in Tasks, NEW s \in Sources, Uninstall(t, s) PROVE Kept'
  <2>1. /\ task[t].op = "none" /\ UNCHANGED << artifact, meta, cut >>
        /\ UNCHANGED gone /\ \A u \in Tasks \ {t} : task'[u] = task[u]
        /\ task'[t].op = "uninstall" /\ task'[t].at = "forget"
    BY <1>0, <1>8 DEF Uninstall, Free, Busy, Idle, disk
  <2>2. Careful(task[t])'
    BY <2>1 DEF Careful
  <2>3. QED
    BY <1>5, <2>1, <2>2
<1>9. CASE UNCHANGED << use, artifact, meta, task, gone, cut >>
  <2>1. {} \in SUBSET Tasks
    OBVIOUS
  <2>2. QED
    BY <1>5, <1>9, <2>1
<1>10. QED
  BY <1>2, <1>4, <1>6, <1>7, <1>8, <1>9
     DEF Next, vars, Start, Extract, disk, history

\* What only comes with a scan or an install is no package that has gone.
LEMMA NewcomersStay ==
  ASSUME Sound, Kept, [Next]_vars, NEW s \in Sources, s \in held' \ held
  PROVE  PackageOf(s) \notin gone \/ "hidden" \in cut
<1>0. TasksKnow
  BY DEF Sound, Known
<1>1. PICK t \in Tasks : Record(t)
  BY DEF Next, Step, vars, Start, Extract, End, Install, Scan, Uninstall, Convert, Converted,
         SaveMeta, UnhidePackage, PersistHidden, Load, List, NextCandidate, Forget,
         UnloadExtension, DeleteFiles, HidePackage, Uninstalled, memory
<1>2. task[t].at = "record" /\ task[t].path \in Paths /\ task[t].path[2] \in Packages
  BY <1>0, <1>1, LoadsAPath DEF Record, At
<1>3. task[t].ids # {} /\ task[t].ids \subseteq SourcesOf[task[t].path[2]]
  BY <1>0, <1>2 DEF TasksKnow, TaskKnows
<1>4. s \in SourcesOf[task[t].path[2]]
  BY <1>1, <1>3 DEF Record
<1>5. PackageOf(s) = task[t].path[2]
  BY <1>2, <1>4, SourceFacts
<1>6. Careful(task[t])
  BY DEF Kept
<1>7. CASE task[t].op = "install"
  <2>1. task[t].path[2] = task[t].pkg
    BY <1>0, <1>7, WorksOnItsPath DEF Works
  <2>2. QED
    BY <1>5, <1>6, <1>7, <2>1 DEF Careful
<1>8. CASE task[t].op = "scan"
  <2>1. MayCome(task[t].path)
    BY <1>2, <1>6, <1>8 DEF Careful, Coming
  <2>2. task[t].path[1] \in {"private", "system"}
    BY <1>2, PathKinds
  <2>3. QED
    BY <1>2, <1>5, <2>1, <2>2 DEF MayCome, Kept, GoneAreDeleted
<1>9. QED
  BY <1>0, <1>2, <1>7, <1>8, StepsOf

\* Packages the user has uninstalled stay away, whatever is installed, looked for
\* and cut off meanwhile, unless it is the list of them that was cut off; where
\* packages are in the system, if the application waits for each operation.
THEOREM UninstalledAreGone == ASSUME DevicesWait PROVE Spec => UninstalledStayAway
<1> DEFINE IInv == Sound /\ Kept /\ Alone /\ GoneAreHidden
<1>1. Init => IInv
  <2> SUFFICES ASSUME Init PROVE IInv
    OBVIOUS
  <2>1. Sound
    BY InitSound
  <2>2. task = [t \in Tasks |-> Idle] /\ gone = {} /\ hidden = {}
    BY DEF Init
  <2>3. \A t \in Tasks : task[t].op = "none" /\ task[t].at = "idle"
    BY <2>2 DEF Idle
  <2>6. Kept
    BY <2>2, <2>3 DEF Kept, Careful, GoneAreDeleted
  <2>7. Alone /\ GoneAreHidden
    BY <2>2, <2>3 DEF Alone, GoneAreHidden
  <2>8. QED
    BY <2>1, <2>6, <2>7
<1>2. IInv /\ [Next]_vars => IInv'
  BY NextSound, NextKept, DevicesStayAlone, NextHidden
<1>3. IInv /\ [Next]_vars => [\A s \in held' \ held : PackageOf(s) \notin gone \/ "hidden" \in cut]_vars
  <2>1. IInv /\ [Next]_vars => held' \subseteq Sources
    BY NextSound DEF Sound, TypeOK
  <2>2. QED
    BY <2>1, NewcomersStay
<1>4. QED
  BY <1>1, <1>2, <1>3, PTL DEF Spec, UninstalledStayAway

-----------------------------------------------------------------------------
(* What get_extensions finds.  Nothing else runs meanwhile, so that what it  *)
(* has listed is loaded, and no package that is due fails to load.           *)

\* A package the application is to get, and where it is found.
Due(p) ==
  \/ installed[p] # None
  \/ Android /\ use.system[p] # Absent /\ artifact[p] = Absent /\ p \notin LoadHidden

PathOf(p) == IF installed[p] # None THEN Private(p) ELSE << "system", p >>

\* The application has all sources of the code that runs.
Found(p) == Code(p) \in Versions /\ Creates[p][Code(p)] \subseteq held

\* What is due has been given to the application, or is still to come.
ScanFinds(x) ==
  x.op = "scan" =>
    /\ x.at = "list" /\ Android => x.seen = LoadHidden
    /\ x.at # "list" => \A p \in Packages : Due(p) => Found(p) \/ PathOf(p) \in Coming(x)
    /\ x.at = "record" => \A p \in Packages :
         Due(p) /\ PathOf(p) = x.path => Code(p) \in Versions /\ x.ids = Creates[p][Code(p)]

\* The JVM keeps no half file for what is installed, and no other file than that
\* of the system for what is there.
LoadersWhole ==
  /\ \A p \in Packages : loaders[<< "system", p >>] \in {None, use.system[p]}
  /\ \A p \in Packages : installed[p] # None => loaders[Private(p)] # Torn
  /\ \A t \in Tasks, p \in Packages :
       task[t].op = "install" /\ task[t].at = "record" /\ task[t].pkg = p
         => loaders[Private(p)] # Torn

FindsAll == LoadersWhole /\ \A t \in Tasks : ScanFinds(task[t])

\* The parts of a path of the system.
LEMMA SystemPath ==
  \A p \in Packages : /\ << "system", p >> \in Paths /\ << "system", p >>[2] = p
                      /\ \A q \in Packages : << "system", p >> # Private(q)
BY DEF Paths, Private

\* A step of the bridge takes one class loader away, or keeps what it has loaded.
LEMMA LoaderSteps ==
  ASSUME TasksKnow, NEW t \in Tasks, Step(t)
  PROVE  \/ UNCHANGED loaders
         \/ loaders' = [loaders EXCEPT ![task[t].path] = None]
         \/ /\ Load(t)
            /\ loaders' = [loaders EXCEPT ![task[t].path] =
                 IF loaders[task[t].path] # None THEN loaders[task[t].path] ELSE FileAt(task[t].path)]
BY DEF Step, Convert, Converted, SaveMeta, UnhidePackage, PersistHidden, Load, Record, List,
       NextCandidate, Forget, UnloadExtension, DeleteFiles, HidePackage, memory

\* What is installed, or in the system, is never half a file.
LEMMA WholeFiles ==
  ASSUME Sound
  PROVE  /\ \A p \in Packages : installed[p] # None =>
              /\ FileAt(Private(p)) = installed[p] /\ installed[p] \in Versions
              /\ FindsPrivate(p)
         /\ \A p \in Packages : FileAt(<< "system", p >>) = use.system[p]
         /\ \A p \in Packages : use.system[p] \in Versions \cup {Absent}
<1>1. use \in Uses /\ AtRest /\ InstalledRuns
  BY DEF Sound, TypeOK, InstallsWork
<1>2. \A p \in Packages : use.system[p] \in Versions \cup {Absent}
  BY <1>1, MihonAssumption DEF Usage
<1>3. \A p \in Packages : installed[p] # None =>
        artifact[p] = installed[p] /\ meta[p] = installed[p] /\ installed[p] \in Versions
  BY <1>1 DEF AtRest, InstalledRuns
<1>4. \A p \in Packages : /\ FileAt(Private(p)) = artifact[p]
                          /\ FileAt(<< "system", p >>) = use.system[p]
  BY DEF FileAt, Private
<1>5. QED
  BY <1>2, <1>3, <1>4, MihonAssumption DEF FindsPrivate

\* A step keeps the class loaders whole.
LEMMA StepKeepsLoaders ==
  ASSUME Sound, LoadersWhole, NEW t \in Tasks, Step(t)
  PROVE  LoadersWhole'
<1>0. /\ TasksKnow /\ MemoryType /\ OneAtATime /\ AtRest /\ task \in [Tasks -> TaskState]
      /\ \A u \in Tasks \ {t} : task'[u] = task[u]
      /\ task'[t] = Idle \/ Keeps(t)
  BY StepKeeps DEF Sound, Known, TasksKnow, TypeOK, MemoryType, InstallsWork
<1>1. ASSUME NEW p \in Packages PROVE loaders'[<< "system", p >>] \in {None, use'.system[p]}
  <2> DEFINE x == << "system", p >>
  <2>1. x \in Paths /\ loaders[x] \in {None, use.system[p]}
    BY SystemPath DEF LoadersWhole
  <2>2. FileAt(x) = use.system[p] /\ use' = use
    BY WholeFiles, StepLeaves
  <2> HIDE DEF x
  <2>3. loaders'[x] \in {None, use.system[p]}
    BY <1>0, <2>1, <2>2, LoaderSteps DEF MemoryType
  <2>4. QED
    BY <2>2, <2>3 DEF x
<1>2. ASSUME NEW p \in Packages, loaders[Private(p)] # Torn,
             Load(t) => FileAt(Private(p)) # Torn \/ task[t].path # Private(p)
      PROVE  loaders'[Private(p)] # Torn
  <2>1. Private(p) \in Paths /\ None # Torn
    BY PrivatePath, MihonAssumption
  <2>2. QED
    BY <1>0, <1>2, <2>1, LoaderSteps DEF MemoryType
<1>3. ASSUME NEW p \in Packages, installed[p] # None PROVE loaders'[Private(p)] # Torn
  <2>1. loaders[Private(p)] # Torn
    BY <1>3 DEF LoadersWhole
  <2>2. FileAt(Private(p)) # Torn
    <3>1. FileAt(Private(p)) = installed[p] /\ installed[p] \in Versions
      BY <1>3, WholeFiles
    <3>2. QED
      BY <3>1, MihonAssumption
  <2>3. QED
    BY <1>2, <2>1, <2>2
<1>4. ASSUME NEW p \in Packages, installed'[p] # None, installed[p] = None
      PROVE  loaders'[Private(p)] # Torn
  <2>1. Record(t) /\ Installed(t) /\ task[t].op = "install"
    <3>1. Record(t) /\ Installed(t)
      BY <1>4
         DEF Step, Convert, Converted, SaveMeta, UnhidePackage, PersistHidden, Load, Record, List,
             NextCandidate, Forget, UnloadExtension, DeleteFiles, HidePackage, Uninstalled, history
    <3>2. task[t].op # "install" => UNCHANGED installed
      BY <3>1 DEF Record, history
    <3>3. QED
      BY <1>4, <3>1, <3>2
  <2>2. /\ task[t].at = "record" /\ UNCHANGED loaders
        /\ installed' = [installed EXCEPT ![task[t].pkg] = task[t].version]
    BY <2>1 DEF Record, Installed, At
  <2>3. task[t].pkg = p
    BY <1>0, <1>4, <2>2 DEF AtRest
  <2>4. QED
    BY <2>1, <2>2, <2>3 DEF LoadersWhole
<1>5. ASSUME NEW u \in Tasks, NEW p \in Packages, task'[u].op = "install",
             task'[u].at = "record", task'[u].pkg = p
      PROVE  loaders'[Private(p)] # Torn
  <2>1. CASE u = t
    <3>1. /\ task[t].op = "install" /\ task[t].pkg = p /\ task'[t].at = "record"
          /\ task[t].path = Private(p)
      <4>1. Keeps(t)
        BY <1>0, <1>5, <2>1 DEF Idle
      <4>2. task[t].op = "install" /\ task[t].pkg = p
        BY <1>5, <2>1, <4>1 DEF Keeps
      <4>3. TaskKnows(task[t])
        BY <1>0 DEF TasksKnow
      <4>4. task[t].path = Private(p)
        BY <4>2, <4>3, Zenon DEF TaskKnows
      <4>5. QED
        BY <1>5, <2>1, <4>2, <4>4
    <3>2. Load(t)
      <4>1. ASSUME NEW at, Goto(t, at) PROVE at = "record"
        BY <1>0, <3>1, <4>1 DEF Goto, TaskState
      <4>2. ~(Convert(t) \/ SaveMeta(t) \/ PersistHidden(t) \/ Forget(t) \/ UnloadExtension(t)
                \/ DeleteFiles(t))
        <5>1. ~PersistHidden(t)
          <6>1. ~Uninstalled(t)
            BY <1>0, <1>5, <2>1 DEF Uninstalled, Idle
          <6>2. QED
            BY <4>1, <6>1 DEF PersistHidden
        <5>2. QED
          BY <4>1, <5>1 DEF Convert, SaveMeta, Forget, UnloadExtension, DeleteFiles
      <4>3. ~Converted(t)
        <5>1. ASSUME Converted(t)
              PROVE  \/ task' = [task EXCEPT ![t] = Idle]
                     \/ task' = [task EXCEPT ![t] = [task[t] EXCEPT !.at = "meta"]]
          BY <1>0, <5>1 DEF Converted
        <5>2. ASSUME task' = [task EXCEPT ![t] = Idle] PROVE task'[t].at = "idle"
          BY <1>0, <5>2 DEF Idle
        <5>3. ASSUME task' = [task EXCEPT ![t] = [task[t] EXCEPT !.at = "meta"]]
              PROVE  task'[t].at = "meta"
          BY <1>0, <5>3 DEF TaskState
        <5>4. QED
          BY <3>1, <5>1, <5>2, <5>3
      <4>4. ~UnhidePackage(t)
        <5>1. ASSUME NEW x, NEW at, at # "record"
              PROVE  task' # [task EXCEPT ![t].seen = x, ![t].at = at]
          BY <1>0, <3>1, <5>1 DEF TaskState
        <5>2. (IF task[t].pkg \in LoadHidden THEN "hidden" ELSE "load") # "record"
          OBVIOUS
        <5>3. QED
          BY <5>1, <5>2, Zenon DEF UnhidePackage
      <4>5. ~Record(t)
        <5>1. ASSUME Record(t)
              PROVE  task' = [task EXCEPT ![t] = Idle] \/ Goto(t, "next")
          BY <5>1 DEF Record, Installed
        <5>2. ASSUME task' = [task EXCEPT ![t] = Idle] PROVE task'[t].at = "idle"
          BY <1>0, <5>2 DEF Idle
        <5>3. QED
          BY <3>1, <4>1, <5>1, <5>2
      <4>6. ~List(t) /\ ~NextCandidate(t) /\ ~HidePackage(t)
        BY <1>0, <3>1, StepsOf DEF List, NextCandidate, HidePackage, At
      <4>7. QED
        BY <4>2, <4>3, <4>4, <4>5, <4>6 DEF Step
    <3>3. DEFINE loader == IF loaders[Private(p)] # None THEN loaders[Private(p)]
                           ELSE FileAt(Private(p))
    <3>4. loaders' = [loaders EXCEPT ![Private(p)] = loader] /\ loader # Torn
      <4>1. ~Fails(t)
        BY <1>0, <3>1 DEF Fails, Idle
      <4>2. /\ loaders' = [loaders EXCEPT ![Private(p)] = loader]
            /\ CreatedBy(Private(p)[2], loader) # {}
        BY <3>1, <3>2, <4>1 DEF Load
      <4> HIDE DEF loader
      <4>3. QED
        BY <4>2, CreatesSome, PrivatePath
    <3>5. QED
      <4> HIDE DEF loader
      <4>1. QED
        BY <1>0, <3>4, PrivatePath DEF MemoryType
  <2>2. CASE u # t
    <3>1. task[u].op = "install" /\ task[u].at = "record" /\ task[u].pkg = p
      BY <1>0, <1>5, <2>2
    <3>2. Works(task[u]) /\ task[t].op # "scan"
      BY <1>0, <2>2, <3>1 DEF OneAtATime, Works
    <3>3. Works(task[t]) /\ task[t].pkg # p
      BY <1>0, <2>2, <3>1, <3>2, IdleRests, StepsOf DEF OneAtATime, Works
    <3>4. loaders'[Private(p)] = loaders[Private(p)]
      BY <3>3, LeavesOthers DEF Same, Sound, InstallsWork
    <3>5. QED
      BY <3>1, <3>4 DEF LoadersWhole
  <2>3. QED
    BY <2>1, <2>2
<1>6. QED
  BY <1>1, <1>3, <1>4, <1>5 DEF LoadersWhole

\* What is due is there, and the code that runs is whole.
LEMMA DueLoads ==
  ASSUME Sound, LoadersWhole, UNCHANGED << use, installed >>, NEW x \in Paths,
         NEW p \in Packages, Due(p), PathOf(p) = x
  PROVE  LET loader == IF loaders[x] # None THEN loaders[x] ELSE FileAt(x)
         IN /\ FileAt(x) # Absent /\ loader \in Versions
            /\ loaders' = [loaders EXCEPT ![x] = loader] => Code(p)' = loader
            /\ CreatedBy(x[2], loader) = Creates[p][loader]
<1> DEFINE loader == IF loaders[x] # None THEN loaders[x] ELSE FileAt(x)
<1>0. /\ loaders \in [Paths -> Versions \cup {Torn, None}] /\ AtRest
      /\ Absent \notin Versions /\ None \notin Versions
  BY MihonAssumption DEF Sound, TypeOK, InstallsWork
<1>1. CASE installed[p] # None
  <2>1. x = Private(p) /\ x[2] = p
    BY <1>1, PrivatePath DEF PathOf
  <2>2. FileAt(x) = installed[p] /\ installed[p] \in Versions
    BY <1>1, <2>1, WholeFiles
  <2>3. loaders[x] # Torn /\ (~Android => loaders[x] \in {None, installed[p]})
    BY <1>0, <1>1, <2>1 DEF LoadersWhole, AtRest
  <2>4. loader \in Versions /\ (~Android => loader = installed[p])
    BY <1>0, <2>2, <2>3
  <2> HIDE DEF loader
  <2>5. ASSUME loaders' = [loaders EXCEPT ![x] = loader] PROVE Code(p)' = loader
    <3>1. loaders'[Private(p)] = loader
      BY <1>0, <2>1, <2>5
    <3>2. installed'[p] = installed[p] /\ (Android' <=> Android)
      BY DEF Android
    <3>3. QED
      BY <1>1, <2>4, <3>1, <3>2 DEF Code
  <2>6. CreatedBy(x[2], loader) = Creates[p][loader]
    BY <2>1, <2>4, CreatesSome
  <2>7. FileAt(x) # Absent
    BY <1>0, <2>2
  <2>8. QED
    BY <2>4, <2>5, <2>6, <2>7 DEF loader
<1>2. CASE installed[p] = None
  <2>1. x = << "system", p >> /\ x[2] = p /\ use.system[p] # Absent
    BY <1>2 DEF PathOf, Due
  <2>2. FileAt(x) = use.system[p] /\ use.system[p] \in Versions
    BY <2>1, WholeFiles
  <2>3. loaders[x] \in {None, use.system[p]}
    BY <2>1 DEF LoadersWhole
  <2>4. loader = use.system[p]
    BY <2>2, <2>3
  <2> HIDE DEF loader
  <2>5. Code(p)' = loader
    BY <1>2, <2>4 DEF Code
  <2>6. CreatedBy(x[2], loader) = Creates[p][loader]
    BY <2>1, <2>2, <2>4, CreatesSome
  <2>7. QED
    BY <1>0, <2>2, <2>4, <2>5, <2>6 DEF loader
<1>3. QED
  BY <1>1, <1>2

\* A step that looks for extensions forgets none that is due.
LEMMA StepFinds ==
  ASSUME Sound, LoadersWhole, NEW t \in Tasks, Step(t), task[t].op = "scan", ScanFinds(task[t])
  PROVE  /\ ScanFinds(task[t])'
         /\ task'[t] = Idle => \A p \in Packages : Due(p) => Found(p)
<1>0. /\ TasksKnow /\ task \in [Tasks -> TaskState] /\ UNCHANGED use /\ (Android' <=> Android)
      /\ task[t].at \in ScanSteps
  BY StepLeaves DEF Sound, Known, TasksKnow, TaskKnows, Android
<1>1. \/ List(t) \/ NextCandidate(t) \/ Load(t) \/ Record(t)
  BY <1>0
     DEF ScanSteps, Step, At, Convert, Converted, SaveMeta, UnhidePackage, PersistHidden, Forget,
         UnloadExtension, DeleteFiles, HidePackage
<1>2. UNCHANGED << installed, artifact, hidden >>
  <2>1. Record(t) => UNCHANGED history
    BY DEF Record
  <2>2. QED
    BY <1>1, <2>1 DEF List, NextCandidate, Load, Record, disk, history
<1>3. \A p \in Packages : (Due(p)' <=> Due(p)) /\ PathOf(p)' = PathOf(p)
  BY <1>0, <1>2 DEF Due, PathOf, LoadHidden
<1>4. task[t].at # "list" => \A p \in Packages :
        Due(p) => Found(p) \/ PathOf(p) \in Coming(task[t])
  BY DEF ScanFinds
<1>5. ASSUME task'[t].at # "list",
             \A p \in Packages : Due(p) => Found(p)' \/ PathOf(p) \in Coming(task'[t]),
             task'[t].at = "record" => \A p \in Packages :
               Due(p) /\ PathOf(p) = task'[t].path =>
                 Code(p)' \in Versions /\ task'[t].ids = Creates[p][Code(p)']
      PROVE  ScanFinds(task[t])'
  BY <1>3, <1>5 DEF ScanFinds, Coming
<1>b. ASSUME UNCHANGED loaders, held \subseteq held'
      PROVE  \A p \in Packages : Code(p)' = Code(p) /\ (Found(p) => Found(p)')
  <2>1. \A p \in Packages : Code(p)' = Code(p)
    BY <1>0, <1>2, <1>b DEF Code
  <2>2. QED
    BY <1>b, <2>1 DEF Found
<1>6. CASE List(t)
  <2>1. /\ task' = [task EXCEPT ![t].at = "next",
              ![t].todo = {Private(p) : p \in {q \in Packages : FindsPrivate(q)}} \cup
                   {<< "system", p >> : p \in {q \in Packages : FindsSystem(t, q)
                                                                /\ ~FindsPrivate(q)}}]
        /\ task[t].at = "list"
    BY <1>6 DEF List, At, memory
  <2>2. /\ task'[t].op = "scan" /\ task'[t].at = "next"
        /\ task'[t].todo = {Private(p) : p \in {q \in Packages : FindsPrivate(q)}} \cup
                   {<< "system", p >> : p \in {q \in Packages : FindsSystem(t, q)
                                                                /\ ~FindsPrivate(q)}}
    BY <1>0, <2>1 DEF TaskState
  <2>3. ASSUME NEW p \in Packages, Due(p) PROVE PathOf(p) \in task'[t].todo
    <3>1. CASE installed[p] # None
      BY <2>2, <3>1, WholeFiles DEF PathOf
    <3>2. CASE installed[p] = None
      <4>1. Android /\ use.system[p] # Absent /\ artifact[p] = Absent /\ p \notin LoadHidden
        BY <2>3, <3>2 DEF Due
      <4>2. ~FindsPrivate(p)
        BY <4>1, NothingFound
      <4>3. task[t].seen = LoadHidden
        BY <2>1, <4>1 DEF ScanFinds
      <4>4. FindsSystem(t, p)
        BY <4>1, <4>3 DEF FindsSystem
      <4>5. QED
        BY <2>2, <3>2, <4>2, <4>4 DEF PathOf
    <3>3. QED
      BY <3>1, <3>2
  <2>4. task'[t] # Idle /\ Coming(task'[t]) = task'[t].todo
    BY <2>2 DEF Idle, Coming
  <2>5. QED
    BY <1>5, <2>2, <2>3, <2>4
<1>7. CASE NextCandidate(t)
  <2>1. UNCHANGED << held, loaders >> /\ task[t].at = "next" /\ Coming(task[t]) = task[t].todo
    BY <1>7 DEF NextCandidate, At, memory, Coming
  <2>2. CASE task[t].todo = {} /\ task' = [task EXCEPT ![t] = Idle]
    <3>1. task'[t] = Idle /\ task'[t].op = "none"
      BY <1>0, <2>2 DEF Idle
    <3>2. QED
      BY <1>4, <2>1, <2>2, <3>1 DEF ScanFinds
  <2>3. ASSUME NEW path \in task[t].todo,
               task' = [task EXCEPT ![t].at = "load", ![t].path = path, ![t].todo = @ \ {path}]
        PROVE  ScanFinds(task[t])' /\ task'[t] # Idle
    <3>1. /\ task'[t].op = "scan" /\ task'[t].at = "load" /\ task'[t].path = path
          /\ task'[t].todo = task[t].todo \ {path}
      BY <1>0, <2>3 DEF TaskState
    <3>2. Coming(task'[t]) = Coming(task[t])
      BY <2>1, <3>1 DEF Coming
    <3>3. task'[t] # Idle
      BY <3>1 DEF Idle
    <3>4. \A p \in Packages : Found(p) => Found(p)'
      BY <1>b, <2>1
    <3>5. QED
      BY <1>4, <1>5, <2>1, <3>1, <3>2, <3>3, <3>4
  <2>4. QED
    BY <1>7, <2>2, <2>3 DEF NextCandidate
<1>8. CASE Load(t)
  <2> DEFINE x      == task[t].path
             loader == IF loaders[x] # None THEN loaders[x] ELSE FileAt(x)
             made   == CreatedBy(x[2], loader)
  <2>1. task[t].at = "load" /\ UNCHANGED held
    BY <1>8 DEF Load, At
  <2>2. x \in Paths
    BY <1>0, <2>1, LoadsAPath
  <2>3. \/ FileAt(x) = Absent /\ Fails(t) /\ UNCHANGED loaders
        \/ /\ loaders' = [loaders EXCEPT ![x] = loader]
           /\ \/ made = {} /\ Fails(t)
              \/ task' = [task EXCEPT ![t].at = "record", ![t].ids = made]
    BY <1>8 DEF Load
  <2>4. ASSUME NEW p \in Packages, Due(p), PathOf(p) = x
        PROVE  /\ FileAt(x) # Absent /\ loader \in Versions
               /\ loaders' = [loaders EXCEPT ![x] = loader] => Code(p)' = loader
               /\ made = Creates[p][loader]
    BY <1>0, <1>2, <2>2, <2>4, DueLoads
  <2>5. ASSUME NEW p \in Packages, PathOf(p) # x PROVE Found(p) => Found(p)'
    <3>1. installed[p] # None => loaders'[Private(p)] = loaders[Private(p)]
      <4>1. installed[p] # None => Private(p) # x /\ Private(p) \in Paths
        BY <2>5, PrivatePath DEF PathOf
      <4> HIDE DEF loader, x
      <4>2. QED
        BY <2>3, <4>1 DEF Sound, TypeOK
    <3>2. Code(p)' = Code(p)
      BY <1>0, <1>2, <3>1 DEF Code
    <3>3. QED
      BY <2>1, <3>2 DEF Found
  <2> HIDE DEF loader, made
  <2>6. CASE /\ loaders' = [loaders EXCEPT ![x] = loader]
             /\ task' = [task EXCEPT ![t].at = "record", ![t].ids = made]
    <3>1. /\ task'[t].op = "scan" /\ task'[t].at = "record" /\ task'[t].path = x
          /\ task'[t].todo = task[t].todo /\ task'[t].ids = made
      BY <1>0, <2>6 DEF TaskState
    <3>2. Coming(task'[t]) = Coming(task[t]) /\ x \in Coming(task[t]) /\ task'[t] # Idle
      BY <2>1, <3>1 DEF Coming, Idle
    <3> HIDE DEF x
    <3>3. \A p \in Packages : Due(p) => Found(p)' \/ PathOf(p) \in Coming(task'[t])
      BY <1>4, <2>1, <2>5, <3>2
    <3>4. \A p \in Packages : Due(p) /\ PathOf(p) = task'[t].path =>
                 Code(p)' \in Versions /\ task'[t].ids = Creates[p][Code(p)']
      BY <2>4, <2>6, <3>1
    <3>5. QED
      BY <1>5, <3>1, <3>2, <3>3, <3>4
  <2>7. CASE /\ Fails(t)
             /\ \/ FileAt(x) = Absent
                \/ made = {} /\ loaders' = [loaders EXCEPT ![x] = loader]
    <3>1. task' = [task EXCEPT ![t] = [task[t] EXCEPT !.at = "next"]]
      BY <1>0, <2>7 DEF Fails
    <3>2. task'[t].op = "scan" /\ task'[t].at = "next" /\ task'[t].todo = task[t].todo
      BY <1>0, <3>1 DEF TaskState
    <3>3. Coming(task'[t]) = task[t].todo /\ Coming(task[t]) = task[t].todo \cup {x} /\ task'[t] # Idle
      BY <2>1, <3>2 DEF Coming, Idle
    <3> HIDE DEF x
    <3>4. \A p \in Packages : Due(p) /\ PathOf(p) = x => Found(p)'
      BY <2>4, <2>7 DEF Found
    <3>5. \A p \in Packages : Due(p) => Found(p)' \/ PathOf(p) \in Coming(task'[t])
      BY <1>4, <2>1, <2>5, <3>3, <3>4
    <3>6. QED
      BY <1>5, <3>2, <3>3, <3>5
  <2>8. QED
    BY <2>3, <2>6, <2>7
<1>9. CASE Record(t)
  <2> DEFINE x == task[t].path
  <2>1. /\ task[t].at = "record" /\ Goto(t, "next") /\ held' = held \cup task[t].ids
        /\ UNCHANGED loaders
    BY <1>9 DEF Record, At
  <2>2. task'[t].op = "scan" /\ task'[t].at = "next" /\ task'[t].todo = task[t].todo
    BY <1>0, <2>1 DEF Goto, TaskState
  <2>3. Coming(task'[t]) = task[t].todo /\ Coming(task[t]) = task[t].todo \cup {x} /\ task'[t] # Idle
    BY <2>1, <2>2 DEF Coming, Idle
  <2>4. \A p \in Packages : Code(p)' = Code(p) /\ (Found(p) => Found(p)')
    BY <1>b, <2>1
  <2>5. \A p \in Packages : Due(p) /\ PathOf(p) = x => Found(p)'
    <3>1. \A p \in Packages : Due(p) /\ PathOf(p) = x =>
            Code(p) \in Versions /\ task[t].ids = Creates[p][Code(p)]
      BY <2>1 DEF ScanFinds
    <3>2. QED
      BY <2>1, <2>4, <3>1 DEF Found
  <2> HIDE DEF x
  <2>6. \A p \in Packages : Due(p) => Found(p)' \/ PathOf(p) \in Coming(task'[t])
    BY <1>4, <2>1, <2>3, <2>4, <2>5
  <2>7. QED
    BY <1>5, <2>2, <2>3, <2>6
<1>10. QED
  BY <1>1, <1>6, <1>7, <1>8, <1>9

\* Every step of every task keeps that.
LEMMA NextFindsAll ==
  ASSUME Sound, FindsAll, [Next]_vars
  PROVE  FindsAll'
<1>0. TasksKnow /\ Idle.op = "none" /\ OneAtATime
  BY DEF Sound, Known, Idle, InstallsWork
<1>1. UNCHANGED use
  BY StepLeaves DEF Next, vars, Start, Extract, End, Install, Scan, Uninstall
<1>2. ASSUME UNCHANGED loaders,
             \A p \in Packages : installed'[p] \in {None, installed[p]},
             \A u \in Tasks : task'[u] # task[u] => task'[u].at # "record"
      PROVE  LoadersWhole'
  BY <1>1, <1>2 DEF FindsAll, LoadersWhole
<1>3. ASSUME NEW t \in Tasks, Step(t) PROVE FindsAll'
  <2>1. LoadersWhole'
    BY <1>3, StepKeepsLoaders DEF FindsAll
  <2>2. task[t].op # "none" /\ \A u \in Tasks \ {t} : task'[u] = task[u]
    BY <1>0, <1>3, IdleRests, StepKeeps
  <2>3. ASSUME NEW u \in Tasks PROVE ScanFinds(task[u])'
    <3>1. CASE u = t /\ task[t].op = "scan"
      BY <1>3, <3>1, StepFinds DEF FindsAll
    <3>2. CASE u = t /\ task[t].op # "scan"
      <4>1. task'[t].op # "scan"
        BY <1>0, <1>3, <3>2, StepKeeps DEF Keeps
      <4>2. QED
        BY <3>2, <4>1 DEF ScanFinds
    <3>3. CASE u # t
      <4>1. task'[u].op # "scan"
        BY <2>2, <1>0, <3>3 DEF OneAtATime
      <4>2. QED
        BY <4>1 DEF ScanFinds
    <3>4. QED
      BY <3>1, <3>2, <3>3
  <2>4. QED
    BY <2>1, <2>3 DEF FindsAll
<1>4. CASE End
  <2>1. /\ loaders' = [x \in Paths |-> None] /\ \A t \in Tasks : task'[t].op = "none"
    BY <1>4 DEF End, Idle
  <2>2. QED
    BY <2>1, PrivatePath, SystemPath, MihonAssumption DEF FindsAll, LoadersWhole, ScanFinds
<1>5. ASSUME NEW t \in Tasks, NEW p \in Packages, NEW v \in Versions, Install(t, p, v)
      PROVE  FindsAll'
  <2>1. /\ UNCHANGED loaders /\ installed' = [installed EXCEPT ![p] = None]
        /\ task'[t].op = "install" /\ task'[t].at = "convert"
        /\ \A u \in Tasks \ {t} : task'[u] = task[u]
        /\ \A u \in Tasks : task[u].op # "scan"
    BY <1>0, <1>5 DEF Install, Free, Busy, Idle, memory, TasksKnow
  <2>2. installed \in [Packages -> Versions \cup {None}]
    BY DEF Sound, InstallsWork, AtRest
  <2>3. LoadersWhole'
    BY <1>2, <2>1, <2>2
  <2>4. \A u \in Tasks : task'[u].op # "scan"
    BY <2>1
  <2>5. QED
    BY <2>3, <2>4 DEF FindsAll, ScanFinds
<1>6. ASSUME NEW t \in Tasks, Scan(t) PROVE FindsAll'
  <2>1. /\ UNCHANGED << loaders, installed, hidden >>
        /\ task'[t].op = "scan" /\ task'[t].at = "list"
        /\ task'[t].seen = IF Android THEN LoadHidden ELSE {}
        /\ \A u \in Tasks \ {t} : task'[u] = Idle
        /\ \A u \in Tasks \ {t} : task'[u] = task[u]
    BY <1>0, <1>6 DEF Scan, Busy, Idle, disk, memory, history, TasksKnow
  <2>2. LoadersWhole'
    BY <1>2, <2>1
  <2>3. \A u \in Tasks : ScanFinds(task[u])'
    BY <1>0, <1>1, <2>1 DEF ScanFinds, Android, LoadHidden
  <2>4. QED
    BY <2>2, <2>3 DEF FindsAll
<1>7. ASSUME NEW t \in Tasks, NEW s \in Sources, Uninstall(t, s) PROVE FindsAll'
  <2>1. /\ UNCHANGED loaders /\ installed' = [installed EXCEPT ![PackageOf(s)] = None]
        /\ task'[t].op = "uninstall" /\ task'[t].at = "forget"
        /\ \A u \in Tasks \ {t} : task'[u] = task[u]
        /\ \A u \in Tasks : task[u].op # "scan"
    BY <1>0, <1>7 DEF Uninstall, Free, Busy, Idle, TasksKnow
  <2>2. installed \in [Packages -> Versions \cup {None}]
    BY DEF Sound, InstallsWork, AtRest
  <2>3. LoadersWhole'
    BY <1>2, <2>1, <2>2
  <2>4. \A u \in Tasks : task'[u].op # "scan"
    BY <2>1
  <2>5. QED
    BY <2>3, <2>4 DEF FindsAll, ScanFinds
<1>8. ASSUME UNCHANGED << use, disk, memory, task, history >> PROVE FindsAll'
  <2>1. LoadersWhole'
    BY <1>2, <1>8 DEF memory, history
  <2>2. \A p \in Packages : (Due(p)' <=> Due(p)) /\ PathOf(p)' = PathOf(p)
    BY <1>8 DEF Due, PathOf, LoadHidden, Android, disk, history
  <2>6. \A p \in Packages : Code(p)' = Code(p) /\ (Found(p)' <=> Found(p))
    <3>1. \A p \in Packages : Code(p)' = Code(p)
      BY <1>8 DEF Code, Android, memory, history
    <3>2. QED
      BY <1>8, <3>1 DEF Found, memory
  <2>3. UNCHANGED << use, task, held, hidden >>
    BY <1>8 DEF disk, memory
  <2>4. ASSUME NEW u \in Tasks PROVE ScanFinds(task[u])'
    <3>1. ScanFinds(task[u])
      BY DEF FindsAll
    <3>2. QED
      BY <2>2, <2>3, <2>6, <3>1 DEF ScanFinds, Coming, Android, LoadHidden
  <2>5. QED
    BY <2>1, <2>4 DEF FindsAll
<1>9. QED
  BY <1>3, <1>4, <1>5, <1>6, <1>7, <1>8 DEF Next, vars, Start, Extract

\* When get_extensions returns, the application has every source that the code
\* creates which runs for what is installed, and for what the system has and the
\* user has not uninstalled: however processes ended before, a package that does
\* not load keeps no other one away.
THEOREM ScansFindTheRest == Spec => ScanFindsInstalled
<1> DEFINE IInv == Sound /\ FindsAll
<1>1. Init => IInv
  <2> SUFFICES ASSUME Init PROVE FindsAll
    BY InitSound
  <2>1. /\ \A t \in Tasks : task[t].op = "none"
        /\ loaders = [x \in Paths |-> None]
    BY DEF Init, Idle
  <2>2. QED
    BY <2>1, PrivatePath, SystemPath, MihonAssumption DEF FindsAll, LoadersWhole, ScanFinds
<1>2. IInv /\ [Next]_vars => IInv'
  BY NextSound, NextFindsAll
<1>3. ASSUME IInv, Next, NEW t \in Tasks, task[t].op = "scan", task'[t] = Idle, start' = "up",
             NEW p \in Packages, Due(p)
      PROVE  Found(p)
  <2>1. TasksKnow /\ Idle.op = "none"
    BY <1>3 DEF Sound, Known, Idle
  <2>2. ASSUME NEW u \in Tasks, Step(u) PROVE Found(p)
    <3>1. u = t
      BY <1>3, <2>1, <2>2, StepKeeps
    <3>2. QED
      BY <1>3, <2>2, <3>1, StepFinds DEF FindsAll
  <2>3. ~End
    BY <1>3 DEF End, EndProcess
  <2>4. ASSUME UNCHANGED task PROVE FALSE
    BY <1>3, <2>1, <2>4
  <2>5. ASSUME NEW u \in Tasks, Free(u) PROVE FALSE
    BY <1>3, <2>1, <2>5 DEF Free, Busy
  <2>6. QED
    BY <1>3, <2>2, <2>3, <2>4, <2>5 DEF Next, Start, Extract, Install, Scan, Uninstall
<1>4. IInv /\ [Next]_vars =>
        [\A t \in Tasks :
           task[t].op = "scan" /\ task'[t] = Idle /\ start' = "up" =>
             \A p \in Packages :
               \/ installed[p] # None
               \/ /\ Android /\ use.system[p] # Absent
                  /\ artifact[p] = Absent /\ p \notin LoadHidden
               => /\ Code(p) \in Versions
                  /\ Creates[p][Code(p)] \subseteq held]_vars
  BY <1>3 DEF Due, Found
<1>5. QED
  BY <1>1, <1>2, <1>4, PTL DEF Spec, ScanFindsInstalled
=============================================================================
