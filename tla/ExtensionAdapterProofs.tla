------------------------ MODULE ExtensionAdapterProofs ------------------------
(***************************************************************************)
(* The safety of ExtensionAdapter and of the settings it merges, for all   *)
(* extensions, versions, settings, objects and tasks.                      *)
(***************************************************************************)
EXTENDS ExtensionAdapter, FiniteSetTheorems, TLAPS

(* Settings.                                                                *)

\* A store maps settings to their values and defaults.
LEMMA StoreFacts ==
  /\ NoSettings \in Store /\ DOMAIN NoSettings = {}
  /\ \A store \in Store : /\ DOMAIN store \subseteq Settings
                          /\ store \in [DOMAIN store -> Setting]
  /\ \A known \in SUBSET Settings : \A store \in [known -> Setting] : store \in Store
<1>1. \A known \in SUBSET Settings : \A store \in [known -> Setting] : store \in Store
  BY DEF Store
<1>2. NoSettings \in [{} -> Setting] /\ DOMAIN NoSettings = {}
  BY DEF NoSettings
<1>3. \A store \in Store : DOMAIN store \subseteq Settings /\ store \in [DOMAIN store -> Setting]
  BY DEF Store
<1>4. QED
  BY <1>1, <1>2, <1>3

\* A definition that is merged has the value that was set, if its type is still
\* the same, and its own otherwise.
LEMMA Merged ==
  ASSUME NEW store \in Store, NEW s \in Settings, NEW definition \in Setting
  PROVE  /\ MergeDefinition(store, s, definition) \in Store
         /\ MergeDefinition(store, s, definition)[s] \in Setting
         /\ MergeDefinition(store, s, definition)[s].value =
              IF s \in DOMAIN store /\ store[s].value.type = definition.value.type
              THEN store[s].value ELSE definition.value
         /\ MergeDefinition(store, s, definition)[s].default = definition.default
<1> DEFINE carried == [definition EXCEPT !.value = Overwrite(@, store[s].value)]
           new == IF s \in DOMAIN store THEN carried ELSE definition
           m == MergeDefinition(store, s, definition)
<1>1. DOMAIN store \subseteq Settings /\ store \in [DOMAIN store -> Setting]
  BY StoreFacts
<1>2. /\ new \in Setting
      /\ new.value = IF s \in DOMAIN store /\ store[s].value.type = definition.value.type
                     THEN store[s].value ELSE definition.value
      /\ new.default = definition.default
  BY <1>1 DEF Setting, Overwrite
<1> HIDE DEF new
<1>3. m = [x \in DOMAIN store \cup {s} |-> IF x # s THEN store[x] ELSE new]
  BY DEF MergeDefinition, new
<1>4. m \in [DOMAIN store \cup {s} -> Setting] /\ m[s] = new
  BY <1>1, <1>2, <1>3
<1>5. m \in Store
  BY <1>1, <1>4, StoreFacts
<1>6. QED
  BY <1>2, <1>4, <1>5

\* The same for all definitions of a manifest; what it does not declare stays.
LEMMA MergedAll ==
  ASSUME NEW store \in Store, NEW definitions \in Store
  PROVE  LET m == MergeAll(store, definitions) IN
         /\ m \in Store /\ DOMAIN m = DOMAIN store \cup DOMAIN definitions
         /\ \A s \in DOMAIN store :
              m[s].value = IF s \in DOMAIN definitions
                              /\ definitions[s].value.type # store[s].value.type
                           THEN definitions[s].value ELSE store[s].value
<1> DEFINE m == MergeAll(store, definitions)
<1>1. /\ DOMAIN store \subseteq Settings /\ store \in [DOMAIN store -> Setting]
      /\ DOMAIN definitions \subseteq Settings /\ definitions \in [DOMAIN definitions -> Setting]
  BY StoreFacts
<1>2. ASSUME NEW s \in DOMAIN definitions
      PROVE  /\ MergeDefinition(store, s, definitions[s])[s] \in Setting
             /\ MergeDefinition(store, s, definitions[s])[s].value =
                  IF s \in DOMAIN store /\ store[s].value.type = definitions[s].value.type
                  THEN store[s].value ELSE definitions[s].value
  BY <1>1, Merged
<1>3. m = [s \in DOMAIN store \cup DOMAIN definitions |->
             IF s \in DOMAIN definitions THEN MergeDefinition(store, s, definitions[s])[s]
             ELSE store[s]]
  BY DEF MergeAll
<1> HIDE DEF m
<1>4. m \in [DOMAIN store \cup DOMAIN definitions -> Setting]
  BY <1>1, <1>2, <1>3
<1>5. m \in Store
  BY <1>1, <1>4, StoreFacts
<1>6. ASSUME NEW s \in DOMAIN store
      PROVE  m[s].value = IF s \in DOMAIN definitions
                              /\ definitions[s].value.type # store[s].value.type
                           THEN definitions[s].value ELSE store[s].value
  BY <1>2, <1>3
<1>7. QED
  BY <1>4, <1>5, <1>6 DEF m

\* Setting a value.
LEMMA SetType ==
  ASSUME NEW store \in Store, NEW s \in DOMAIN store, NEW value \in Values
  PROVE  SetSetting(store, s, value) \in Store
<1>1. DOMAIN store \subseteq Settings /\ store \in [DOMAIN store -> Setting]
  BY StoreFacts
<1>2. SetSetting(store, s, value) \in [DOMAIN store -> Setting]
  BY <1>1 DEF SetSetting, Setting
<1>3. QED
  BY <1>1, <1>2, StoreFacts

\* Storing a kind: its settings are the new ones, the others what they were.
LEMMA StoredKind ==
  ASSUME NEW store \in Store, NEW new \in Store, NEW kind
  PROVE  /\ StoreKind(store, new, kind) \in Store
         /\ \A s \in DOMAIN new : s[1] = kind =>
              /\ s \in DOMAIN StoreKind(store, new, kind)
              /\ StoreKind(store, new, kind)[s] = new[s]
         /\ \A s \in DOMAIN store : s[1] # kind =>
              /\ s \in DOMAIN StoreKind(store, new, kind)
              /\ StoreKind(store, new, kind)[s] = store[s]
<1> DEFINE known == {x \in DOMAIN new : x[1] = kind} \cup {x \in DOMAIN store : x[1] # kind}
<1>1. /\ DOMAIN store \subseteq Settings /\ store \in [DOMAIN store -> Setting]
      /\ DOMAIN new \subseteq Settings /\ new \in [DOMAIN new -> Setting]
  BY StoreFacts
<1>2. /\ known \subseteq Settings
      /\ \A s \in DOMAIN new : s[1] = kind => s \in known
      /\ \A s \in DOMAIN store : s[1] # kind => s \in known
      /\ \A s \in known : IF s[1] = kind THEN s \in DOMAIN new ELSE s \in DOMAIN store
  BY <1>1
<1>3. StoreKind(store, new, kind) = [s \in known |-> IF s[1] = kind THEN new[s] ELSE store[s]]
  BY DEF StoreKind
<1> HIDE DEF known
<1>4. StoreKind(store, new, kind) \in [known -> Setting]
  BY <1>1, <1>2, <1>3
<1>5. StoreKind(store, new, kind) \in Store
  BY <1>2, <1>4, StoreFacts
<1>6. QED
  BY <1>2, <1>3, <1>5

-----------------------------------------------------------------------------
(* Types, and what a task knows at each of its steps.                       *)

TaskKnows(x) ==
  /\ x.op = "none" => x = Idle
  /\ x.op = "install" =>
       /\ x.at \in {"create", "write", "write rest", "read", "open", "failed"}
       /\ x.name \in Names
       /\ x.at \in {"create", "write", "write rest"} => x.file \in Contents \cup {Empty}
       /\ x.at = "write rest" => x.file \in Contents
  /\ x.op = "scan" =>
       /\ x.at \in {"next", "read", "open"}
       /\ x.at \in {"read", "open"} => x.name \in Names
  /\ x.op = "uninstall" => x.at = "remove" /\ x.name \in Names /\ x.who \in Ids
  /\ x.op = "save" => x.at \in Kinds /\ x.who \in Ids
  /\ x.at = "open" => x.file \in Contents
  /\ x.linked => x.op = "install"

TasksKnow == task \in [Tasks -> TaskState] /\ \A t \in Tasks : TaskKnows(task[t])

\* A future that is not under way, and one that has returned.
LEMMA IdleKnows == Idle \in TaskState /\ TaskKnows(Idle)
BY StoreFacts DEF Idle, TaskState, TaskKnows

\* A step of one task leaves the others as they are.
LEMMA OneTask ==
  ASSUME TasksKnow, NEW t \in Tasks, NEW x \in TaskState, TaskKnows(x),
         task' = [task EXCEPT ![t] = x]
  PROVE  /\ TasksKnow'
         /\ task'[t] = x
         /\ \A u \in Tasks \ {t} : task'[u] = task[u]
<1>1. /\ task'[t] = x /\ \A u \in Tasks \ {t} : task'[u] = task[u]
      /\ task' \in [Tasks -> TaskState]
  BY DEF TasksKnow
<1>2. ASSUME NEW u \in Tasks PROVE TaskKnows(task[u])'
  <2>1. CASE u = t
    BY <1>1, <2>1 DEF TaskKnows
  <2>2. CASE u # t
    BY <1>1, <2>2 DEF TasksKnow, TaskKnows
  <2>3. QED
    BY <2>1, <2>2
<1>3. QED
  BY <1>1, <1>2 DEF TasksKnow

\* Which operation a step belongs to.
LEMMA StepsOf ==
  ASSUME TasksKnow, NEW t \in Tasks
  PROVE  /\ task[t] \in TaskState /\ TaskKnows(task[t])
         /\ task[t].at \in {"create", "write", "write rest", "failed"} => task[t].op = "install"
         /\ task[t].at = "next" => task[t].op = "scan"
         /\ task[t].at \in {"read", "open"} => task[t].op \in {"install", "scan"}
         /\ task[t].at = "remove" => task[t].op = "uninstall"
<1>1. task[t] \in TaskState /\ TaskKnows(task[t])
  BY DEF TasksKnow
<1>2. task[t].op \in {"none", "install", "scan", "uninstall", "save"}
  BY <1>1 DEF TaskState
<1>3. task[t].op = "none" => task[t].at = "idle"
  BY <1>1 DEF TaskKnows, Idle
<1>4. QED
  BY <1>1, <1>2, <1>3 DEF TaskKnows, Kinds

\* What is live is an object.
LEMMA LiveFacts == TypeOK => \A o \in Objects : o \in Live => object[o] \in Object
<1>1. NoObject.live = FALSE
  BY DEF NoObject
<1>2. QED
  BY <1>1 DEF TypeOK, Live

\* Initially nothing is under way.
LEMMA InitTypes == Init => TypeOK /\ TasksKnow
<1> SUFFICES ASSUME Init PROVE TypeOK /\ TasksKnow
  OBVIOUS
<1>1. use.dirs \subseteq [Names -> Whole \cup {Absent}]
  BY AdapterAssumption DEF Init, Usage
<1>2. dir \in [Names -> Contents \cup {Absent, Empty}]
  BY <1>1 DEF Init, Whole
<1>3. TasksKnow
  BY IdleKnows DEF Init, TasksKnow
<1>4. QED
  BY <1>2, <1>3, IdleKnows, StoreFacts DEF Init, TypeOK, Idle

FilesType ==
  /\ use \in Uses
  /\ dir \in [Names -> Contents \cup {Absent, Empty}]
  /\ cut \subseteq Names

DataType ==
  /\ object \in [Objects -> Object \cup {NoObject}]
  /\ persisted \in [Ids -> Store]
  /\ cookies \in [Ids -> 0 .. MaxCookies \cup {Absent, Torn}]

\* Each step leaves every task with what it needs.
LEMMA NextTasks == TypeOK /\ TasksKnow /\ [Next]_vars => TasksKnow'
<1> SUFFICES ASSUME TypeOK, TasksKnow, [Next]_vars PROVE TasksKnow'
  OBVIOUS
<1>0. /\ \A n \in Names : Readable(n) => dir[n] \in Contents
      /\ \A i \in Ids : NameOf[i] \in Names
      /\ use.installs \subseteq Whole
  BY AdapterAssumption DEF TypeOK, Readable, Usage
<1>1. ASSUME UNCHANGED task PROVE TasksKnow'
  BY <1>1 DEF TasksKnow, TaskKnows
<1>2. ASSUME NEW t \in Tasks, task' = [task EXCEPT ![t] = Idle] PROVE TasksKnow'
  BY <1>2, IdleKnows, OneTask
<1>3. CASE End
  BY <1>3, IdleKnows DEF End, TasksKnow, TaskKnows
<1>4. ASSUME NEW t \in Tasks, NEW r \in Contents, NEW what \in Contents \cup {Empty},
             Starts(t, r, what)
      PROVE  TasksKnow'
  <2> DEFINE x == [Idle EXCEPT !.op = "install", !.at = "create", !.name = NameOf[r.id],
                               !.file = what]
  <2>1. x \in TaskState /\ TaskKnows(x)
    <3>1. NameOf[r.id] \in Names
      BY <1>0 DEF Contents
    <3>2. QED
      BY <3>1, StoreFacts DEF Idle, TaskState, TaskKnows
  <2>2. task' = [task EXCEPT ![t] = x]
    BY <1>4 DEF Starts
  <2> HIDE DEF x
  <2>3. QED
    BY <2>1, <2>2, OneTask
<1>5. ASSUME NEW t \in Tasks, NEW r \in use.installs, Install(t, r) PROVE TasksKnow'
  BY <1>0, <1>4, <1>5 DEF Install, Whole
<1>6. ASSUME NEW t \in Tasks, NEW n \in Names, InstallCopy(t, n) PROVE TasksKnow'
  BY <1>0, <1>4, <1>6 DEF InstallCopy
<1>7. ASSUME NEW t \in Tasks, Scan(t) PROVE TasksKnow'
  <2> DEFINE x == [Idle EXCEPT !.op = "scan", !.at = "next", !.todo = {n \in Names : dir[n] # Absent}]
  <2>1. x \in TaskState /\ TaskKnows(x)
    BY StoreFacts DEF Idle, TaskState, TaskKnows
  <2>2. task' = [task EXCEPT ![t] = x]
    BY <1>7 DEF Scan
  <2> HIDE DEF x
  <2>3. QED
    BY <2>1, <2>2, OneTask
<1>8. ASSUME NEW t \in Tasks, NEW o \in Objects, Uninstall(t, o) PROVE TasksKnow'
  <2>1. o \in Live /\ object[o].id \in Ids
    BY <1>8, LiveFacts DEF Uninstall, Object
  <2>2. PICK n \in Names :
          task' = [task EXCEPT ![t] = [Idle EXCEPT !.op = "uninstall", !.at = "remove",
                                                   !.name = n, !.who = object[o].id]]
    BY <1>8 DEF Uninstall, Holding
  <2> DEFINE x == [Idle EXCEPT !.op = "uninstall", !.at = "remove", !.name = n, !.who = object[o].id]
  <2>3. x \in TaskState /\ TaskKnows(x)
    BY <2>1, StoreFacts DEF Idle, TaskState, TaskKnows
  <2> HIDE DEF x
  <2>4. QED
    BY <2>2, <2>3, OneTask DEF x
<1>9. ASSUME NEW t \in Tasks, NEW o \in Objects, Save(t, o) PROVE TasksKnow'
  <2>1. o \in Live /\ object[o].of \in Ids /\ object[o].settings \in Store
    BY <1>9, LiveFacts DEF Save, Object
  <2> DEFINE x == [Idle EXCEPT !.op = "save", !.at = "extension", !.who = object[o].of,
                               !.copy = object[o].settings]
  <2>2. x \in TaskState /\ TaskKnows(x)
    BY <2>1 DEF Idle, TaskState, TaskKnows, Kinds
  <2>3. task' = [task EXCEPT ![t] = x]
    BY <1>9 DEF Save
  <2> HIDE DEF x
  <2>4. QED
    BY <2>2, <2>3, OneTask
<1>10. ASSUME NEW t \in Tasks, NEW at, task' = [task EXCEPT ![t].at = at],
              \/ task[t].op = "install" /\ task[t].at # "create"
                   /\ at \in {"failed", "read"} \cup (IF task[t].file \in Contents THEN {"write rest"} ELSE {})
              \/ task[t].op = "scan" /\ at = "next"
              \/ task[t].op = "save" /\ at = "search"
       PROVE  TasksKnow'
  <2> DEFINE x == [task[t] EXCEPT !.at = at]
  <2>1. task[t] \in TaskState /\ TaskKnows(task[t])
    BY StepsOf
  <2>2. x \in TaskState
    BY <1>10, <2>1 DEF TaskState, Kinds
  <2>3. /\ x.op = task[t].op /\ x.at = at /\ x.name = task[t].name /\ x.file = task[t].file
        /\ x.linked = task[t].linked /\ x.who = task[t].who
    BY <2>1 DEF TaskState
  <2>4. TaskKnows(x)
    <3> HIDE DEF x
    <3>1. QED
      BY <1>10, <2>1, <2>3 DEF TaskKnows, Kinds
  <2>5. task' = [task EXCEPT ![t] = x]
    BY <1>10, <2>1
  <2> HIDE DEF x
  <2>6. QED
    BY <2>2, <2>4, <2>5, OneTask
<1>11. ASSUME NEW t \in Tasks, Step(t) PROVE TasksKnow'
  <2>0. task[t] \in TaskState /\ TaskKnows(task[t])
    BY StepsOf
  <2>1. CASE CreateFile(t)
    <3> DEFINE x == [task[t] EXCEPT !.at = "write", !.linked = TRUE]
    <3>1. task[t].op = "install" /\ task[t].at = "create"
      BY <2>1, StepsOf DEF CreateFile, At
    <3>2. x \in TaskState /\ TaskKnows(x)
      BY <2>0, <3>1 DEF TaskState, TaskKnows
    <3>3. task' = [task EXCEPT ![t] = x]
      BY <2>1, <2>0 DEF CreateFile
    <3> HIDE DEF x
    <3>4. QED
      BY <3>2, <3>3, OneTask
  <2>2. CASE WritePart(t)
    <3>1. task[t].op = "install" /\ task[t].at = "write" /\ task[t].file \in Contents
      BY <2>0, <2>2, StepsOf DEF WritePart, At, TaskKnows
    <3>2. QED
      BY <1>10, <2>2, <3>1 DEF WritePart, Goto
  <2>3. CASE WriteRest(t)
    <3>1. task[t].op = "install" /\ task[t].at # "create"
      BY <2>3, StepsOf DEF WriteRest, At
    <3>2. QED
      BY <1>10, <2>3, <3>1 DEF WriteRest, Goto
  <2>4. ASSUME Fails(t), task[t].at \in {"read", "open"} PROVE TasksKnow'
    <3>1. task[t].op \in {"install", "scan"} /\ task[t].at # "create"
      BY <2>4, StepsOf
    <3>2. QED
      BY <1>10, <2>4, <3>1 DEF Fails
  <2>5. CASE ReadExtension(t)
    <3>1. task[t].at = "read" /\ task[t].op \in {"install", "scan"} /\ task[t].name \in Names
      BY <2>0, <2>5, StepsOf DEF ReadExtension, At, TaskKnows
    <3>2. CASE Fails(t)
      BY <2>4, <3>1, <3>2
    <3>3. CASE /\ Readable(task[t].name)
               /\ task' = [task EXCEPT ![t].at = "open", ![t].file = dir[task[t].name]]
      <4> DEFINE x == [task[t] EXCEPT !.at = "open", !.file = dir[task[t].name]]
      <4>1. dir[task[t].name] \in Contents
        BY <1>0, <3>1, <3>3
      <4>2. x \in TaskState /\ TaskKnows(x)
        BY <2>0, <3>1, <4>1 DEF TaskState, TaskKnows
      <4>3. task' = [task EXCEPT ![t] = x]
        BY <2>0, <3>3
      <4> HIDE DEF x
      <4>4. QED
        BY <4>2, <4>3, OneTask
    <3>4. QED
      BY <2>5, <3>2, <3>3 DEF ReadExtension
  <2>6. CASE OpenExtension(t)
    <3>1. task[t].at = "open" /\ task[t].op \in {"install", "scan"}
      BY <2>6, StepsOf DEF OpenExtension, At
    <3>2. \/ Fails(t)
          \/ Ends(t)
          \/ task[t].op # "install" /\ Goto(t, "next")
      BY <2>6 DEF OpenExtension
    <3>3. QED
      BY <1>2, <1>10, <2>4, <3>1, <3>2 DEF Ends, Goto
  <2>7. ASSUME NEW n \in Names, RemoveFile(t, n) PROVE TasksKnow'
    <3>1. ASSUME NEW u \in Tasks
          PROVE  /\ task'[u] \in TaskState /\ TaskKnows(task[u])'
      <4>1. task[u] \in TaskState /\ TaskKnows(task[u])
        BY StepsOf
      <4>2. CASE task'[u] = Idle
        BY <4>2, IdleKnows DEF TaskKnows
      <4>3. CASE task[u].name = n /\ task'[u] = [task[u] EXCEPT !.linked = FALSE]
        <5> DEFINE x == [task[u] EXCEPT !.linked = FALSE]
        <5>1. /\ x \in TaskState /\ x.op = task[u].op /\ x.at = task[u].at
              /\ x.name = task[u].name /\ x.file = task[u].file /\ x.who = task[u].who
              /\ x.linked = FALSE
          BY <4>1 DEF TaskState
        <5>2. task[u].op # "none"
          <6>1. Idle.name = None
            BY DEF Idle
          <6>2. task[u].op = "none" => task[u] = Idle
            BY <4>1 DEF TaskKnows
          <6>3. QED
            BY <4>3, <6>1, <6>2, AdapterAssumption
        <5> HIDE DEF x
        <5>3. TaskKnows(x)
          BY <4>1, <5>1, <5>2 DEF TaskKnows
        <5>4. task'[u] = x
          BY <4>3 DEF x
        <5>5. QED
          BY <5>1, <5>3, <5>4 DEF TaskKnows
      <4>4. CASE task'[u] = task[u]
        BY <4>1, <4>4 DEF TaskKnows
      <4>5. QED
        BY <2>7, <4>2, <4>3, <4>4 DEF RemoveFile
    <3>2. task' = [u \in Tasks |-> task'[u]]
      BY <2>7 DEF RemoveFile
    <3>3. QED
      BY <3>1, <3>2 DEF TasksKnow
  <2>8. CASE RemoveFailed(t) \/ RemoveUninstalled(t)
    <3>1. task[t].name \in Names
      BY <2>0, <2>8, StepsOf DEF RemoveFailed, RemoveUninstalled, At, TaskKnows
    <3>2. QED
      BY <2>7, <2>8, <3>1 DEF RemoveFailed, RemoveUninstalled
  <2>9. CASE ScanNext(t)
    <3>1. task[t].op = "scan"
      BY <2>9, StepsOf DEF ScanNext, At
    <3>2. ASSUME NEW n \in task[t].todo,
                 task' = [task EXCEPT ![t].at = "read", ![t].name = n, ![t].todo = @ \ {n}]
          PROVE  TasksKnow'
      <4> DEFINE x == [task[t] EXCEPT !.at = "read", !.name = n, !.todo = @ \ {n}]
      <4>1. n \in Names
        BY <2>0 DEF TaskState
      <4>2. x \in TaskState /\ TaskKnows(x)
        BY <2>0, <3>1, <4>1 DEF TaskState, TaskKnows
      <4>3. task' = [task EXCEPT ![t] = x]
        BY <2>0, <3>2
      <4> HIDE DEF x
      <4>4. QED
        BY <4>2, <4>3, OneTask
    <3>3. QED
      BY <1>2, <2>9, <3>2 DEF ScanNext, Ends
  <2>10. ASSUME NEW kind \in Kinds, SaveKind(t, kind) PROVE TasksKnow'
    BY <1>2, <1>10, <2>10 DEF SaveKind, Goto, Ends
  <2>11. CASE WriteFails(t) \/ RemoveFails(t) \/ SaveFails(t)
    BY <1>2, <2>11 DEF WriteFails, RemoveFails, SaveFails, CutShort, Ends
  <2>12. QED
    BY <1>11, <2>1, <2>2, <2>3, <2>5, <2>6, <2>8, <2>9, <2>10, <2>11 DEF Step
<1>12. ASSUME NEW o, NEW s, NEW settings, Change(o, s, settings) PROVE UNCHANGED task
  BY <1>12, Zenon DEF Change
<1>13. QED
  BY <1>1, <1>3, <1>5, <1>6, <1>7, <1>8, <1>9, <1>11, <1>12
     DEF Next, Set, RegisterSetting, Reload, Fetched, WriteCookies, IntervalPasses, Drop, vars

\* Files have contents, or are empty while they are written.
LEMMA NextFiles == TypeOK /\ TasksKnow /\ [Next]_vars => FilesType'
<1> SUFFICES ASSUME TypeOK, TasksKnow, [Next]_vars PROVE FilesType'
  OBVIOUS
<1>0. FilesType
  BY DEF TypeOK, FilesType
<1>1. ASSUME UNCHANGED << use, dir, cut >> PROVE FilesType'
  BY <1>0, <1>1 DEF FilesType
<1>2. CASE End
  BY <1>0, <1>2 DEF End, FilesType
<1>3. ASSUME NEW t \in Tasks, Step(t) PROVE FilesType'
  <2>0. task[t] \in TaskState /\ TaskKnows(task[t])
    BY StepsOf
  <2>1. CASE CreateFile(t)
    BY <1>0, <2>1 DEF CreateFile, FilesType
  <2>2. ASSUME NEW content \in Contents \cup {Empty}, Write(t, content) PROVE FilesType'
    BY <1>0, <2>2 DEF Write, FilesType
  <2>3. CASE WritePart(t) \/ WriteRest(t)
    <3>1. task[t].op = "install" /\ task[t].file \in Contents \cup {Empty}
      BY <2>0, <2>3, StepsOf DEF WritePart, WriteRest, At, TaskKnows
    <3>2. task[t].file \in Contents => [task[t].file EXCEPT !.whole = FALSE] \in Contents
      BY DEF Contents
    <3>3. QED
      BY <2>2, <2>3, <3>1, <3>2 DEF WritePart, WriteRest
  <2>4. CASE RemoveFailed(t) \/ RemoveUninstalled(t)
    BY <1>0, <2>4 DEF RemoveFailed, RemoveUninstalled, RemoveFile, FilesType
  <2>5. CASE WriteFails(t) \/ RemoveFails(t)
    <3>1. task[t].name \in Names
      BY <2>0, <2>5, StepsOf DEF WriteFails, RemoveFails, At, TaskKnows
    <3>2. QED
      BY <1>0, <2>5, <3>1 DEF WriteFails, RemoveFails, CutShort, FilesType
  <2>6. QED
    BY <1>1, <1>3, <2>1, <2>3, <2>4, <2>5
       DEF Step, ReadExtension, OpenExtension, ScanNext, SaveKind, SaveFails
<1>4. ASSUME NEW o, NEW s, NEW settings, Change(o, s, settings) PROVE UNCHANGED << use, dir, cut >>
  BY <1>4, Zenon DEF Change
<1>5. QED
  BY <1>1, <1>2, <1>3, <1>4
     DEF Next, Install, InstallCopy, Starts, Scan, Uninstall, Save, Set, RegisterSetting,
         Reload, Fetched, WriteCookies, IntervalPasses, Drop, vars

\* Whatever a load brings is a store.
LEMMA LoadsStores ==
  ASSUME persisted \in [Ids -> Store], NEW i \in Ids
  PROVE  Loads(i) \subseteq Store
<1>1. persisted[i] \in Store /\ NoSettings \in Store
  BY StoreFacts
<1>2. StoreKind(NoSettings, persisted[i], "extension") \in Store
  BY <1>1, StoredKind
<1>3. QED
  BY <1>1, <1>2 DEF Loads

\* Objects have settings and a jar that can be stored, and stored ones load.
LEMMA NextData == TypeOK /\ TasksKnow /\ [Next]_vars => DataType'
<1> SUFFICES ASSUME TypeOK, TasksKnow, [Next]_vars PROVE DataType'
  OBVIOUS
<1>0. DataType /\ \A o \in Live : object[o] \in Object
  BY LiveFacts DEF TypeOK, DataType, Live
<1>1. ASSUME UNCHANGED << object, persisted, cookies >> PROVE DataType'
  BY <1>0, <1>1 DEF DataType
<1>2. ASSUME NEW o \in Objects, NEW x \in Object \cup {NoObject},
             object' = [object EXCEPT ![o] = x], UNCHANGED persisted,
             cookies' \in [Ids -> 0 .. MaxCookies \cup {Absent, Torn}]
      PROVE  DataType'
  BY <1>0, <1>2 DEF DataType
<1>3. CASE End
  BY <1>0, <1>3 DEF End, DataType
<1>4. ASSUME NEW o \in Objects, NEW settings \in Store, NEW s, o \in Live,
             Change(o, s, settings)
      PROVE  DataType'
  <2>1. [object[o] EXCEPT !.settings = settings, !.settled = FALSE] \in Object
    BY <1>0, <1>4 DEF Object
  <2>2. /\ object' = [object EXCEPT ![o] = [object[o] EXCEPT !.settings = settings, !.settled = FALSE]]
        /\ UNCHANGED << persisted, cookies >>
    BY <1>0, <1>4 DEF Change, DataType
  <2>3. QED
    BY <1>0, <1>2, <2>1, <2>2 DEF DataType
<1>5. ASSUME NEW o \in Objects, NEW s \in Settings, NEW v \in Values, Set(o, s, v)
      PROVE  DataType'
  <2>1. o \in Live /\ object[o].settings \in Store /\ s \in DOMAIN object[o].settings
    BY <1>0, <1>5 DEF Set, Object
  <2>2. SetSetting(object[o].settings, s, v) \in Store
    BY <2>1, SetType
  <2>3. QED
    BY <1>4, <1>5, <2>1, <2>2 DEF Set
<1>6. ASSUME NEW o \in Objects, NEW s \in Settings, NEW version \in Versions,
             RegisterSetting(o, s, version)
      PROVE  DataType'
  <2>1. o \in Live /\ object[o].settings \in Store /\ s \in DOMAIN Declares[version]
    BY <1>0, <1>6 DEF RegisterSetting, Object
  <2>2. Declares[version] \in Store
    BY AdapterAssumption
  <2>3. Declares[version][s] \in Setting
    BY <2>1, <2>2, StoreFacts
  <2>4. MergeDefinition(object[o].settings, s, Declares[version][s]) \in Store
    BY <2>1, <2>3, Merged
  <2>5. QED
    BY <1>4, <1>6, <2>1, <2>4 DEF RegisterSetting
<1>7. ASSUME NEW t \in Tasks, NEW o \in Objects, Save(t, o) PROVE DataType'
  <2>1. \A x \in Live : \A b \in BOOLEAN : [object[x] EXCEPT !.settled = b] \in Object
    BY <1>0 DEF Object
  <2>2. /\ object' = [x \in Objects |->
                        IF x \in Live /\ object[x].of = object[o].of
                        THEN [object[x] EXCEPT !.settled = (x = o)] ELSE object[x]]
        /\ UNCHANGED << persisted, cookies >>
    BY <1>7 DEF Save
  <2>3. object' \in [Objects -> Object \cup {NoObject}]
    <3>1. ASSUME NEW x \in Objects PROVE object'[x] \in Object \cup {NoObject}
      <4>1. CASE x \in Live /\ object[x].of = object[o].of
        <5>1. object'[x] = [object[x] EXCEPT !.settled = (x = o)] /\ (x = o) \in BOOLEAN
          BY <2>2, <4>1
        <5>2. QED
          BY <2>1, <4>1, <5>1
      <4>2. CASE ~(x \in Live /\ object[x].of = object[o].of)
        BY <1>0, <2>2, <4>2 DEF DataType
      <4>3. QED
        BY <4>1, <4>2
    <3>2. object' = [x \in Objects |-> object'[x]]
      BY <2>2
    <3>3. QED
      BY <3>1, <3>2
  <2>4. QED
    BY <1>0, <2>2, <2>3 DEF DataType
<1>8. ASSUME NEW o \in Objects, Reload(o) PROVE DataType'
  <2>1. o \in Live /\ dir[object[o].name] \in Contents
    BY <1>0, <1>8 DEF Reload, Readable, TypeOK, Object
  <2> DEFINE x == [object[o] EXCEPT !.id = dir[object[o].name].id,
                                    !.version = dir[object[o].name].version]
  <2>2. x \in Object
    BY <1>0, <2>1 DEF Object, Contents
  <2>3. object' = [object EXCEPT ![o] = x] /\ UNCHANGED << persisted, cookies >>
    BY <1>0, <1>8 DEF Reload, DataType
  <2> HIDE DEF x
  <2>4. QED
    BY <1>0, <1>2, <2>2, <2>3 DEF DataType
<1>9. ASSUME NEW o \in Objects, Fetched(o) PROVE DataType'
  <2>1. o \in Live /\ object[o] \in Object /\ object[o].of \in Ids
    BY <1>0, <1>9 DEF Fetched, Object
  <2>2. PICK jar \in 0 .. MaxCookies :
          object' = [object EXCEPT ![o].jar = jar, ![o].recent = TRUE,
                                   ![o].saving = ~object[o].recent]
    BY <1>9 DEF Fetched
  <2> DEFINE x == [object[o] EXCEPT !.jar = jar, !.recent = TRUE, !.saving = ~object[o].recent]
  <2>3. x \in Object
    BY <2>1 DEF Object
  <2>4. object' = [object EXCEPT ![o] = x]
    BY <1>0, <2>2 DEF DataType
  <2>5. UNCHANGED persisted /\ cookies' \in [Ids -> 0 .. MaxCookies \cup {Absent, Torn}]
    BY <1>0, <1>9, <2>1 DEF Fetched, DataType
  <2> HIDE DEF x
  <2>6. QED
    BY <1>2, <2>3, <2>4, <2>5
<1>10. ASSUME NEW o \in Objects, WriteCookies(o) PROVE DataType'
  <2>1. o \in Live /\ object[o] \in Object /\ object[o].of \in Ids /\ object[o].jar \in 0 .. MaxCookies
    BY <1>0, <1>10 DEF WriteCookies, Object
  <2> DEFINE x == [object[o] EXCEPT !.saving = FALSE]
  <2>2. x \in Object
    BY <2>1 DEF Object
  <2>3. object' = [object EXCEPT ![o] = x] /\ UNCHANGED persisted
    BY <1>0, <1>10 DEF WriteCookies, DataType
  <2>4. \E content \in {object[o].jar, Torn} : cookies' = [cookies EXCEPT ![object[o].of] = content]
    BY <1>10 DEF WriteCookies
  <2>5. cookies' \in [Ids -> 0 .. MaxCookies \cup {Absent, Torn}]
    BY <1>0, <2>1, <2>4 DEF DataType
  <2> HIDE DEF x
  <2>6. QED
    BY <1>2, <2>2, <2>3, <2>5
<1>11. ASSUME NEW o \in Objects, IntervalPasses(o) PROVE DataType'
  <2>1. o \in Live /\ object[o] \in Object
    BY <1>0, <1>11 DEF IntervalPasses
  <2> DEFINE x == [object[o] EXCEPT !.recent = FALSE]
  <2>2. x \in Object
    BY <2>1 DEF Object
  <2>3. object' = [object EXCEPT ![o] = x] /\ UNCHANGED << persisted, cookies >>
    BY <1>0, <1>11 DEF IntervalPasses, DataType
  <2> HIDE DEF x
  <2>4. QED
    BY <1>0, <1>2, <2>2, <2>3 DEF DataType
<1>12. ASSUME NEW o \in Objects, Drop(o) PROVE DataType'
  BY <1>0, <1>2, <1>12 DEF Drop, DataType
<1>13. ASSUME NEW t \in Tasks, Step(t) PROVE DataType'
  <2>0. task[t] \in TaskState /\ TaskKnows(task[t])
    BY StepsOf
  <2>1. CASE OpenExtension(t)
    <3> DEFINE file == task[t].file
    <3>1. file.id \in Ids /\ file.version \in Versions /\ task[t].name \in Names
      <4>1. file \in Contents /\ task[t].name \in Names
        BY <2>0, <2>1, StepsOf DEF OpenExtension, At, TaskKnows
      <4>2. QED
        BY <4>1 DEF Contents
    <3>2. \A loaded \in Loads(file.id) : MergeAll(loaded, Declares[file.version]) \in Store
      <4>1. Loads(file.id) \subseteq Store /\ Declares[file.version] \in Store
        BY <1>0, <3>1, LoadsStores, AdapterAssumption DEF DataType
      <4>2. QED
        BY <4>1, MergedAll
    <3>3. Loadable(file.id, file.version) => JarOf(file.id) \in 0 .. MaxCookies
      BY <1>0, <3>1, AdapterAssumption DEF Loadable, JarOf, DataType
    <3> DEFINE x(loaded) ==
                 [live |-> TRUE, of |-> file.id, id |-> file.id, version |-> file.version,
                  name |-> task[t].name, settings |-> MergeAll(loaded, Declares[file.version]),
                  settled |-> FALSE, jar |-> JarOf(file.id), recent |-> TRUE, saving |-> FALSE]
    <3>4. /\ \/ UNCHANGED object
             \/ \E o \in Objects : \E loaded \in Loads(file.id) :
                  Loadable(file.id, file.version) /\ object' = [object EXCEPT ![o] = x(loaded)]
          /\ UNCHANGED << persisted, cookies >>
      BY <2>1 DEF OpenExtension
    <3>5. Loadable(file.id, file.version) => \A loaded \in Loads(file.id) : x(loaded) \in Object
      <4> HIDE DEF file
      <4>1. QED
        BY <3>1, <3>2, <3>3 DEF Object
    <3> HIDE DEF x
    <3>6. QED
      BY <1>0, <1>1, <1>2, <3>4, <3>5 DEF DataType
  <2>2. ASSUME NEW kind \in Kinds, SaveKind(t, kind) PROVE DataType'
    <3>1. task[t].who \in Ids /\ task[t].copy \in Store
      BY <2>0, <2>2 DEF SaveKind, TaskKnows, TaskState
    <3>2. persisted[task[t].who] \in Store
      BY <1>0, <3>1 DEF DataType
    <3>3. StoreKind(persisted[task[t].who], task[t].copy, kind) \in Store
      BY <3>1, <3>2, StoredKind
    <3>4. QED
      BY <1>0, <2>2, <3>1, <3>3 DEF SaveKind, DataType
  <2>3. CASE SaveFails(t)
    <3>1. object' \in [Objects -> Object \cup {NoObject}]
      <4>1. \A o \in Live : [object[o] EXCEPT !.settled = FALSE] \in Object
        BY <1>0 DEF Object
      <4>2. QED
        BY <1>0, <2>3, <4>1 DEF SaveFails, DataType
    <3>2. QED
      BY <1>0, <2>3, <3>1 DEF SaveFails, DataType
  <2>4. QED
    BY <1>1, <1>13, <2>1, <2>2, <2>3
       DEF Step, CreateFile, WritePart, WriteRest, Write, WriteFails, CutShort, ReadExtension,
           RemoveFailed, RemoveFile, RemoveUninstalled, RemoveFails, ScanNext
<1>14. QED
  BY <1>1, <1>3, <1>5, <1>6, <1>7, <1>8, <1>9, <1>10, <1>11, <1>12, <1>13
     DEF Next, Install, InstallCopy, Starts, Scan, Uninstall, vars

\* What is excused is a setting of an extension.
LEMMA NextExcused ==
  TypeOK /\ TasksKnow /\ [Next]_vars => excused' \subseteq Ids \X Settings
<1> SUFFICES ASSUME TypeOK, TasksKnow, [Next]_vars PROVE excused' \subseteq Ids \X Settings
  OBVIOUS
<1>0. /\ excused \subseteq Ids \X Settings /\ persisted \in [Ids -> Store]
      /\ \A o \in Live : object[o].of \in Ids
  BY LiveFacts DEF TypeOK, Live, Object
<1>1. ASSUME UNCHANGED excused PROVE excused' \subseteq Ids \X Settings
  BY <1>0, <1>1
<1>2. ASSUME NEW o \in Objects, NEW s \in Settings, NEW settings, o \in Live,
             Change(o, s, settings)
      PROVE  excused' \subseteq Ids \X Settings
  BY <1>0, <1>2 DEF Change
<1>3. ASSUME NEW t \in Tasks, OpenExtension(t) PROVE excused' \subseteq Ids \X Settings
  <2>1. task[t].file.id \in Ids
    BY <1>3, StepsOf DEF OpenExtension, At, TaskKnows, Contents
  <2>2. DOMAIN persisted[task[t].file.id] \subseteq Settings
    BY <1>0, <2>1, StoreFacts
  <2>3. \/ UNCHANGED excused
        \/ \E some \in SUBSET DOMAIN persisted[task[t].file.id] :
             excused' = excused \cup ({task[t].file.id} \X some)
    BY <1>3 DEF OpenExtension, NotTaken
  <2>4. QED
    BY <1>0, <2>1, <2>2, <2>3
<1>4. ASSUME NEW t \in Tasks, NEW kind \in Kinds, SaveKind(t, kind)
      PROVE  excused' \subseteq Ids \X Settings
  <2>1. task[t].who \in Ids /\ task[t].copy \in Store
    BY <1>4, StepsOf DEF SaveKind, TaskKnows, TaskState
  <2>2. DOMAIN task[t].copy \subseteq Settings
    BY <2>1, StoreFacts
  <2>3. \E some \in SUBSET DOMAIN task[t].copy :
          excused' = excused \cup ({task[t].who} \X some)
    BY <1>4 DEF SaveKind, NewToSome
  <2>4. QED
    BY <1>0, <2>1, <2>2, <2>3
<1>5. CASE End
  BY <1>5 DEF End
<1>6. ASSUME NEW t \in Tasks, Step(t) PROVE excused' \subseteq Ids \X Settings
  BY <1>1, <1>3, <1>4, <1>6
     DEF Step, CreateFile, WritePart, WriteRest, Write, WriteFails, CutShort, ReadExtension,
         RemoveFailed, RemoveFile, RemoveUninstalled, RemoveFails, ScanNext, SaveFails
<1>7. QED
  BY <1>1, <1>2, <1>5, <1>6
     DEF Next, Install, InstallCopy, Starts, Scan, Uninstall, Save, Set, RegisterSetting,
         Reload, Fetched, WriteCookies, IntervalPasses, Drop, vars

\* Each step keeps the types.
LEMMA NextTypes == TypeOK /\ TasksKnow /\ [Next]_vars => TypeOK' /\ TasksKnow'
<1>1. FilesType' /\ DataType' /\ TasksKnow' /\ excused' \subseteq Ids \X Settings => TypeOK'
  <2>1. TasksKnow' => \A t \in Tasks :
          /\ task'[t].at \in {"create", "write", "write rest", "read", "open", "failed", "remove"}
               => task'[t].name \in Names
          /\ task'[t].linked => task'[t].op = "install"
    <3> SUFFICES ASSUME TasksKnow', NEW t \in Tasks
                 PROVE  /\ task'[t].at \in {"create", "write", "write rest", "read", "open",
                                            "failed", "remove"} => task'[t].name \in Names
                        /\ task'[t].linked => task'[t].op = "install"
      OBVIOUS
    <3>1. TaskKnows(task[t])' /\ task'[t] \in TaskState
      BY DEF TasksKnow
    <3>2. task'[t].op \in {"none", "install", "scan", "uninstall", "save"}
      BY <3>1 DEF TaskState
    <3>3. task'[t].op = "none" => task'[t].at = "idle"
      BY <3>1 DEF TaskKnows, Idle
    <3>4. QED
      BY <3>1, <3>2, <3>3 DEF TaskKnows, Kinds
  <2>2. QED
    BY <2>1 DEF TypeOK, FilesType, DataType, TasksKnow
<1>2. QED
  BY <1>1, NextTasks, NextFiles, NextData, NextExcused

\* The type invariant: whatever overlaps and whenever the process ends, files,
\* objects, cookies and settings are such that they can be read again.
THEOREM AdapterTypeCorrect == Spec => []TypeOK
BY InitTypes, NextTypes, PTL DEF Spec

-----------------------------------------------------------------------------
(* Files.  What an install finds in its file is what it has written, or     *)
(* nothing where the file was removed meanwhile: no other install writes to *)
(* the file, and only installs write at all.                                *)

NamedFor(n) == {c \in Whole : NameOf[c.id] = n}

\* What WritePart writes.
PartOf(content) == [content EXCEPT !.whole = FALSE]

\* What an install has left in its file so far.
Leaves(x) ==
  x.op = "install" =>
    /\ x.at \in {"create", "write", "write rest"} => x.file \in NamedFor(x.name) \cup {Empty}
    /\ x.at = "write" => dir[x.name] = IF x.linked THEN Empty ELSE Absent
    /\ x.at = "write rest" =>
         dir[x.name] = IF x.linked THEN PartOf(x.file) ELSE Absent
    /\ x.at \in {"read", "failed"} => dir[x.name] \in NamedFor(x.name) \cup {Absent, Empty}
    /\ x.at = "open" => dir[x.name] \in {x.file, Absent} /\ x.file \in NamedFor(x.name)
    /\ x.at = "failed" /\ Readable(x.name) =>
         dir[x.name].version \in Unloadable \/ Does("fetch")

\* What is damaged is being written, was cut off, and has the name of its id.
DirectoryKept ==
  /\ \A t, u \in Tasks :
       task[t].op = "install" /\ task[u].op = "install" /\ task[t].name = task[u].name => t = u
  /\ \A t \in Tasks : Leaves(task[t])
  /\ \A n \in Names : dir[n] \in Contents /\ ~dir[n].whole => NameOf[dir[n].id] = n
  /\ \A i \in Ids : cookies[i] = Torn => Does("fetch")
  /\ DamagedFilesAreBeingWritten

(* A file that has the canonical name of another id is overwritten when that *)
(* id is installed; an application that overlaps operations has none.        *)
Canonical(d) ==
  \A n \in Names : d[n] \in Contents => NameOf[d[n].id] = n \/ \A i \in Ids : NameOf[i] # n

RenamedAreAlone == \A u \in Uses : u.tasks = 1 \/ \A d \in u.dirs : Canonical(d)

\* What uninstall is about to remove is still a file of its extension.
RemovesItsFile(x) ==
  x.op = "uninstall" =>
    /\ Readable(x.name) => dir[x.name].id = x.who
    /\ use.tasks = 1 \/ NameOf[x.who] = x.name \/ \A i \in Ids : NameOf[i] # x.name

\* Where the application does one thing at a time it does one thing at a time.
OneAtATime ==
  use.tasks = 1 => \A t, u \in Tasks : task[t].op # "none" /\ task[u].op # "none" => t = u

FilesKept ==
  /\ use.tasks = 1 \/ Canonical(dir)
  /\ OneAtATime
  /\ \A t \in Tasks : RemovesItsFile(task[t])

\* Initially nothing is being written, and what is there is whole.
LEMMA InitFiles == Init => DirectoryKept
<1> SUFFICES ASSUME Init PROVE DirectoryKept
  OBVIOUS
<1>1. \A t \in Tasks : task[t].op = "none"
  BY DEF Init, Idle
<1>2. use.dirs \subseteq [Names -> Whole \cup {Absent}]
  BY AdapterAssumption DEF Init, Usage
<1>3. \A n \in Names : dir[n] \in Whole \cup {Absent}
  BY <1>2 DEF Init
<1>4. \A n \in Names : ~Damaged(n)
  BY <1>3, AdapterAssumption DEF Damaged, Whole
<1>5. \A n \in Names : dir[n] \in Contents => dir[n].whole
  BY <1>3, AdapterAssumption DEF Whole
<1>6. \A i \in Ids : cookies[i] # Torn
  BY AdapterAssumption DEF Init
<1>7. QED
  BY <1>1, <1>4, <1>5, <1>6 DEF DirectoryKept, Leaves, DamagedFilesAreBeingWritten

\* A step that leaves the files and the installs alone keeps the directory.
LEMMA QuietStep ==
  ASSUME DirectoryKept, UNCHANGED << use, dir >>, cut \subseteq cut',
         \A t \in Tasks : task[t].op = "install" \/ task'[t].op = "install" => task'[t] = task[t],
         \A i \in Ids : cookies'[i] = Torn => cookies[i] = Torn \/ Does("fetch")
  PROVE  DirectoryKept'
<1>1. \A t \in Tasks : Leaves(task[t])'
  BY DEF DirectoryKept, Leaves, Readable, Does
<1>2. \A n \in Names : Installing(n)' = Installing(n) /\ (Damaged(n)' <=> Damaged(n))
  BY DEF Installing, Damaged
<1>3. DamagedFilesAreBeingWritten'
  BY <1>2 DEF DirectoryKept, DamagedFilesAreBeingWritten
<1>4. QED
  BY <1>1, <1>3 DEF DirectoryKept, Does

\* A step of an install changes only its own file, which is not damaged when the
\* install ends, unless that was cut short.
LEMMA InstallStep ==
  ASSUME DirectoryKept, TasksKnow, UNCHANGED << use, cookies >>,
         NEW t \in Tasks, task[t].op = "install",
         \A u \in Tasks \ {t} : task'[u] = task[u],
         \A n \in Names \ {task[t].name} : dir'[n] = dir[n] /\ (n \in cut => n \in cut'),
         \/ task'[t].op = "install" /\ task'[t].name = task[t].name /\ Leaves(task[t])'
         \/ /\ task'[t].op = "none" /\ dir'[task[t].name] = dir[task[t].name]
            /\ Damaged(task[t].name) => task[t].name \in cut',
         dir'[task[t].name] \in Contents /\ ~dir'[task[t].name].whole
           => NameOf[dir'[task[t].name].id] = task[t].name
  PROVE  DirectoryKept'
<1> DEFINE p == task[t].name
<1>0. p \in Names /\ \A u \in Tasks : task[u].op = "install" => task[u].name \in Names
  BY StepsOf DEF TaskKnows
<1>1. \A u, v \in Tasks :
        task'[u].op = "install" /\ task'[v].op = "install" /\ task'[u].name = task'[v].name => u = v
  BY DEF DirectoryKept
<1>2. ASSUME NEW u \in Tasks PROVE Leaves(task[u])'
  <2>1. CASE u = t
    BY <2>1 DEF Leaves
  <2>2. CASE u # t /\ task[u].op = "install"
    <3>1. task'[u] = task[u] /\ dir'[task[u].name] = dir[task[u].name]
      BY <1>0, <2>2 DEF DirectoryKept
    <3>2. Leaves(task[u])
      BY DEF DirectoryKept
    <3>3. QED
      BY <3>1, <3>2 DEF Leaves, Readable, Does
  <2>3. CASE u # t /\ task[u].op # "install"
    BY <2>3 DEF Leaves
  <2>4. QED
    BY <2>1, <2>2, <2>3
<1>3. ASSUME NEW n \in Names, Damaged(n)' PROVE n \in cut' \/ Installing(n)' # {}
  <2>1. CASE n = p
    <3>1. \/ task'[t].op = "install" /\ task'[t].name = n
          \/ n \in cut'
      BY <1>3, <2>1 DEF Damaged
    <3>2. QED
      BY <3>1 DEF Installing
  <2>2. CASE n # p
    <3>1. n \in cut \/ Installing(n) # {}
      BY <1>3, <2>2 DEF Damaged, DirectoryKept, DamagedFilesAreBeingWritten
    <3>2. Installing(n) \subseteq Installing(n)'
      BY <2>2 DEF Installing
    <3>3. QED
      BY <2>2, <3>1, <3>2
  <2>3. QED
    BY <2>1, <2>2
<1>4. \A n \in Names : dir'[n] \in Contents /\ ~dir'[n].whole => NameOf[dir'[n].id] = n
  BY DEF DirectoryKept
<1>5. QED
  BY <1>1, <1>2, <1>3, <1>4 DEF DirectoryKept, DamagedFilesAreBeingWritten, Does

\* Removing a file takes the others' ground away, and clears up.
LEMMA RemoveStep ==
  ASSUME DirectoryKept, TypeOK, TasksKnow, NEW t \in Tasks, NEW n \in Names, RemoveFile(t, n),
         task[t].name = n
  PROVE  DirectoryKept'
<1>1. /\ dir' = [dir EXCEPT ![n] = Absent] /\ cut' = cut \ {n}
      /\ UNCHANGED << use, cookies >>
      /\ task'[t] = Idle
      /\ \A u \in Tasks \ {t} : task'[u] = IF task[u].name = n THEN [task[u] EXCEPT !.linked = FALSE]
                                           ELSE task[u]
  BY DEF RemoveFile
<1>2. /\ dir'[n] = Absent /\ \A m \in Names \ {n} : dir'[m] = dir[m]
  BY <1>1 DEF TypeOK
<1>3. \A u \in Tasks \ {t} : LET x == task[u] y == task'[u] IN
        /\ y.op = x.op /\ y.at = x.at /\ y.name = x.name /\ y.file = x.file
        /\ IF x.name = n THEN y.linked = FALSE ELSE y = x
  BY <1>1, StepsOf DEF TaskState
<1>4. task'[t].op = "none"
  BY <1>1 DEF Idle
<1>5. \A u, v \in Tasks :
        task'[u].op = "install" /\ task'[v].op = "install" /\ task'[u].name = task'[v].name => u = v
  BY <1>3, <1>4 DEF DirectoryKept
<1>6. ASSUME NEW u \in Tasks PROVE Leaves(task[u])'
  <2>1. CASE u = t
    BY <1>4, <2>1 DEF Leaves
  <2>2. CASE u # t /\ task[u].name = n
    <3>1. task'[u].linked = FALSE /\ dir'[task'[u].name] = Absent
      BY <1>2, <1>3, <2>2
    <3>2. task[u].op = "install" =>
            /\ task[u].at \in {"create", "write", "write rest"} => task[u].file \in NamedFor(n) \cup {Empty}
            /\ task[u].at = "open" => task[u].file \in NamedFor(n)
      BY <2>2 DEF DirectoryKept, Leaves
    <3>3. ~Readable(task[u].name)'
      BY <3>1 DEF Readable
    <3>4. /\ task'[u].op = task[u].op /\ task'[u].at = task[u].at /\ task'[u].name = n
          /\ task'[u].file = task[u].file
      BY <1>3, <2>2
    <3>5. QED
      BY <3>1, <3>2, <3>3, <3>4 DEF Leaves
  <2>3. CASE u # t /\ task[u].op = "install" /\ task[u].name # n
    <3>1. task'[u] = task[u] /\ task[u].name \in Names
      BY <1>3, <2>3, StepsOf DEF TaskKnows
    <3>2. dir'[task[u].name] = dir[task[u].name]
      BY <1>2, <2>3, <3>1
    <3>3. QED
      BY <1>1, <3>1, <3>2 DEF DirectoryKept, Leaves, Readable, Does
  <2>4. CASE u # t /\ task[u].op # "install"
    BY <1>3, <2>4 DEF Leaves
  <2>5. QED
    BY <2>1, <2>2, <2>3, <2>4
<1>7. ASSUME NEW m \in Names, Damaged(m)' PROVE m \in cut' \/ Installing(m)' # {}
  <2>1. m # n
    BY <1>2, <1>7, AdapterAssumption DEF Damaged
  <2>2. m \in cut \/ Installing(m) # {}
    BY <1>2, <1>7, <2>1 DEF Damaged, DirectoryKept, DamagedFilesAreBeingWritten
  <2>3. Installing(m) \subseteq Installing(m)'
    BY <1>3, <2>1 DEF Installing
  <2>4. QED
    BY <1>1, <2>1, <2>2, <2>3
<1>8. \A m \in Names : dir'[m] \in Contents /\ ~dir'[m].whole => NameOf[dir'[m].id] = m
  BY <1>2, AdapterAssumption DEF DirectoryKept
<1>9. QED
  BY <1>1, <1>5, <1>6, <1>7, <1>8 DEF DirectoryKept, DamagedFilesAreBeingWritten, Does

\* Part of a file is still part of the same extension.
LEMMA PartFacts ==
  ASSUME NEW n, NEW c \in NamedFor(n)
  PROVE  c \in Contents /\ c.whole /\ NameOf[c.id] = n /\ NameOf[PartOf(c).id] = n
BY DEF NamedFor, Whole, Contents, PartOf

\* An install starts: no other writes to its file.
LEMMA StartStep ==
  ASSUME DirectoryKept, TasksKnow, NEW t \in Tasks, NEW release, NEW what,
         what \in NamedFor(NameOf[release.id]) \cup {Empty}, Starts(t, release, what)
  PROVE  DirectoryKept'
<1> DEFINE n == NameOf[release.id]
<1>1. /\ UNCHANGED << use, dir, cookies, cut >>
      /\ task[t].op = "none"
      /\ task'[t].op = "install" /\ task'[t].at = "create" /\ task'[t].name = n
      /\ task'[t].file = what
      /\ \A u \in Tasks \ {t} : task'[u] = task[u]
      /\ \A u \in Tasks : task[u].op = "install" => task[u].name # n
  BY DEF Starts, Free, Idle, TasksKnow, Installing
<1> HIDE DEF n
<1>2. \A u, v \in Tasks :
        task'[u].op = "install" /\ task'[v].op = "install" /\ task'[u].name = task'[v].name => u = v
  BY <1>1 DEF DirectoryKept
<1>3. ASSUME NEW u \in Tasks PROVE Leaves(task[u])'
  <2>1. CASE u = t
    <3>1. what \in NamedFor(n) \cup {Empty}
      BY DEF n
    <3>2. NamedFor(n)' = NamedFor(n)
      BY DEF NamedFor
    <3>3. QED
      BY <1>1, <2>1, <3>1, <3>2 DEF Leaves
  <2>2. CASE u # t
    <3>1. Leaves(task[u])
      BY DEF DirectoryKept
    <3>2. QED
      BY <1>1, <2>2, <3>1 DEF Leaves, Readable, Does
  <2>3. QED
    BY <2>1, <2>2
<1>4. ASSUME NEW m \in Names, Damaged(m)' PROVE m \in cut' \/ Installing(m)' # {}
  <2>1. m \in cut \/ Installing(m) # {}
    BY <1>1, <1>4 DEF Damaged, DirectoryKept, DamagedFilesAreBeingWritten
  <2>2. Installing(m) \subseteq Installing(m)'
    BY <1>1 DEF Installing
  <2>3. QED
    BY <1>1, <2>1, <2>2
<1>5. QED
  BY <1>1, <1>2, <1>3, <1>4 DEF DirectoryKept, DamagedFilesAreBeingWritten, Does

\* A task that is cut short leaves a file that is known to be damaged.
LEMMA CutShortStep ==
  ASSUME DirectoryKept, TypeOK, TasksKnow, NEW t \in Tasks, CutShort(t),
         task[t].op \in {"install", "uninstall"}
  PROVE  DirectoryKept'
<1>1. /\ UNCHANGED << use, dir, cookies >> /\ cut \subseteq cut'
      /\ Damaged(task[t].name) => task[t].name \in cut'
      /\ task'[t] = Idle /\ \A u \in Tasks \ {t} : task'[u] = task[u]
  BY DEF CutShort, Ends, TypeOK
<1>2. task'[t].op = "none"
  BY <1>1 DEF Idle
<1>3. CASE task[t].op = "install"
  <2>1. task[t].name \in Names
    BY <1>3, StepsOf DEF TaskKnows
  <2>2. dir[task[t].name] \in Contents /\ ~dir[task[t].name].whole
          => NameOf[dir[task[t].name].id] = task[t].name
    BY <2>1 DEF DirectoryKept
  <2>3. QED
    BY <1>1, <1>2, <1>3, <2>2, InstallStep
<1>4. CASE task[t].op = "uninstall"
  <2>1. \A u \in Tasks : task[u].op = "install" \/ task'[u].op = "install" => task'[u] = task[u]
    BY <1>1, <1>2, <1>4
  <2>2. QED
    BY <1>1, <2>1, QuietStep
<1>5. QED
  BY <1>3, <1>4

\* Only requests tear the file of the cookies.
FetchTears ==
  ~Does("fetch") => /\ \A i \in Ids : cookies[i] # Torn
                    /\ \A o \in Objects : o \in Live => ~object[o].saving

\* What the application does is fixed.
LEMMA UseStays == [Next]_vars => use' = use
<1> SUFFICES ASSUME [Next]_vars PROVE use' = use
  OBVIOUS
<1>1. ASSUME NEW t \in Tasks, Step(t) PROVE use' = use
  <2>1. CASE OpenExtension(t) \/ ReadExtension(t)
    BY <2>1, Zenon DEF OpenExtension, ReadExtension
  <2>2. CASE CreateFile(t) \/ WritePart(t) \/ WriteRest(t)
    BY <2>2, Zenon DEF CreateFile, WritePart, WriteRest, Write
  <2>3. CASE RemoveFailed(t) \/ RemoveUninstalled(t) \/ ScanNext(t)
    BY <2>3, Zenon DEF RemoveFailed, RemoveUninstalled, RemoveFile, ScanNext
  <2>4. CASE \E kind \in Kinds : SaveKind(t, kind)
    BY <2>4, Zenon DEF SaveKind
  <2>5. CASE WriteFails(t) \/ RemoveFails(t) \/ SaveFails(t)
    BY <2>5, Zenon DEF WriteFails, RemoveFails, CutShort, SaveFails
  <2>6. QED
    BY <1>1, <2>1, <2>2, <2>3, <2>4, <2>5 DEF Step
<1>2. ASSUME NEW t \in Tasks, NEW r, NEW what, Starts(t, r, what) PROVE use' = use
  BY <1>2, Zenon DEF Starts
<1>3. ASSUME NEW t \in Tasks, NEW o, Scan(t) \/ Uninstall(t, o) \/ Save(t, o) PROVE use' = use
  BY <1>3, Zenon DEF Scan, Uninstall, Save
<1>4. ASSUME NEW o, NEW s, NEW settings, Change(o, s, settings) PROVE use' = use
  BY <1>4, Zenon DEF Change
<1>5. ASSUME NEW o, \/ Reload(o) \/ Fetched(o) \/ WriteCookies(o) \/ IntervalPasses(o) \/ Drop(o)
      PROVE  use' = use
  BY <1>5, Zenon DEF Reload, Fetched, WriteCookies, IntervalPasses, Drop
<1>6. CASE End
  BY <1>6 DEF End
<1>7. CASE UNCHANGED vars
  BY <1>7 DEF vars
<1>8. QED
  BY <1>1, <1>2, <1>3, <1>4, <1>5, <1>6, <1>7
     DEF Next, Install, InstallCopy, Set, RegisterSetting

\* No other step does.
LEMMA NextTorn == TypeOK /\ FetchTears /\ [Next]_vars => FetchTears'
<1> SUFFICES ASSUME TypeOK, FetchTears, [Next]_vars, ~Does("fetch"), use' = use
             PROVE  /\ \A i \in Ids : cookies'[i] # Torn
                    /\ \A o \in Objects : o \in Live' => ~object'[o].saving
  BY UseStays DEF FetchTears, Does
<1>0. /\ \A i \in Ids : cookies[i] # Torn
      /\ \A o \in Objects : o \in Live => ~object[o].saving
      /\ object \in [Objects -> Object \cup {NoObject}]
  BY DEF FetchTears, TypeOK
<1>1. NoObject.live = FALSE
  BY DEF NoObject
<1>2. CASE UNCHANGED << object, cookies >>
  BY <1>0, <1>2 DEF Live
<1>3. ASSUME NEW o \in Objects, NEW s, NEW settings, Change(o, s, settings), o \in Live
      PROVE  UNCHANGED cookies /\ \A p \in Objects : p \in Live' => ~object'[p].saving
  <2>1. /\ object[o] \in Object /\ ~object[o].saving
        /\ object' = [object EXCEPT ![o].settings = settings, ![o].settled = FALSE]
        /\ UNCHANGED cookies
    BY <1>0, <1>3, LiveFacts DEF Change
  <2>2. object'[o].saving = object[o].saving /\ \A p \in Objects \ {o} : object'[p] = object[p]
    BY <1>0, <2>1 DEF Object
  <2>3. QED
    BY <1>0, <2>1, <2>2 DEF Live
<1>4. ASSUME NEW o \in Objects, NEW s \in Settings, NEW v \in Values, Set(o, s, v)
      PROVE  UNCHANGED cookies /\ \A p \in Objects : p \in Live' => ~object'[p].saving
  BY <1>3, <1>4 DEF Set
<1>5. ASSUME NEW o \in Objects, NEW s \in Settings, NEW v \in Versions, RegisterSetting(o, s, v)
      PROVE  UNCHANGED cookies /\ \A p \in Objects : p \in Live' => ~object'[p].saving
  BY <1>3, <1>5 DEF RegisterSetting
<1>6. ASSUME NEW o \in Objects, Reload(o)
      PROVE  UNCHANGED cookies /\ \A p \in Objects : p \in Live' => ~object'[p].saving
  <2>1. o \in Live /\ object[o] \in Object
    BY <1>6, LiveFacts DEF Reload
  <2>2. /\ object'[o].saving = object[o].saving /\ \A p \in Objects \ {o} : object'[p] = object[p]
        /\ UNCHANGED cookies
    BY <1>0, <1>6, <2>1 DEF Reload, Object
  <2>3. QED
    BY <1>0, <2>1, <2>2 DEF Live
<1>7. ASSUME NEW o \in Objects, Fetched(o) \/ WriteCookies(o) \/ IntervalPasses(o) PROVE FALSE
  BY <1>0, <1>7 DEF Fetched, WriteCookies, IntervalPasses
<1>8. ASSUME NEW o \in Objects, Drop(o)
      PROVE  UNCHANGED cookies /\ \A p \in Objects : p \in Live' => ~object'[p].saving
  BY <1>0, <1>1, <1>8 DEF Drop, Live
<1>9. ASSUME End
      PROVE  UNCHANGED cookies /\ \A p \in Objects : p \in Live' => ~object'[p].saving
  BY <1>1, <1>9 DEF End, Live
<1>10. ASSUME NEW t \in Tasks, NEW o \in Objects, Save(t, o)
       PROVE  UNCHANGED cookies /\ \A p \in Objects : p \in Live' => ~object'[p].saving
  <2>1. ASSUME NEW p \in Objects, p \in Live'
        PROVE  p \in Live /\ object'[p].saving = object[p].saving
    <3>1. CASE p \in Live /\ object[p].of = object[o].of
      <4>1. object[p] \in Object /\ object'[p] = [object[p] EXCEPT !.settled = (p = o)]
        BY <1>10, <3>1, LiveFacts DEF Save
      <4>2. QED
        BY <3>1, <4>1 DEF Object
    <3>2. CASE ~(p \in Live /\ object[p].of = object[o].of)
      BY <1>10, <2>1, <3>2 DEF Save, Live
    <3>3. QED
      BY <3>1, <3>2
  <2>2. QED
    BY <1>0, <1>10, <2>1 DEF Save
<1>11. ASSUME NEW t \in Tasks, OpenExtension(t)
       PROVE  UNCHANGED cookies /\ \A p \in Objects : p \in Live' => ~object'[p].saving
  <2>1. UNCHANGED cookies
    BY <1>11 DEF OpenExtension
  <2>2. ASSUME NEW p \in Objects, p \in Live', object'[p] # object[p]
        PROVE  ~object'[p].saving
    BY <1>0, <1>11, <2>2 DEF OpenExtension
  <2>3. QED
    BY <1>0, <2>1, <2>2 DEF Live
<1>12. ASSUME NEW t \in Tasks, SaveFails(t)
       PROVE  UNCHANGED cookies /\ \A p \in Objects : p \in Live' => ~object'[p].saving
  <2>1. ASSUME NEW p \in Objects, p \in Live'
        PROVE  p \in Live /\ object'[p].saving = object[p].saving
    <3>1. CASE p \in Live /\ object[p].of = task[t].who
      <4>1. object[p] \in Object /\ object'[p] = [object[p] EXCEPT !.settled = FALSE]
        BY <1>12, <3>1, LiveFacts DEF SaveFails
      <4>2. QED
        BY <3>1, <4>1 DEF Object
    <3>2. CASE ~(p \in Live /\ object[p].of = task[t].who)
      BY <1>12, <2>1, <3>2 DEF SaveFails, Live
    <3>3. QED
      BY <3>1, <3>2
  <2>2. QED
    BY <1>0, <1>12, <2>1 DEF SaveFails
<1>13. QED
  BY <1>0, <1>2, <1>4, <1>5, <1>6, <1>7, <1>8, <1>9, <1>10, <1>11, <1>12
     DEF Next, Step, vars, CreateFile, WritePart, WriteRest, Write, WriteFails, ReadExtension,
         RemoveFailed, RemoveUninstalled, RemoveFile, RemoveFails, CutShort, ScanNext, SaveKind,
         Install, InstallCopy, Starts, Scan, Uninstall

\* A task that goes on to another step.
LEMMA Went ==
  ASSUME task \in [Tasks -> TaskState], NEW t \in Tasks, NEW at,
         task' = [task EXCEPT ![t].at = at]
  PROVE  /\ task'[t].op = task[t].op /\ task'[t].at = at /\ task'[t].name = task[t].name
         /\ task'[t].file = task[t].file /\ task'[t].linked = task[t].linked
         /\ task'[t].who = task[t].who /\ task'[t].copy = task[t].copy
         /\ \A u \in Tasks \ {t} : task'[u] = task[u]
BY DEF TaskState

\* Every step keeps the directory.
LEMMA NextDirectory ==
  TypeOK /\ TasksKnow /\ FetchTears /\ DirectoryKept /\ [Next]_vars => DirectoryKept'
<1> SUFFICES ASSUME TypeOK, TasksKnow, FetchTears, DirectoryKept, [Next]_vars
             PROVE  DirectoryKept'
  OBVIOUS
<1>0. FetchTears' /\ use' = use
  BY NextTorn, UseStays
<1>1. \A i \in Ids : cookies'[i] = Torn => cookies[i] = Torn \/ Does("fetch")
  BY <1>0 DEF FetchTears, Does
<1>2. dir \in [Names -> Contents \cup {Absent, Empty}] /\ task \in [Tasks -> TaskState]
  BY DEF TypeOK
<1>3. ASSUME UNCHANGED << use, dir, cut, task >> PROVE DirectoryKept'
  <2>1. \A t \in Tasks : task'[t] = task[t]
    BY <1>3
  <2>2. QED
    BY <1>1, <1>3, <2>1, QuietStep
<1>4. ASSUME NEW t \in Tasks, UNCHANGED << use, dir, cut >>, task[t].op # "install",
             task'[t].op # "install", \A u \in Tasks \ {t} : task'[u] = task[u]
      PROVE  DirectoryKept'
  <2>1. \A u \in Tasks : task[u].op = "install" \/ task'[u].op = "install" => task'[u] = task[u]
    BY <1>4
  <2>2. QED
    BY <1>1, <1>4, <2>1, QuietStep
<1>5. ASSUME NEW t \in Tasks, NEW r \in use.installs, Install(t, r) PROVE DirectoryKept'
  <2>1. r \in NamedFor(NameOf[r.id])
    <3>1. use \in Usage
      BY AdapterAssumption DEF TypeOK
    <3>2. r \in Whole
      BY <3>1 DEF Usage
    <3>3. QED
      BY <3>2 DEF NamedFor
  <2>2. QED
    BY <1>5, <2>1, StartStep DEF Install
<1>6. ASSUME NEW t \in Tasks, NEW n \in Names, InstallCopy(t, n) PROVE DirectoryKept'
  <2> DEFINE what == IF NameOf[dir[n].id] = n THEN Empty ELSE dir[n]
  <2>1. dir[n] \in Contents
    BY <1>2, <1>6 DEF InstallCopy, Readable
  <2>2. what \in NamedFor(NameOf[dir[n].id]) \cup {Empty}
    <3>1. CASE NameOf[dir[n].id] = n
      BY <3>1
    <3>2. CASE NameOf[dir[n].id] # n
      <4>1. dir[n].whole
        BY <2>1, <3>2 DEF DirectoryKept
      <4>2. dir[n] \in NamedFor(NameOf[dir[n].id])
        BY <2>1, <4>1 DEF NamedFor, Whole
      <4>3. QED
        BY <3>2, <4>2
    <3>3. QED
      BY <3>1, <3>2
  <2>3. Starts(t, dir[n], what)
    BY <1>6 DEF InstallCopy
  <2> HIDE DEF what
  <2>4. QED
    BY <2>2, <2>3, StartStep
<1>7. ASSUME NEW t \in Tasks, CreateFile(t) PROVE DirectoryKept'
  <2> DEFINE n == task[t].name
  <2>1. /\ task[t] \in TaskState /\ task[t].op = "install" /\ n \in Names /\ task[t].at = "create"
        /\ Leaves(task[t])
    BY <1>7, StepsOf DEF CreateFile, At, TaskKnows, DirectoryKept
  <2>2. /\ task'[t].op = "install" /\ task'[t].at = "write" /\ task'[t].name = n
        /\ task'[t].file = task[t].file /\ task'[t].linked
        /\ \A u \in Tasks \ {t} : task'[u] = task[u]
    BY <1>2, <1>7, <2>1 DEF CreateFile, TaskState
  <2>3. /\ dir'[n] = Empty /\ \A m \in Names \ {n} : dir'[m] = dir[m] /\ (m \in cut => m \in cut')
        /\ UNCHANGED << use, cookies >>
    BY <1>2, <1>7, <2>1 DEF CreateFile
  <2>4. task[t].file \in NamedFor(n) \cup {Empty}
    BY <2>1 DEF Leaves
  <2>5. Leaves(task[t])'
    <3>1. NamedFor(n)' = NamedFor(n)
      BY <2>2 DEF NamedFor
    <3>2. QED
      BY <2>2, <2>3, <2>4, <3>1 DEF Leaves
  <2>6. dir'[n] \notin Contents
    BY <2>3, AdapterAssumption
  <2> HIDE DEF n
  <2>7. QED
    BY <2>1, <2>2, <2>3, <2>5, <2>6, InstallStep DEF n
<1>8. ASSUME NEW t \in Tasks, WritePart(t) PROVE DirectoryKept'
  <2> DEFINE n == task[t].name
  <2>1. /\ task[t] \in TaskState /\ task[t].op = "install" /\ n \in Names /\ task[t].at = "write"
        /\ Leaves(task[t])
    BY <1>8, StepsOf DEF WritePart, At, TaskKnows, DirectoryKept
  <2>2. /\ task'[t].op = "install" /\ task'[t].at = "write rest" /\ task'[t].name = n
        /\ task'[t].file = task[t].file /\ task'[t].linked = task[t].linked
        /\ \A u \in Tasks \ {t} : task'[u] = task[u]
    BY <1>2, <1>8, <2>1 DEF WritePart, Goto, TaskState
  <2>3. /\ dir'[n] = IF task[t].linked THEN PartOf(task[t].file) ELSE dir[n]
        /\ \A m \in Names \ {n} : dir'[m] = dir[m] /\ (m \in cut => m \in cut')
        /\ UNCHANGED << use, cookies >>
    BY <1>2, <1>8, <2>1 DEF WritePart, Write, PartOf
  <2>4. /\ task[t].file \in NamedFor(n)
        /\ dir[n] = IF task[t].linked THEN Empty ELSE Absent
    BY <1>8, <2>1 DEF Leaves, WritePart
  <2>5. Leaves(task[t])'
    BY <2>2, <2>3, <2>4 DEF Leaves
  <2>6. dir'[n] \in Contents => NameOf[dir'[n].id] = n
    BY <2>3, <2>4, PartFacts, AdapterAssumption
  <2> HIDE DEF n
  <2>7. QED
    BY <2>1, <2>2, <2>3, <2>5, <2>6, InstallStep DEF n
<1>9. ASSUME NEW t \in Tasks, WriteRest(t) PROVE DirectoryKept'
  <2> DEFINE n == task[t].name
  <2>1. /\ task[t] \in TaskState /\ task[t].op = "install" /\ n \in Names
        /\ task[t].at \in {"write", "write rest"} /\ Leaves(task[t])
    BY <1>9, StepsOf DEF WriteRest, At, TaskKnows, DirectoryKept
  <2>2. /\ task'[t].op = "install" /\ task'[t].at = "read" /\ task'[t].name = n
        /\ \A u \in Tasks \ {t} : task'[u] = task[u]
    BY <1>2, <1>9, <2>1 DEF WriteRest, Goto, TaskState
  <2>3. /\ dir'[n] = IF task[t].linked THEN task[t].file ELSE dir[n]
        /\ \A m \in Names \ {n} : dir'[m] = dir[m] /\ (m \in cut => m \in cut')
        /\ UNCHANGED << use, cookies >>
    BY <1>2, <1>9, <2>1 DEF WriteRest, Write
  <2>4. /\ task[t].file \in NamedFor(n) \cup {Empty}
        /\ ~task[t].linked => dir[n] = Absent
    BY <2>1 DEF Leaves
  <2>5. dir'[n] \in NamedFor(n) \cup {Absent, Empty}
    BY <2>3, <2>4
  <2>6. Leaves(task[t])'
    <3>1. NamedFor(n)' = NamedFor(n)
      BY <2>2 DEF NamedFor
    <3>2. QED
      BY <2>2, <2>5, <3>1 DEF Leaves
  <2>7. dir'[n] \in Contents => NameOf[dir'[n].id] = n
    BY <2>5, PartFacts, AdapterAssumption
  <2> HIDE DEF n
  <2>8. QED
    BY <2>1, <2>2, <2>3, <2>6, <2>7, InstallStep DEF n
<1>10. ASSUME NEW t \in Tasks, ReadExtension(t) PROVE DirectoryKept'
  <2> DEFINE n == task[t].name
  <2>1. /\ task[t] \in TaskState /\ n \in Names /\ task[t].at = "read"
        /\ task[t].op \in {"install", "scan"} /\ Leaves(task[t])
    BY <1>10, StepsOf DEF ReadExtension, At, TaskKnows, DirectoryKept
  <2>a. /\ IF Readable(n) THEN task' = [task EXCEPT ![t].at = "open", ![t].file = dir[n]]
           ELSE \E at \in {"failed", "next"} :
                  task' = [task EXCEPT ![t].at = at] /\ (task[t].op = "install" => at = "failed")
        /\ UNCHANGED << use, dir, cut, cookies >>
    BY <1>10 DEF ReadExtension, Fails
  <2>2. /\ task'[t].op = task[t].op /\ task'[t].name = n
        /\ \A u \in Tasks \ {t} : task'[u] = task[u]
        /\ UNCHANGED << use, dir, cut, cookies >>
    <3>1. CASE Readable(n)
      <4>1. task' = [task EXCEPT ![t].at = "open", ![t].file = dir[n]]
        BY <2>a, <3>1
      <4> HIDE DEF n
      <4>2. QED
        BY <1>2, <2>1, <2>a, <4>1 DEF TaskState, n
    <3>2. CASE ~Readable(n)
      <4>1. PICK at \in {"failed", "next"} : task' = [task EXCEPT ![t].at = at]
        BY <2>a, <3>2
      <4>2. QED
        BY <1>2, <2>a, <4>1, Went
    <3>3. QED
      BY <3>1, <3>2
  <2>3. CASE task[t].op = "scan"
    BY <1>4, <2>2, <2>3
  <2>4. CASE task[t].op = "install"
    <3>1. dir[n] \in NamedFor(n) \cup {Absent, Empty}
      BY <2>1, <2>4 DEF Leaves
    <3>2. IF Readable(n) THEN task'[t].at = "open" /\ task'[t].file = dir[n]
          ELSE task'[t].at = "failed"
      <4>1. CASE Readable(n)
        <5>1. task' = [task EXCEPT ![t].at = "open", ![t].file = dir[n]]
          BY <2>a, <4>1
        <5>2. task'[t] = [task[t] EXCEPT !.at = "open", !.file = dir[n]]
          BY <1>2, <5>1
        <5>3. task'[t].at = "open" /\ task'[t].file = dir[n]
          BY <2>1, <5>2 DEF TaskState
        <5>4. QED
          BY <4>1, <5>3
      <4>2. CASE ~Readable(n)
        <5>1. task' = [task EXCEPT ![t].at = "failed"]
          BY <2>4, <2>a, <4>2
        <5>2. QED
          BY <1>2, <4>2, <5>1, Went
      <4>3. QED
        BY <4>1, <4>2
    <3>3. Leaves(task[t])'
      <4>1. NamedFor(n)' = NamedFor(n)
        BY <2>2 DEF NamedFor
      <4>2. Readable(task[t].name)' <=> Readable(n)
        BY <2>2 DEF Readable
      <4>3. QED
        BY <2>2, <2>4, <3>1, <3>2, <4>1, <4>2 DEF Leaves, Readable
    <3>4. dir'[n] \in Contents /\ ~dir'[n].whole => NameOf[dir'[n].id] = n
      BY <2>1, <2>2 DEF DirectoryKept
    <3> HIDE DEF n
    <3>5. QED
      BY <2>1, <2>2, <2>4, <3>3, <3>4, InstallStep DEF n
  <2>5. QED
    BY <2>1, <2>3, <2>4
<1>11. ASSUME NEW t \in Tasks, OpenExtension(t) PROVE DirectoryKept'
  <2> DEFINE n == task[t].name
             file == task[t].file
  <2>1. /\ task[t] \in TaskState /\ n \in Names /\ task[t].at = "open" /\ file \in Contents
        /\ task[t].op \in {"install", "scan"} /\ Leaves(task[t])
    BY <1>11, StepsOf DEF OpenExtension, At, TaskKnows, DirectoryKept
  <2>2. /\ \/ task' = [task EXCEPT ![t] = Idle] /\ Loadable(file.id, file.version)
           \/ task' = [task EXCEPT ![t].at = "next"] /\ task[t].op = "scan"
           \/ /\ task' = [task EXCEPT ![t].at = "failed"] /\ task[t].op = "install"
              /\ ~Loadable(file.id, file.version)
        /\ UNCHANGED << use, dir, cut, cookies >>
    BY <1>11, <2>1 DEF OpenExtension, Ends, Goto, Fails
  <2>3. \A u \in Tasks \ {t} : task'[u] = task[u]
    BY <1>2, <2>2
  <2>4. CASE task[t].op = "scan"
    <3>a. \/ task' = [task EXCEPT ![t] = Idle]
          \/ task' = [task EXCEPT ![t].at = "next"]
      BY <2>2, <2>4
    <3>1. task'[t].op # "install"
      <4>1. CASE task' = [task EXCEPT ![t] = Idle]
        BY <1>2, <4>1 DEF Idle
      <4>2. CASE task' = [task EXCEPT ![t].at = "next"]
        BY <1>2, <2>4, <4>2, Went
      <4>3. QED
        BY <3>a, <4>1, <4>2
    <3>2. QED
      BY <1>4, <2>2, <2>3, <2>4, <3>1
  <2>5. CASE task[t].op = "install"
    <3>1. dir[n] \in {file, Absent} /\ file \in NamedFor(n)
      BY <2>1, <2>5 DEF Leaves
    <3>2. dir'[n] \in Contents /\ ~dir'[n].whole => NameOf[dir'[n].id] = n
      BY <2>1, <2>2 DEF DirectoryKept
    <3>3. CASE task'[t] = Idle
      <4>1. ~Damaged(n)
        BY <3>1, PartFacts, AdapterAssumption DEF Damaged
      <4>2. task'[t].op = "none" /\ dir'[n] = dir[n] /\ \A m \in Names : dir'[m] = dir[m] /\ cut' = cut
        BY <2>2, <3>3 DEF Idle
      <4> HIDE DEF n, file
      <4>3. QED
        BY <2>2, <2>3, <2>5, <3>2, <4>1, <4>2, InstallStep DEF n
    <3>4. CASE /\ task' = [task EXCEPT ![t].at = "failed"]
               /\ ~Loadable(file.id, file.version)
      <4>1. /\ task'[t].op = "install" /\ task'[t].at = "failed" /\ task'[t].name = n
        BY <1>2, <2>1, <2>5, <3>4 DEF TaskState
      <4>2. Readable(n) => dir[n].version \in Unloadable \/ Does("fetch")
        BY <2>1, <3>1, <3>4 DEF Readable, Loadable, DirectoryKept, Contents
      <4>3. dir[n] \in NamedFor(n) \cup {Absent, Empty}
        BY <3>1
      <4>4. Leaves(task[t])'
        <5>1. NamedFor(n)' = NamedFor(n)
          BY <4>1 DEF NamedFor
        <5>2. QED
          BY <2>2, <4>1, <4>2, <4>3, <5>1 DEF Leaves, Readable, Does
      <4>5. \A m \in Names : dir'[m] = dir[m] /\ cut' = cut
        BY <2>2
      <4> HIDE DEF n, file
      <4>6. QED
        BY <2>2, <2>3, <2>5, <3>2, <4>1, <4>4, <4>5, InstallStep DEF n
    <3>5. task[t].op = "install" => task'[t] = Idle
            \/ (task' = [task EXCEPT ![t].at = "failed"] /\ ~Loadable(file.id, file.version))
      BY <1>2, <2>2
    <3>6. QED
      BY <2>5, <3>3, <3>4, <3>5
  <2>6. QED
    BY <2>1, <2>4, <2>5
<1>12. ASSUME NEW t \in Tasks, RemoveFailed(t) \/ RemoveUninstalled(t) PROVE DirectoryKept'
  <2>1. task[t].name \in Names /\ RemoveFile(t, task[t].name)
    BY <1>12, StepsOf DEF RemoveFailed, RemoveUninstalled, At, TaskKnows
  <2>2. QED
    BY <2>1, RemoveStep
<1>13. ASSUME NEW t \in Tasks,
              ScanNext(t) \/ SaveFails(t) \/ \E kind \in Kinds : SaveKind(t, kind)
       PROVE  DirectoryKept'
  <2>1. task[t] \in TaskState /\ task[t].op \in {"scan", "save"}
    BY <1>13, StepsOf DEF ScanNext, SaveKind, SaveFails, At
  <2>a. /\ \/ task' = [task EXCEPT ![t] = Idle]
           \/ task' = [task EXCEPT ![t].at = "search"]
           \/ \E n \in Names : task' = [task EXCEPT ![t].at = "read", ![t].name = n,
                                                   ![t].todo = @ \ {n}]
        /\ UNCHANGED << use, dir, cut >>
    BY <1>13, <2>1 DEF ScanNext, SaveKind, SaveFails, Goto, Ends, TaskState
  <2>2. /\ task'[t].op # "install" /\ \A u \in Tasks \ {t} : task'[u] = task[u]
        /\ UNCHANGED << use, dir, cut >>
    <3>1. CASE task' = [task EXCEPT ![t] = Idle]
      BY <1>2, <2>a, <3>1 DEF Idle
    <3>2. CASE task' = [task EXCEPT ![t].at = "search"]
      BY <1>2, <2>1, <2>a, <3>2, Went
    <3>3. ASSUME NEW n \in Names, task' = [task EXCEPT ![t].at = "read", ![t].name = n,
                                                  ![t].todo = @ \ {n}]
          PROVE  task'[t].op # "install" /\ \A u \in Tasks \ {t} : task'[u] = task[u]
      BY <1>2, <2>1, <3>3 DEF TaskState
    <3>4. QED
      BY <2>a, <3>1, <3>2, <3>3
  <2>3. QED
    BY <1>4, <2>1, <2>2
<1>14. ASSUME NEW t \in Tasks, Scan(t) \/ \E o \in Objects : Uninstall(t, o) \/ Save(t, o)
       PROVE  DirectoryKept'
  <2>1. task[t].op = "none" /\ UNCHANGED << use, dir, cut >>
    <3>1. task[t] = Idle /\ UNCHANGED << use, dir, cut >>
      BY <1>14, Zenon DEF Scan, Uninstall, Save, Free
    <3>2. QED
      BY <3>1 DEF Idle
  <2>2. /\ task'[t].op # "install" /\ \A u \in Tasks \ {t} : task'[u] = task[u]
    BY <1>2, <1>14, <2>1 DEF Scan, Uninstall, Save, Idle
  <2>3. QED
    BY <1>4, <2>1, <2>2
<1>15. CASE End
  <2>1. /\ UNCHANGED << use, dir, cookies >> /\ cut' = cut \cup {n \in Names : Damaged(n)}
        /\ \A t \in Tasks : task'[t].op = "none"
    BY <1>15 DEF End, Idle
  <2>2. \A n \in Names : Damaged(n)' <=> Damaged(n)
    BY <2>1 DEF Damaged
  <2>3. DamagedFilesAreBeingWritten'
    BY <2>1, <2>2 DEF DamagedFilesAreBeingWritten
  <2>4. \A t \in Tasks : Leaves(task[t])'
    BY <2>1 DEF Leaves
  <2>5. QED
    BY <2>1, <2>3, <2>4 DEF DirectoryKept, Does
<1>16. ASSUME NEW t \in Tasks, WriteFails(t) \/ RemoveFails(t) PROVE DirectoryKept'
  <2>1. CutShort(t) /\ task[t].op \in {"install", "uninstall"}
    BY <1>16, StepsOf DEF WriteFails, RemoveFails, At
  <2>2. QED
    BY <2>1, CutShortStep
<1>17. QED
  <2>1. ASSUME NEW o \in Objects, NEW s, NEW settings, Change(o, s, settings) PROVE DirectoryKept'
    BY <1>3, <2>1 DEF Change
  <2>2. ASSUME NEW o \in Objects,
               Reload(o) \/ Fetched(o) \/ WriteCookies(o) \/ IntervalPasses(o) \/ Drop(o)
        PROVE  UNCHANGED << use, dir, cut, task >>
    BY <2>2, Zenon DEF Reload, Fetched, WriteCookies, IntervalPasses, Drop
  <2>3. UNCHANGED vars => DirectoryKept'
    BY <1>3 DEF vars
  <2>4. QED
    BY <1>3, <1>5, <1>6, <1>7, <1>8, <1>9, <1>10, <1>11, <1>12, <1>13, <1>14, <1>15, <1>16, <2>1,
       <2>2, <2>3
       DEF Next, Step, Set, RegisterSetting

\* An extension file that is damaged is being written or cleared up, or was
\* when that failed or the process ended: every other step finds and leaves it
\* whole.
THEOREM DamagedOnlyWhileWritten == Spec => []DamagedFilesAreBeingWritten
<1>1. Init => FetchTears
  BY AdapterAssumption DEF Init, FetchTears, Live, NoObject
<1>2. DirectoryKept => DamagedFilesAreBeingWritten
  BY DEF DirectoryKept
<1>3. Init => TypeOK /\ TasksKnow /\ DirectoryKept /\ FetchTears
  BY <1>1, InitTypes, InitFiles
<1>4. TypeOK /\ TasksKnow /\ DirectoryKept /\ FetchTears /\ [Next]_vars
        => TypeOK' /\ TasksKnow' /\ DirectoryKept' /\ FetchTears'
  BY NextTypes, NextDirectory, NextTorn
<1>5. QED
  BY <1>2, <1>3, <1>4, PTL DEF Spec

-----------------------------------------------------------------------------
(* What is removed.                                                         *)

\* What a task does, for whom, stays what it was until it is done.
GoesOn(x, y) ==
  y.op # "none" => /\ y.op = x.op /\ y.who = x.who /\ y.copy = x.copy
                   /\ x.op # "scan" => y.name = x.name

Begins(t) ==
  /\ Free(t) /\ \A u \in Tasks \ {t} : task'[u] = task[u]
  /\ UNCHANGED << use, dir, cut, cookies, persisted, excused >>
  /\ task'[t].op = "uninstall" => \E o \in Objects : Uninstall(t, o)
  /\ task'[t].op = "save" => \E o \in Objects : Save(t, o)

\* The operations that are begun by the application.
LEMMA Beginning ==
  ASSUME TypeOK, NEW t \in Tasks,
         \/ \E r \in use.installs : Install(t, r)
         \/ \E n \in Names : InstallCopy(t, n)
         \/ Scan(t)
         \/ \E o \in Objects : Uninstall(t, o) \/ Save(t, o)
  PROVE  Begins(t)
<1>0. task \in [Tasks -> TaskState]
  BY DEF TypeOK
<1>1. Free(t) /\ \E x : task' = [task EXCEPT ![t] = x]
  BY Zenon DEF Install, InstallCopy, Starts, Scan, Uninstall, Save
<1>2. UNCHANGED << use, dir, cut, cookies, persisted, excused >>
  BY Zenon DEF Install, InstallCopy, Starts, Scan, Uninstall, Save
<1>3. ASSUME NEW r, NEW what, Starts(t, r, what) PROVE task'[t].op = "install"
  BY <1>0, <1>3 DEF Starts, Idle
<1>4. Scan(t) => task'[t].op = "scan"
  BY <1>0 DEF Scan, Idle
<1>5. ASSUME NEW o \in Objects, Uninstall(t, o) PROVE task'[t].op = "uninstall"
  BY <1>0, <1>5 DEF Uninstall, Idle
<1>6. ASSUME NEW o \in Objects, Save(t, o) PROVE task'[t].op = "save"
  BY <1>0, <1>6 DEF Save, Idle
<1>7. /\ task'[t].op = "uninstall" => \E o \in Objects : Uninstall(t, o)
      /\ task'[t].op = "save" => \E o \in Objects : Save(t, o)
  BY <1>3, <1>4, <1>5, <1>6 DEF Install, InstallCopy
<1>8. QED
  BY <1>0, <1>1, <1>2, <1>7 DEF Begins

\* A step goes on with what was begun, or begins something.
LEMMA NextGoesOn ==
  TypeOK /\ TasksKnow /\ [Next]_vars =>
    \/ \A u \in Tasks : GoesOn(task[u], task[u]')
    \/ \E t \in Tasks : Begins(t)
<1> SUFFICES ASSUME TypeOK, TasksKnow, [Next]_vars
             PROVE  \/ \A u \in Tasks : GoesOn(task[u], task[u]')
                    \/ \E t \in Tasks : Begins(t)
  OBVIOUS
<1>0. task \in [Tasks -> TaskState]
  BY DEF TypeOK
<1>1. ASSUME NEW t \in Tasks, task[t].op # "none", \A u \in Tasks \ {t} : task'[u] = task[u],
             GoesOn(task[t], task[t]')
      PROVE  \A u \in Tasks : GoesOn(task[u], task[u]')
  BY <1>1 DEF GoesOn
<1>2. ASSUME NEW t \in Tasks, task' = [task EXCEPT ![t] = Idle]
      PROVE  \A u \in Tasks : GoesOn(task[u], task[u]')
  BY <1>0, <1>2 DEF GoesOn, Idle
<1>3. ASSUME NEW t \in Tasks, NEW at, task' = [task EXCEPT ![t].at = at]
      PROVE  \A u \in Tasks : GoesOn(task[u], task[u]')
  BY <1>0, <1>3, Went DEF GoesOn
<1>4. ASSUME NEW t \in Tasks, CreateFile(t) PROVE \A u \in Tasks : GoesOn(task[u], task[u]')
  <2>1. task'[t].op = task[t].op /\ task'[t].who = task[t].who /\ task'[t].copy = task[t].copy
        /\ task'[t].name = task[t].name /\ \A u \in Tasks \ {t} : task'[u] = task[u]
    BY <1>0, <1>4 DEF CreateFile, TaskState
  <2>2. QED
    BY <2>1 DEF GoesOn
<1>5. ASSUME NEW t \in Tasks, ReadExtension(t) PROVE \A u \in Tasks : GoesOn(task[u], task[u]')
  <2>1. \/ \E file : task' = [task EXCEPT ![t].at = "open", ![t].file = file]
        \/ \E at : task' = [task EXCEPT ![t].at = at]
    BY <1>5 DEF ReadExtension, Fails
  <2>2. ASSUME NEW file, task' = [task EXCEPT ![t].at = "open", ![t].file = file]
        PROVE  \A u \in Tasks : GoesOn(task[u], task[u]')
    BY <1>0, <2>2 DEF GoesOn, TaskState
  <2>3. QED
    BY <1>3, <2>1, <2>2
<1>6. ASSUME NEW t \in Tasks, OpenExtension(t) PROVE \A u \in Tasks : GoesOn(task[u], task[u]')
  <2>1. task' = [task EXCEPT ![t] = Idle] \/ \E at : task' = [task EXCEPT ![t].at = at]
    BY <1>6 DEF OpenExtension, Ends, Goto, Fails
  <2>2. QED
    BY <1>2, <1>3, <2>1
<1>7. ASSUME NEW t \in Tasks, NEW n, RemoveFile(t, n)
      PROVE  \A u \in Tasks : GoesOn(task[u], task[u]')
  <2>1. \A u \in Tasks : \/ task'[u] = Idle
                         \/ task'[u] = [task[u] EXCEPT !.linked = FALSE]
                         \/ task'[u] = task[u]
    BY <1>7 DEF RemoveFile
  <2>2. ASSUME NEW u \in Tasks, task'[u] = [task[u] EXCEPT !.linked = FALSE]
        PROVE  GoesOn(task[u], task[u]')
    <3>1. task[u] \in TaskState
      BY <1>0
    <3>2. /\ task'[u].op = task[u].op /\ task'[u].who = task[u].who
          /\ task'[u].copy = task[u].copy /\ task'[u].name = task[u].name
      BY <2>2, <3>1 DEF TaskState
    <3>3. QED
      BY <3>2 DEF GoesOn
  <2>3. ASSUME NEW u \in Tasks, task'[u] = Idle \/ task'[u] = task[u]
        PROVE  GoesOn(task[u], task[u]')
    BY <2>3 DEF GoesOn, Idle
  <2>4. QED
    BY <2>1, <2>2, <2>3
<1>8. ASSUME NEW t \in Tasks, ScanNext(t) PROVE \A u \in Tasks : GoesOn(task[u], task[u]')
  <2>1. task[t] \in TaskState /\ task[t].op = "scan"
    BY <1>8, StepsOf DEF ScanNext, At
  <2>2. \/ task' = [task EXCEPT ![t] = Idle]
        \/ \E n \in Names : task' = [task EXCEPT ![t].at = "read", ![t].name = n,
                                                 ![t].todo = @ \ {n}]
    BY <1>8, <2>1 DEF ScanNext, Ends, TaskState
  <2>3. ASSUME NEW n \in Names, task' = [task EXCEPT ![t].at = "read", ![t].name = n,
                                                   ![t].todo = @ \ {n}]
        PROVE  \A u \in Tasks : GoesOn(task[u], task[u]')
    BY <1>0, <2>1, <2>3 DEF GoesOn, TaskState
  <2>4. QED
    BY <1>2, <2>2, <2>3
<1>9. ASSUME NEW t \in Tasks, Step(t) PROVE \A u \in Tasks : GoesOn(task[u], task[u]')
  <2>1. WritePart(t) \/ WriteRest(t) => \A u \in Tasks : GoesOn(task[u], task[u]')
    BY <1>3 DEF WritePart, WriteRest, Goto
  <2>2. RemoveFailed(t) \/ RemoveUninstalled(t) => \A u \in Tasks : GoesOn(task[u], task[u]')
    BY <1>7 DEF RemoveFailed, RemoveUninstalled
  <2>3. ASSUME NEW kind \in Kinds, SaveKind(t, kind)
        PROVE  \A u \in Tasks : GoesOn(task[u], task[u]')
    BY <1>2, <1>3, <2>3 DEF SaveKind, Goto, Ends
  <2>4. WriteFails(t) \/ RemoveFails(t) \/ SaveFails(t)
          => \A u \in Tasks : GoesOn(task[u], task[u]')
    BY <1>2 DEF WriteFails, RemoveFails, CutShort, SaveFails, Ends
  <2>5. QED
    BY <1>4, <1>5, <1>6, <1>8, <1>9, <2>1, <2>2, <2>3, <2>4 DEF Step
<1>10. ASSUME NEW t \in Tasks,
              \/ \E r \in use.installs : Install(t, r)
              \/ \E n \in Names : InstallCopy(t, n)
              \/ Scan(t)
              \/ \E o \in Objects : Uninstall(t, o) \/ Save(t, o)
       PROVE  Begins(t)
  BY <1>10, Beginning
<1>11. UNCHANGED task => \A u \in Tasks : GoesOn(task[u], task[u]')
  BY DEF GoesOn
<1>12. End => \A u \in Tasks : GoesOn(task[u], task[u]')
  BY DEF End, GoesOn, Idle
<1>13. ASSUME NEW o \in Objects, \/ \E s, settings : Change(o, s, settings)
                                 \/ Reload(o) \/ Fetched(o) \/ WriteCookies(o)
                                 \/ IntervalPasses(o) \/ Drop(o)
       PROVE  UNCHANGED task
  BY <1>13, Zenon DEF Change, Reload, Fetched, WriteCookies, IntervalPasses, Drop
<1>14. QED
  BY <1>9, <1>10, <1>11, <1>12, <1>13 DEF Next, Set, RegisterSetting, vars

\* The bound on the tasks keeps it so.
LEMMA NextOne == TypeOK /\ TasksKnow /\ OneAtATime /\ [Next]_vars => OneAtATime'
<1> SUFFICES ASSUME TypeOK, TasksKnow, OneAtATime, [Next]_vars PROVE OneAtATime'
  OBVIOUS
<1>0. use' = use
  BY UseStays
<1>1. CASE \A u \in Tasks : GoesOn(task[u], task[u]')
  BY <1>0, <1>1 DEF GoesOn, OneAtATime
<1>2. ASSUME NEW t \in Tasks, Free(t), \A u \in Tasks \ {t} : task'[u] = task[u],
             use.tasks = 1
      PROVE  \A u \in Tasks \ {t} : task'[u].op = "none"
  <2> DEFINE busy == {x \in Tasks : task[x] # Idle}
  <2>1. IsFiniteSet(busy) /\ Cardinality(busy) < 1
    BY <1>2, AdapterAssumption, FS_Subset DEF Free
  <2>2. busy = {}
    BY <2>1, FS_EmptySet, FS_CardinalityType
  <2>3. QED
    BY <1>2, <2>2 DEF Idle
<1>3. QED
  BY <1>0, <1>1, <1>2, NextGoesOn DEF OneAtATime, Begins

\* What is written to a file is of the extension it is named for.
LEMMA FilesStep ==
  ASSUME FilesKept, TypeOK, TasksKnow, OneAtATime', UNCHANGED use,
         \A u \in Tasks : task'[u].op = "uninstall" => GoesOn(task[u], task[u]'),
         \A n \in Names :
           \/ dir'[n] = dir[n]
           \/ dir'[n] \in {Absent, Empty}
           \/ /\ dir'[n] \in Contents /\ NameOf[dir'[n].id] = n
              /\ \E t \in Tasks : task'[t].op = "install"
  PROVE  FilesKept'
<1>1. use.tasks = 1 \/ Canonical(dir)'
  BY AdapterAssumption DEF FilesKept, Canonical
<1>2. ASSUME NEW u \in Tasks, task'[u].op = "uninstall" PROVE RemovesItsFile(task[u])'
  <2> DEFINE n == task[u].name
             who == task[u].who
  <2>1. /\ task[u].op = "uninstall" /\ task'[u].name = n /\ task'[u].who = who
        /\ n \in Names /\ who \in Ids
    BY <1>2, StepsOf DEF GoesOn, TaskKnows
  <2>2. /\ Readable(n) => dir[n].id = who
        /\ use.tasks = 1 \/ NameOf[who] = n \/ \A i \in Ids : NameOf[i] # n
    BY <2>1 DEF FilesKept, RemovesItsFile
  <2>3. CASE dir'[n] \in Contents /\ NameOf[dir'[n].id] = n /\ \E t \in Tasks : task'[t].op = "install"
    <3>1. use.tasks # 1
      BY <1>2, <2>3 DEF OneAtATime
    <3>2. dir'[n].id \in Ids
      BY <2>3 DEF Contents
    <3>3. dir'[n].id = who /\ dir'[n] # Empty
      BY <2>1, <2>2, <2>3, <3>1, <3>2, AdapterAssumption
    <3>4. QED
      BY <2>1, <2>2, <3>3 DEF RemovesItsFile
  <2>4. CASE dir'[n] = dir[n] \/ dir'[n] \in {Absent, Empty}
    <3>1. dir'[n] \notin {Absent, Empty} => dir'[n].id = who
      BY <2>2, <2>4, AdapterAssumption DEF Readable
    <3> HIDE DEF n, who
    <3>2. QED
      BY <2>1, <2>2, <3>1 DEF RemovesItsFile, Readable
  <2>5. QED
    BY <2>1, <2>3, <2>4
<1>3. QED
  BY <1>1, <1>2 DEF FilesKept, OneAtATime, RemovesItsFile

\* The directory, as one step of an operation leaves it.
LEMMA NextNames ==
  ASSUME TypeOK, TasksKnow, DirectoryKept, [Next]_vars, ~End
  PROVE  \A n \in Names :
           \/ dir'[n] = dir[n]
           \/ /\ dir'[n] = Absent
              /\ \E t \in Tasks : task[t].name = n /\ (RemoveFailed(t) \/ RemoveUninstalled(t))
           \/ dir'[n] = Empty
           \/ /\ dir'[n] \in Contents /\ NameOf[dir'[n].id] = n
              /\ \E t \in Tasks : task'[t].op = "install"
<1> USE DEF TypeOK
<1>1. ASSUME NEW t \in Tasks, CreateFile(t)
      PROVE  \A n \in Names : dir'[n] = dir[n] \/ dir'[n] = Empty
  BY <1>1 DEF CreateFile
<1>2. ASSUME NEW t \in Tasks, WritePart(t) \/ WriteRest(t)
      PROVE  \A n \in Names : \/ dir'[n] = dir[n]
                              \/ dir'[n] = Empty
                              \/ /\ dir'[n] \in Contents /\ NameOf[dir'[n].id] = n
                                 /\ \E u \in Tasks : task'[u].op = "install"
  <2> DEFINE p == task[t].name
             content == IF WritePart(t) THEN PartOf(task[t].file) ELSE task[t].file
  <2>1. /\ task[t] \in TaskState /\ task[t].op = "install" /\ p \in Names /\ Leaves(task[t])
        /\ task[t].at \in {"write", "write rest"}
    BY <1>2, StepsOf DEF WritePart, WriteRest, At, TaskKnows, DirectoryKept
  <2>2. task'[t].op = "install"
    <3>1. PICK at : task' = [task EXCEPT ![t].at = at]
      BY <1>2 DEF WritePart, WriteRest, Goto
    <3>2. QED
      BY <2>1, <3>1, Went
  <2>3. /\ \A n \in Names \ {p} : dir'[n] = dir[n]
        /\ dir'[p] = dir[p] \/ (dir'[p] = content /\ task[t].linked)
    BY <1>2, <2>1 DEF WritePart, WriteRest, Write, PartOf
  <2>4. task[t].file \in NamedFor(p) \cup {Empty}
    BY <2>1 DEF Leaves
  <2>5. CASE task[t].file \in NamedFor(p)
    <3>1. content \in Contents /\ NameOf[content.id] = p
      <4>1. PartOf(task[t].file) \in Contents
        BY <2>5 DEF NamedFor, PartOf, Whole, Contents
      <4>2. QED
        BY <2>5, <4>1, PartFacts
    <3> HIDE DEF content
    <3>2. QED
      BY <2>2, <2>3, <3>1
  <2>6. CASE task[t].file = Empty
    <3>1. ~WritePart(t)
      BY <2>6 DEF WritePart
    <3>2. QED
      BY <2>3, <2>6, <3>1
  <2>7. QED
    BY <2>4, <2>5, <2>6
<1>3. ASSUME NEW t \in Tasks, RemoveFailed(t) \/ RemoveUninstalled(t)
      PROVE  \A n \in Names : dir'[n] = dir[n] \/ (dir'[n] = Absent /\ task[t].name = n)
  BY <1>3 DEF RemoveFailed, RemoveUninstalled, RemoveFile
<1>4. ASSUME NEW t \in Tasks, ReadExtension(t) \/ OpenExtension(t) \/ ScanNext(t)
                              \/ WriteFails(t) \/ RemoveFails(t) \/ SaveFails(t)
                              \/ \E kind \in Kinds : SaveKind(t, kind)
      PROVE  UNCHANGED dir
  BY <1>4, Zenon DEF ReadExtension, OpenExtension, ScanNext, WriteFails, RemoveFails, CutShort,
                     SaveFails, SaveKind
<1>5. ASSUME NEW t \in Tasks, Step(t)
      PROVE  \A n \in Names :
               \/ dir'[n] = dir[n]
               \/ /\ dir'[n] = Absent
                  /\ task[t].name = n /\ (RemoveFailed(t) \/ RemoveUninstalled(t))
               \/ dir'[n] = Empty
               \/ /\ dir'[n] \in Contents /\ NameOf[dir'[n].id] = n
                  /\ \E u \in Tasks : task'[u].op = "install"
  BY <1>1, <1>2, <1>3, <1>4, <1>5 DEF Step
<1>6. ASSUME NEW t \in Tasks, \/ \E r \in use.installs : Install(t, r)
                              \/ \E n \in Names : InstallCopy(t, n)
                              \/ Scan(t)
                              \/ \E o \in Objects : Uninstall(t, o) \/ Save(t, o)
      PROVE  UNCHANGED dir
  BY <1>6, Zenon DEF Install, InstallCopy, Starts, Scan, Uninstall, Save
<1>7. ASSUME NEW o \in Objects, \/ \E s, settings : Change(o, s, settings)
                                \/ Reload(o) \/ Fetched(o) \/ WriteCookies(o)
                                \/ IntervalPasses(o) \/ Drop(o)
      PROVE  UNCHANGED dir
  BY <1>7, Zenon DEF Change, Reload, Fetched, WriteCookies, IntervalPasses, Drop
<1>8. QED
  BY <1>5, <1>6, <1>7 DEF Next, Set, RegisterSetting, vars

\* No step but Uninstall picks a file to remove; it picks one of the extension.
LEMMA NextKept ==
  TypeOK /\ TasksKnow /\ DirectoryKept /\ FilesKept /\ [Next]_vars => FilesKept'
<1> SUFFICES ASSUME TypeOK, TasksKnow, DirectoryKept, FilesKept, [Next]_vars PROVE FilesKept'
  OBVIOUS
<1>0. OneAtATime' /\ UNCHANGED use
  BY NextOne, UseStays DEF FilesKept
<1>1. CASE End
  <2>1. UNCHANGED dir /\ \A t \in Tasks : task'[t].op = "none"
    BY <1>1 DEF End, Idle
  <2>2. QED
    BY <1>0, <2>1 DEF FilesKept, Canonical, RemovesItsFile
<1>2. ASSUME ~End, \A u \in Tasks : task'[u].op = "uninstall" => GoesOn(task[u], task[u]')
      PROVE  FilesKept'
  <2>1. \A n \in Names :
          \/ dir'[n] = dir[n]
          \/ dir'[n] \in {Absent, Empty}
          \/ /\ dir'[n] \in Contents /\ NameOf[dir'[n].id] = n
             /\ \E t \in Tasks : task'[t].op = "install"
    BY <1>2, NextNames
  <2>2. QED
    BY <1>0, <1>2, <2>1, FilesStep
<1>3. ASSUME NEW t \in Tasks, NEW o \in Objects, Uninstall(t, o) PROVE FilesKept'
  <2>1. PICK n \in Holding(object[o].id) :
          task' = [task EXCEPT ![t] = [Idle EXCEPT !.op = "uninstall", !.at = "remove",
                                                   !.name = n, !.who = object[o].id]]
    BY <1>3 DEF Uninstall
  <2>2. n \in Names /\ Readable(n) /\ dir[n].id = object[o].id /\ object[o] \in Object
    BY <1>3, LiveFacts DEF Holding, Uninstall
  <2>3. UNCHANGED dir
    BY <1>3 DEF Uninstall
  <2>4. /\ task'[t].name = n /\ task'[t].who = object[o].id
        /\ \A u \in Tasks \ {t} : task'[u] = task[u]
    BY <2>1 DEF TypeOK, Idle
  <2>5. dir[n] \in Contents
    BY <2>2 DEF TypeOK, Readable
  <2>6. use.tasks = 1 \/ NameOf[object[o].id] = n \/ \A i \in Ids : NameOf[i] # n
    BY <2>2, <2>5 DEF FilesKept, Canonical
  <2>7. RemovesItsFile(task[t])'
    BY <1>0, <2>2, <2>3, <2>4, <2>6 DEF RemovesItsFile, Readable
  <2>8. ASSUME NEW u \in Tasks \ {t} PROVE RemovesItsFile(task[u])'
    BY <1>0, <2>3, <2>4 DEF FilesKept, RemovesItsFile, Readable
  <2>9. QED
    BY <1>0, <2>3, <2>7, <2>8 DEF FilesKept, Canonical
<1>4. ASSUME NEW t \in Tasks, Begins(t), task'[t].op # "uninstall"
      PROVE  \A u \in Tasks : task'[u].op = "uninstall" => GoesOn(task[u], task[u]')
  BY <1>4 DEF Begins, GoesOn
<1>5. QED
  BY <1>1, <1>2, <1>3, <1>4, NextGoesOn DEF Begins

\* What a step removes.
LEMMA NextRemoves ==
  TypeOK /\ TasksKnow /\ DirectoryKept /\ FilesKept /\ [Next]_vars =>
    \A n \in Names :
      dir[n] # Absent /\ dir'[n] = Absent =>
        \/ \E t \in Tasks :
             /\ task[t].op = "uninstall" /\ task[t].name = n
             /\ Readable(n) => dir[n].id = task[t].who
        \/ /\ Installing(n) # {}
           /\ Readable(n) => dir[n].version \in Unloadable \/ Does("fetch")
<1> SUFFICES ASSUME TypeOK, TasksKnow, DirectoryKept, FilesKept, [Next]_vars,
                    NEW n \in Names, dir[n] # Absent, dir'[n] = Absent
             PROVE  \/ \E t \in Tasks :
                         /\ task[t].op = "uninstall" /\ task[t].name = n
                         /\ Readable(n) => dir[n].id = task[t].who
                    \/ /\ Installing(n) # {}
                       /\ Readable(n) => dir[n].version \in Unloadable \/ Does("fetch")
  OBVIOUS
<1>1. ~End
  BY DEF End
<1>2. PICK t \in Tasks : task[t].name = n /\ (RemoveFailed(t) \/ RemoveUninstalled(t))
  <2>1. dir'[n] \notin Contents \cup {Empty}
    BY AdapterAssumption
  <2>2. QED
    BY <1>1, <2>1, NextNames
<1>3. CASE RemoveUninstalled(t)
  <2>1. task[t].op = "uninstall" /\ RemovesItsFile(task[t])
    BY <1>3, StepsOf DEF RemoveUninstalled, At, FilesKept
  <2>2. Readable(n) => dir[n].id = task[t].who
    BY <1>2, <2>1 DEF RemovesItsFile
  <2>3. QED
    BY <1>2, <2>1, <2>2
<1>4. CASE RemoveFailed(t)
  <2>1. task[t].op = "install" /\ task[t].at = "failed" /\ Leaves(task[t])
    BY <1>4, StepsOf DEF RemoveFailed, At, DirectoryKept
  <2>2. t \in Installing(n)
    BY <1>2, <2>1 DEF Installing
  <2>3. Readable(n) => dir[n].version \in Unloadable \/ Does("fetch")
    BY <1>2, <2>1 DEF Leaves
  <2>4. QED
    BY <2>2, <2>3
<1>5. QED
  BY <1>2, <1>3, <1>4

\* A file leaves the directory only when its extension is uninstalled, or by the
\* install that wrote it, because it does not load.  A file that has the
\* canonical name of another id is the exception, where operations overlap: the
\* uninstall of its extension has found it, the install of the other id takes
\* its place, and the uninstall removes that.
THEOREM RemovalsAreRight == ASSUME RenamedAreAlone PROVE Spec => OnlyTheRightFilesGo
<1>1. Init => TypeOK /\ TasksKnow /\ DirectoryKept /\ FetchTears /\ FilesKept
  <2> SUFFICES ASSUME Init PROVE FilesKept
    <3>1. Init => FetchTears
      BY AdapterAssumption DEF Init, FetchTears, Live, NoObject
    <3>2. QED
      BY <3>1, InitTypes, InitFiles
  <2>1. \A t \in Tasks : task[t].op = "none"
    BY DEF Init, Idle
  <2>2. use.tasks = 1 \/ Canonical(dir)
    BY DEF Init, RenamedAreAlone
  <2>3. QED
    BY <2>1, <2>2 DEF FilesKept, OneAtATime, RemovesItsFile
<1>2. TypeOK /\ TasksKnow /\ DirectoryKept /\ FetchTears /\ FilesKept /\ [Next]_vars
        => TypeOK' /\ TasksKnow' /\ DirectoryKept' /\ FetchTears' /\ FilesKept'
  BY NextTypes, NextDirectory, NextTorn, NextKept
<1>3. QED
  BY <1>1, <1>2, NextRemoves, PTL DEF Spec, OnlyTheRightFilesGo

-----------------------------------------------------------------------------
(* Settings, once loaded.                                                    *)

\* Saves of one extension do not overlap.
OneSaveEach ==
  \A t, u \in Tasks :
    task[t].op = "save" /\ task[u].op = "save" /\ task[t].who = task[u].who => t = u

\* The settings of the extension are stored before those of the search.
SavedSoFar(t) ==
  task[t].op = "save" /\ task[t].at = "search" =>
    \A s \in DOMAIN task[t].copy :
      s[1] = "extension" => /\ s \in DOMAIN persisted[task[t].who]
                            /\ persisted[task[t].who][s] = task[t].copy[s]

\* What an object shows is stored or being stored.
ShownIsSaved(o) ==
  object[o].settled =>
    /\ Saving(object[o].of) = {} => AsPersisted(object[o].settings, object[o].of)
    /\ \A t \in Saving(object[o].of) : task[t].copy = object[o].settings

SettingsKept == (\A t \in Tasks : SavedSoFar(t)) /\ \A o \in Live : ShownIsSaved(o)

\* An object that shows what it did, is what was loaded right now, or has had one
\* setting changed.
StaysTheSame(o) ==
  /\ o \in Live /\ object'[o].of = object[o].of /\ object'[o].settings = object[o].settings
  /\ object'[o].settled => object[o].settled \/ \E t \in Tasks : \E p \in Objects : Save(t, p)

LoadedBy(o, t) ==
  LET file == task[t].file IN
  /\ OpenExtension(t)
  /\ file.id \in Ids /\ file.version \in Versions
  /\ object'[o].of = file.id /\ object'[o].settled = FALSE
  /\ \E loaded \in Loads(file.id) :
       /\ object'[o].settings = MergeAll(loaded, Declares[file.version])
       /\ excused' = excused \cup ({file.id} \X NotTaken(file.id, loaded, Declares[file.version]))

\* One setting of a store may have another value; no other is changed or gone.
ChangesOnly(store, s, settings) ==
  /\ DOMAIN store \subseteq DOMAIN settings
  /\ \A x \in DOMAIN store \ {s} : settings[x] = store[x]

ChangedAt(o, s) ==
  /\ o \in Live /\ object'[o].of = object[o].of /\ object'[o].settled = FALSE
  /\ \E settings : /\ Change(o, s, settings) /\ object'[o].settings = settings
                   /\ ChangesOnly(object[o].settings, s, settings)

\* Both ways of changing a setting change no other.
LEMMA ChangeFacts ==
  ASSUME TypeOK, NEW o \in Objects, NEW s \in Settings,
         \/ \E v \in Values : Set(o, s, v)
         \/ \E v \in Versions : RegisterSetting(o, s, v)
  PROVE  ChangedAt(o, s)
<1>0. o \in Live /\ object[o] \in Object /\ object \in [Objects -> Object \cup {NoObject}]
  BY LiveFacts DEF TypeOK, Set, RegisterSetting
<1> DEFINE store == object[o].settings
<1>1. store \in Store
  BY <1>0 DEF Object
<1>2. store \in [DOMAIN store -> Setting]
  BY <1>1, StoreFacts
<1>3. ASSUME NEW settings, Change(o, s, settings), ChangesOnly(store, s, settings)
      PROVE  ChangedAt(o, s)
  <2>1. object' = [object EXCEPT ![o].settings = settings, ![o].settled = FALSE]
    BY <1>3 DEF Change
  <2>2. object'[o] = [object[o] EXCEPT !.settings = settings, !.settled = FALSE]
    BY <1>0, <2>1
  <2>3. /\ object'[o].settings = settings /\ object'[o].settled = FALSE
        /\ object'[o].of = object[o].of
    BY <1>0, <2>2 DEF Object
  <2>4. QED
    BY <1>0, <1>3, <2>3 DEF ChangedAt
<1>4. ASSUME NEW v \in Values, Set(o, s, v) PROVE ChangedAt(o, s)
  <2>1. ChangesOnly(store, s, SetSetting(store, s, v))
    BY <1>2 DEF ChangesOnly, SetSetting, Setting
  <2>2. Change(o, s, SetSetting(store, s, v))
    BY <1>4 DEF Set
  <2> HIDE DEF store
  <2>3. QED
    BY <1>3, <2>1, <2>2
<1>5. ASSUME NEW v \in Versions, RegisterSetting(o, s, v) PROVE ChangedAt(o, s)
  <2>1. ChangesOnly(store, s, MergeDefinition(store, s, Declares[v][s]))
    BY <1>2 DEF ChangesOnly, MergeDefinition
  <2>2. Change(o, s, MergeDefinition(store, s, Declares[v][s]))
    BY <1>5 DEF RegisterSetting
  <2> HIDE DEF store
  <2>3. QED
    BY <1>3, <2>1, <2>2
<1>6. QED
  BY <1>4, <1>5

\* What a step does to the objects; any change of what one shows unsettles it.
LEMMA NextObjects ==
  TypeOK /\ TasksKnow /\ [Next]_vars =>
    \A o \in Live' :
      \/ StaysTheSame(o)
      \/ \E t \in Tasks : LoadedBy(o, t)
      \/ \E s \in Settings : ChangedAt(o, s)
<1> DEFINE Ok(o) == \/ StaysTheSame(o)
                    \/ \E t \in Tasks : LoadedBy(o, t)
                    \/ \E s \in Settings : ChangedAt(o, s)
<1> SUFFICES ASSUME TypeOK, TasksKnow, [Next]_vars, NEW o \in Objects, o \in Live'
             PROVE  Ok(o)
  BY DEF Live
<1>0. /\ object \in [Objects -> Object \cup {NoObject}] /\ NoObject.live = FALSE
      /\ object'[o].live
  BY DEF TypeOK, Live, NoObject
<1>1. ASSUME object'[o] = object[o] PROVE StaysTheSame(o)
  BY <1>0, <1>1 DEF StaysTheSame, Live
<1>2. ASSUME NEW p \in Objects, NEW s \in Settings,
             \/ \E v \in Values : Set(p, s, v)
             \/ \E v \in Versions : RegisterSetting(p, s, v)
      PROVE  Ok(o)
  <2>1. ChangedAt(p, s)
    BY <1>2, ChangeFacts
  <2>2. CASE p = o
    BY <2>1, <2>2
  <2>3. CASE p # o
    <3>1. PICK settings : Change(p, s, settings)
      BY <2>1 DEF ChangedAt
    <3>2. object'[o] = object[o]
      BY <1>0, <2>3, <3>1 DEF Change
    <3>3. QED
      BY <1>1, <3>2
  <2>4. QED
    BY <2>2, <2>3
<1>3. ASSUME NEW p \in Objects, p \in Live,
             Reload(p) \/ Fetched(p) \/ WriteCookies(p) \/ IntervalPasses(p)
      PROVE  StaysTheSame(o)
  <2>1. CASE p = o
    <3>1. object[o] \in Object
      BY <1>3, <2>1, LiveFacts
    <3>2. /\ object'[o].of = object[o].of /\ object'[o].settings = object[o].settings
          /\ object'[o].settled = object[o].settled
      <4>1. CASE Reload(p)
        BY <1>0, <2>1, <3>1, <4>1 DEF Reload, Object
      <4>2. CASE Fetched(p)
        <5>1. PICK jar : object' = [object EXCEPT ![p].jar = jar, ![p].recent = TRUE,
                                                  ![p].saving = ~object[p].recent]
          BY <4>2 DEF Fetched
        <5>2. QED
          BY <1>0, <2>1, <3>1, <5>1 DEF Object
      <4>3. CASE WriteCookies(p)
        BY <1>0, <2>1, <3>1, <4>3 DEF WriteCookies, Object
      <4>4. CASE IntervalPasses(p)
        BY <1>0, <2>1, <3>1, <4>4 DEF IntervalPasses, Object
      <4>5. QED
        BY <1>3, <4>1, <4>2, <4>3, <4>4
    <3>3. QED
      BY <1>3, <2>1, <3>2 DEF StaysTheSame
  <2>2. CASE p # o
    <3>1. object'[o] = object[o]
      <4>1. CASE Fetched(p)
        <5>1. PICK jar : object' = [object EXCEPT ![p].jar = jar, ![p].recent = TRUE,
                                                  ![p].saving = ~object[p].recent]
          BY <4>1 DEF Fetched
        <5>2. QED
          BY <1>0, <2>2, <5>1
      <4>2. CASE Reload(p) \/ WriteCookies(p) \/ IntervalPasses(p)
        BY <1>0, <2>2, <4>2 DEF Reload, WriteCookies, IntervalPasses
      <4>3. QED
        BY <1>3, <4>1, <4>2
    <3>2. QED
      BY <1>1, <3>1
  <2>3. QED
    BY <2>1, <2>2
<1>4. ASSUME NEW p \in Objects, Drop(p) PROVE StaysTheSame(o)
  <2>1. p # o /\ object'[o] = object[o]
    BY <1>0, <1>4 DEF Drop
  <2>2. QED
    BY <1>1, <2>1
<1>5. ASSUME NEW t \in Tasks, OpenExtension(t) PROVE Ok(o)
  <2> DEFINE file == task[t].file
             x(loaded) ==
               [live |-> TRUE, of |-> file.id, id |-> file.id, version |-> file.version,
                name |-> task[t].name, settings |-> MergeAll(loaded, Declares[file.version]),
                settled |-> FALSE, jar |-> JarOf(file.id), recent |-> TRUE, saving |-> FALSE]
             adds(loaded) ==
               excused' = excused \cup ({file.id} \X NotTaken(file.id, loaded, Declares[file.version]))
  <2>1. \/ UNCHANGED object
        \/ \E p \in Objects : \E loaded \in Loads(file.id) :
             object' = [object EXCEPT ![p] = x(loaded)] /\ adds(loaded)
    BY <1>5 DEF OpenExtension
  <2>2. file.id \in Ids /\ file.version \in Versions
    <3>1. file \in Contents
      BY <1>5, StepsOf DEF OpenExtension, At, TaskKnows
    <3>2. QED
      BY <3>1 DEF Contents
  <2>3. ASSUME NEW loaded \in Loads(file.id), object'[o] = x(loaded), adds(loaded)
        PROVE  LoadedBy(o, t)
    <3>1. /\ object'[o].of = file.id /\ object'[o].settled = FALSE
          /\ object'[o].settings = MergeAll(loaded, Declares[file.version])
      BY <2>3
    <3>2. QED
      BY <1>5, <2>2, <2>3, <3>1 DEF LoadedBy
  <2> HIDE DEF x, adds
  <2>4. \/ object'[o] = object[o]
        \/ \E loaded \in Loads(file.id) : object'[o] = x(loaded) /\ adds(loaded)
    BY <1>0, <2>1
  <2>5. QED
    BY <1>1, <2>3, <2>4
<1>6. ASSUME NEW t \in Tasks, Step(t), ~OpenExtension(t), ~SaveFails(t) PROVE UNCHANGED object
  BY <1>6, Zenon DEF Step, CreateFile, WritePart, WriteRest, Write, WriteFails, ReadExtension,
                     RemoveFailed, RemoveFile, ScanNext, RemoveUninstalled, RemoveFails, CutShort,
                     SaveKind
<1>7. ASSUME NEW t \in Tasks, \/ \E r \in use.installs : Install(t, r)
                              \/ \E n \in Names : InstallCopy(t, n)
                              \/ Scan(t)
                              \/ \E p \in Objects : Uninstall(t, p)
      PROVE  UNCHANGED object
  BY <1>7, Zenon DEF Install, InstallCopy, Starts, Scan, Uninstall
<1>8. ~End
  BY <1>0 DEF End
<1>9. ASSUME NEW p \in Objects, Reload(p) \/ Fetched(p) \/ WriteCookies(p) \/ IntervalPasses(p)
      PROVE  p \in Live
  BY <1>9 DEF Reload, Fetched, WriteCookies, IntervalPasses
<1>10. ASSUME NEW who, NEW b \in BOOLEAN,
              object'[o] = IF o \in Live /\ object[o].of = who
                           THEN [object[o] EXCEPT !.settled = b] ELSE object[o]
       PROVE  /\ o \in Live /\ object'[o].of = object[o].of
              /\ object'[o].settings = object[o].settings
              /\ object'[o].settled => object[o].settled \/ b
  <2>1. CASE o \in Live /\ object[o].of = who
    <3>1. object[o] \in Object /\ object'[o] = [object[o] EXCEPT !.settled = b]
      BY <1>10, <2>1, LiveFacts
    <3>2. QED
      BY <2>1, <3>1 DEF Object
  <2>2. CASE ~(o \in Live /\ object[o].of = who)
    <3>1. object'[o] = object[o]
      BY <1>10, <2>2
    <3>2. QED
      BY <1>0, <3>1 DEF Live
  <2>3. QED
    BY <2>1, <2>2
<1>11. ASSUME NEW t \in Tasks, SaveFails(t) PROVE StaysTheSame(o)
  <2>1. object'[o] = IF o \in Live /\ object[o].of = task[t].who
                     THEN [object[o] EXCEPT !.settled = FALSE] ELSE object[o]
    BY <1>11 DEF SaveFails
  <2>2. QED
    BY <1>10, <2>1 DEF StaysTheSame
<1>12. ASSUME NEW t \in Tasks, NEW p \in Objects, Save(t, p) PROVE StaysTheSame(o)
  <2>1. object'[o] = IF o \in Live /\ object[o].of = object[p].of
                     THEN [object[o] EXCEPT !.settled = (o = p)] ELSE object[o]
    BY <1>12 DEF Save
  <2>2. QED
    BY <1>10, <1>12, <2>1 DEF StaysTheSame
<1>13. UNCHANGED object => StaysTheSame(o)
  BY <1>1
<1>14. QED
  <2> HIDE DEF Ok
  <2>1. StaysTheSame(o) => Ok(o)
    BY DEF Ok
  <2>2. CASE Next
    BY <1>2, <1>3, <1>4, <1>5, <1>6, <1>7, <1>8, <1>9, <1>11, <1>12, <1>13, <2>1, <2>2, Zenon
       DEF Next
  <2>3. QED
    BY <1>13, <2>1, <2>2 DEF vars

\* Nothing but the steps of a save writes settings.
LEMMA NextSaves ==
  TypeOK /\ TasksKnow /\ [Next]_vars =>
    \/ End
    \/ \E t \in Tasks : \/ \E kind \in Kinds : SaveKind(t, kind)
                        \/ SaveFails(t)
                        \/ \E o \in Objects : Save(t, o)
    \/ /\ UNCHANGED persisted
       /\ \A u \in Tasks :
            task[u].op = "save" \/ task'[u].op = "save" =>
              /\ task'[u].op = task[u].op /\ task'[u].at = task[u].at
              /\ task'[u].who = task[u].who /\ task'[u].copy = task[u].copy
<1> DEFINE Rest == /\ UNCHANGED persisted
                   /\ \A u \in Tasks :
                        task[u].op = "save" \/ task'[u].op = "save" =>
                          /\ task'[u].op = task[u].op /\ task'[u].at = task[u].at
                          /\ task'[u].who = task[u].who /\ task'[u].copy = task[u].copy
<1> SUFFICES ASSUME TypeOK, TasksKnow, [Next]_vars, ~End,
                    ~(\E t \in Tasks : \/ \E kind \in Kinds : SaveKind(t, kind)
                                       \/ SaveFails(t)
                                       \/ \E o \in Objects : Save(t, o))
             PROVE  Rest
  OBVIOUS
<1>0. task \in [Tasks -> TaskState]
  BY DEF TypeOK
<1>1. ASSUME NEW t \in Tasks, UNCHANGED persisted, \A u \in Tasks \ {t} : task'[u] = task[u],
             task[t].op # "save", task'[t].op # "save"
      PROVE  Rest
  BY <1>1
<1>2. ASSUME NEW t \in Tasks, Begins(t) PROVE Rest
  <2>1. task[t].op # "save" /\ task'[t].op # "save"
    BY <1>2 DEF Begins, Free, Idle
  <2>2. QED
    BY <1>1, <1>2, <2>1 DEF Begins
<1>3. ASSUME NEW t \in Tasks, NEW n, RemoveFile(t, n), task[t].op # "save" PROVE Rest
  <2>1. ASSUME NEW u \in Tasks
        PROVE  task[u].op = "save" \/ task'[u].op = "save" =>
                 /\ task'[u].op = task[u].op /\ task'[u].at = task[u].at
                 /\ task'[u].who = task[u].who /\ task'[u].copy = task[u].copy
    <3>1. CASE task'[u] = [task[u] EXCEPT !.linked = FALSE]
      <4>1. task[u] \in TaskState
        BY <1>0
      <4>2. QED
        BY <3>1, <4>1 DEF TaskState
    <3>2. CASE u # t /\ task'[u] = task[u]
      BY <3>2
    <3>3. CASE u = t
      BY <1>3, <3>3 DEF RemoveFile, Idle
    <3>4. QED
      BY <1>3, <3>1, <3>2, <3>3 DEF RemoveFile
  <2>2. QED
    BY <1>3, <2>1 DEF RemoveFile
<1>4. ASSUME NEW t \in Tasks, Step(t) PROVE Rest
  <2>1. RemoveFailed(t) \/ RemoveUninstalled(t) => Rest
    <3>1. At(t, "failed") \/ At(t, "remove") => task[t].op # "save"
      BY StepsOf DEF At
    <3>2. QED
      BY <1>3, <3>1 DEF RemoveFailed, RemoveUninstalled
  <2>2. CASE \/ CreateFile(t) \/ WritePart(t) \/ WriteRest(t) \/ ReadExtension(t)
             \/ OpenExtension(t) \/ ScanNext(t)
    <3>1. task[t].op # "save"
      BY <2>2, StepsOf DEF CreateFile, WritePart, WriteRest, ReadExtension, OpenExtension, ScanNext, At
    <3>2. UNCHANGED persisted /\ \A u \in Tasks \ {t} : task'[u] = task[u]
      <4>1. UNCHANGED persisted
        BY <2>2, Zenon DEF CreateFile, WritePart, WriteRest, Write, ReadExtension, OpenExtension,
                           ScanNext
      <4>2. \E x : task' = [task EXCEPT ![t] = x]
        <5>1. CreateFile(t) => \E x : task' = [task EXCEPT ![t] = x]
          BY <1>0 DEF CreateFile
        <5>2. WritePart(t) \/ WriteRest(t) => \E x : task' = [task EXCEPT ![t] = x]
          BY DEF WritePart, WriteRest, Goto
        <5>3. ReadExtension(t) => \E x : task' = [task EXCEPT ![t] = x]
          BY <1>0 DEF ReadExtension, Fails
        <5>4. OpenExtension(t) => \E x : task' = [task EXCEPT ![t] = x]
          BY DEF OpenExtension, Fails, Ends, Goto
        <5>5. ScanNext(t) => \E x : task' = [task EXCEPT ![t] = x]
          BY <1>0 DEF ScanNext, Ends
        <5>6. QED
          BY <2>2, <5>1, <5>2, <5>3, <5>4, <5>5
      <4>3. QED
        BY <1>0, <4>1, <4>2
    <3>3. task'[t].op # "save"
      <4>1. \A u \in Tasks : GoesOn(task[u], task[u]') \/ Begins(t)
        BY <3>2, NextGoesOn DEF Begins, GoesOn
      <4>2. QED
        BY <3>1, <4>1 DEF GoesOn, Begins
    <3>4. QED
      BY <1>1, <3>1, <3>2, <3>3
  <2>3. WriteFails(t) \/ RemoveFails(t) => Rest
    <3>1. ASSUME CutShort(t), task[t].op # "save" PROVE Rest
      BY <1>0, <1>1, <3>1 DEF CutShort, Ends, Idle
    <3>2. QED
      BY <3>1, StepsOf DEF WriteFails, RemoveFails, At
  <2>4. QED
    BY <1>4, <2>1, <2>2, <2>3 DEF Step
<1>5. ASSUME UNCHANGED << task, persisted >> PROVE Rest
  BY <1>5
<1>6. ASSUME NEW o \in Objects, \/ \E s, settings : Change(o, s, settings)
                                \/ Reload(o) \/ Fetched(o) \/ WriteCookies(o)
                                \/ IntervalPasses(o) \/ Drop(o)
      PROVE  UNCHANGED << task, persisted >>
  BY <1>6, Zenon DEF Change, Reload, Fetched, WriteCookies, IntervalPasses, Drop
<1>7. ASSUME NEW o \in Objects,
             \E s \in Settings : \/ \E v \in Values : Set(o, s, v)
                                 \/ \E v \in Versions : RegisterSetting(o, s, v)
      PROVE  \E s, settings : Change(o, s, settings)
  BY <1>7, Zenon DEF Set, RegisterSetting
<1>8. ASSUME NEW t \in Tasks,
             \/ \E r \in use.installs : Install(t, r)
             \/ \E n \in Names : InstallCopy(t, n)
             \/ Scan(t)
             \/ \E o \in Objects : Uninstall(t, o) \/ Save(t, o)
      PROVE  Rest
  BY <1>2, <1>8, Beginning
<1>9. CASE Next
  <2> HIDE DEF Rest
  <2>1. QED
    BY <1>4, <1>5, <1>6, <1>7, <1>8, <1>9, Zenon DEF Next
<1>10. QED
  BY <1>5, <1>9 DEF vars

\* A step of a save stores what it copied; once it is done everything is stored.
LEMMA SaveStep ==
  ASSUME TypeOK, TasksKnow, OneSaveEach, SettingsKept,
         NEW t \in Tasks, NEW kind \in Kinds, SaveKind(t, kind)
  PROVE  SettingsKept'
<1> DEFINE i == task[t].who
           copy == task[t].copy
           stored == StoreKind(persisted[i], copy, kind)
<1>0. /\ task[t].op = "save" /\ task[t].at = kind /\ i \in Ids /\ copy \in Store
      /\ persisted \in [Ids -> Store] /\ task \in [Tasks -> TaskState]
      /\ SavedSoFar(t)
  BY StepsOf DEF SaveKind, At, TaskKnows, TaskState, TypeOK, SettingsKept
<1>1. /\ persisted'[i] = stored /\ \A j \in Ids \ {i} : persisted'[j] = persisted[j]
      /\ UNCHANGED object
  BY <1>0 DEF SaveKind
<1>2. /\ \A u \in Tasks \ {t} : task'[u] = task[u]
      /\ kind = "extension" => /\ task'[t].op = "save" /\ task'[t].at = "search"
                               /\ task'[t].who = i /\ task'[t].copy = copy
      /\ kind # "extension" => task'[t].op = "none"
  <2>1. CASE kind = "extension"
    <3>1. task' = [task EXCEPT ![t].at = "search"]
      BY <2>1 DEF SaveKind, Goto
    <3>2. QED
      BY <1>0, <2>1, <3>1, Went
  <2>2. CASE kind # "extension"
    BY <1>0, <2>2 DEF SaveKind, Ends, Idle
  <2>3. QED
    BY <2>1, <2>2
<1>3. /\ \A s \in DOMAIN copy : s[1] = kind => s \in DOMAIN stored /\ stored[s] = copy[s]
      /\ \A s \in DOMAIN persisted[i] : s[1] # kind => /\ s \in DOMAIN stored
                                                      /\ stored[s] = persisted[i][s]
  BY <1>0, StoredKind
<1>4. \A u \in Tasks \ {t} : task[u].op = "save" => task[u].who # i /\ task[u].who \in Ids
  <2>1. ASSUME NEW u \in Tasks \ {t}, task[u].op = "save" PROVE task[u].who \in Ids
    BY <2>1, StepsOf DEF TaskKnows
  <2>2. QED
    BY <1>0, <2>1 DEF OneSaveEach
<1>5. Live' = Live /\ \A o \in Live : object[o] \in Object
  BY <1>1, LiveFacts DEF Live
<1> HIDE DEF i, copy, stored
<1>6. ASSUME NEW u \in Tasks PROVE SavedSoFar(u)'
  <2>1. CASE u = t
    <3>1. CASE kind = "extension"
      BY <1>1, <1>2, <1>3, <2>1, <3>1 DEF SavedSoFar
    <3>2. CASE kind # "extension"
      BY <1>2, <2>1, <3>2 DEF SavedSoFar
    <3>3. QED
      BY <3>1, <3>2
  <2>2. CASE u # t
    <3>1. SavedSoFar(u) /\ task'[u] = task[u]
      BY <1>2, <2>2 DEF SettingsKept
    <3>2. CASE task[u].op = "save"
      <4>1. persisted'[task[u].who] = persisted[task[u].who]
        BY <1>1, <1>4, <2>2, <3>2
      <4>2. QED
        BY <3>1, <4>1 DEF SavedSoFar
    <3>3. CASE task[u].op # "save"
      BY <3>1, <3>3 DEF SavedSoFar
    <3>4. QED
      BY <3>2, <3>3
  <2>3. QED
    BY <2>1, <2>2
<1>7. ASSUME NEW o \in Live' PROVE ShownIsSaved(o)'
  <2>1. o \in Live /\ object'[o] = object[o] /\ ShownIsSaved(o) /\ object[o].of \in Ids
    BY <1>1, <1>5 DEF SettingsKept, Object
  <2> SUFFICES ASSUME object[o].settled PROVE ShownIsSaved(o)'
    BY <2>1 DEF ShownIsSaved
  <2>2. CASE object[o].of # i
    <3>1. Saving(object[o].of)' = Saving(object[o].of)
      BY <1>1, <1>2, <2>2, <1>0 DEF Saving, i
    <3>2. persisted'[object[o].of] = persisted[object[o].of]
      BY <1>1, <2>1, <2>2
    <3>3. \A u \in Saving(object[o].of) : task'[u] = task[u]
      BY <1>2, <2>2 DEF Saving, i
    <3>4. QED
      BY <2>1, <3>1, <3>2, <3>3 DEF ShownIsSaved, AsPersisted
  <2>3. CASE object[o].of = i /\ kind = "extension"
    <3>1. Saving(object[o].of)' = {t}
      BY <1>1, <1>2, <1>4, <2>3 DEF Saving
    <3>2. t \in Saving(object[o].of)
      BY <1>0, <2>3 DEF Saving, i
    <3>3. task'[t].copy = object'[o].settings
      BY <1>2, <2>1, <2>3, <3>2 DEF ShownIsSaved, copy
    <3>4. QED
      BY <3>1, <3>3 DEF ShownIsSaved
  <2>4. CASE object[o].of = i /\ kind # "extension"
    <3>1. Saving(object[o].of)' = {}
      BY <1>1, <1>2, <1>4, <2>4 DEF Saving
    <3>2. t \in Saving(object[o].of)
      BY <1>0, <2>4 DEF Saving, i
    <3>3. object'[o].settings = copy
      BY <2>1, <3>2 DEF ShownIsSaved, copy
    <3>4. ASSUME NEW s \in DOMAIN copy PROVE s \in DOMAIN stored /\ stored[s] = copy[s]
      <4>1. s[1] \in Kinds
        BY <1>0, StoreFacts, SettingsAssumption
      <4>2. CASE s[1] = kind
        BY <1>3, <4>2
      <4>3. CASE s[1] # kind
        <5>1. kind = "search" /\ s[1] = "extension"
          BY <2>4, <4>1, <4>3 DEF Kinds
        <5>2. s \in DOMAIN persisted[i] /\ persisted[i][s] = copy[s]
          BY <1>0, <5>1 DEF SavedSoFar, i, copy
        <5>3. QED
          BY <1>3, <4>3, <5>2
      <4>4. QED
        BY <4>2, <4>3
    <3>5. AsPersisted(object[o].settings, object[o].of)'
      BY <1>1, <2>1, <2>4, <3>3, <3>4 DEF AsPersisted
    <3>6. QED
      BY <3>1, <3>5 DEF ShownIsSaved
  <2>5. QED
    BY <2>2, <2>3, <2>4
<1>8. QED
  BY <1>6, <1>7 DEF SettingsKept

\* A save begins: what its object shows is being stored, and no other object of
\* the extension shows what is.
LEMMA SaveBegins ==
  ASSUME TypeOK, TasksKnow, OneSaveEach', SettingsKept,
         NEW t \in Tasks, NEW o \in Objects, Save(t, o)
  PROVE  SettingsKept'
<1> DEFINE i == object[o].of
<1>0. o \in Live /\ task[t].op = "none" /\ \A p \in Live : object[p] \in Object
  <2>1. o \in Live /\ task[t] = Idle
    BY DEF Save, Free
  <2>2. QED
    BY <2>1, LiveFacts DEF Live, Idle
<1>1. /\ task'[t].op = "save" /\ task'[t].at = "extension" /\ task'[t].who = i
      /\ task'[t].copy = object[o].settings
      /\ \A u \in Tasks \ {t} : task'[u] = task[u]
      /\ UNCHANGED persisted
  BY DEF Save, Idle, TypeOK
<1>2. \A p \in Objects : object'[p] = IF p \in Live /\ object[p].of = i
                                      THEN [object[p] EXCEPT !.settled = (p = o)] ELSE object[p]
  BY DEF Save
<1> HIDE DEF i
<1>3. ASSUME NEW p \in Live'
      PROVE  /\ p \in Live /\ object'[p].of = object[p].of
             /\ object'[p].settings = object[p].settings
             /\ IF object[p].of = i THEN object'[p].settled = (p = o)
                ELSE object'[p].settled = object[p].settled
  <2>1. p \in Objects /\ object'[p].live
    BY DEF Live
  <2>2. CASE p \in Live /\ object[p].of = i
    <3>1. object[p] \in Object /\ object'[p] = [object[p] EXCEPT !.settled = (p = o)]
      BY <1>0, <1>2, <2>1, <2>2
    <3>2. QED
      BY <2>2, <3>1 DEF Object
  <2>3. CASE ~(p \in Live /\ object[p].of = i)
    <3>1. object'[p] = object[p]
      BY <1>2, <2>1, <2>3
    <3>2. p \in Live
      BY <2>1, <3>1 DEF Live
    <3>3. QED
      BY <2>3, <3>1, <3>2
  <2>4. QED
    BY <2>2, <2>3
<1>4. ASSUME NEW u \in Tasks PROVE SavedSoFar(u)'
  <2>1. SavedSoFar(u)
    BY DEF SettingsKept
  <2>2. QED
    BY <1>1, <2>1 DEF SavedSoFar
<1>5. ASSUME NEW p \in Live' PROVE ShownIsSaved(p)'
  <2>1. CASE object[p].of = i
    <3>1. Saving(object[p].of)' = {t}
      BY <1>1, <1>3, <2>1 DEF Saving, OneSaveEach
    <3>2. object'[p].settled => object'[p].settings = task'[t].copy
      BY <1>1, <1>3, <2>1
    <3>3. QED
      BY <3>1, <3>2 DEF ShownIsSaved
  <2>2. CASE object[p].of # i
    <3>1. ShownIsSaved(p)
      BY <1>3 DEF SettingsKept
    <3>2. Saving(object[p].of)' = Saving(object[p].of)
      BY <1>0, <1>1, <1>3, <2>2 DEF Saving
    <3>3. \A u \in Saving(object[p].of) : task'[u].copy = task[u].copy
      BY <1>0, <1>1 DEF Saving
    <3>4. QED
      BY <1>1, <1>3, <2>2, <3>1, <3>2, <3>3 DEF ShownIsSaved, AsPersisted
  <2>3. QED
    BY <2>1, <2>2
<1>6. QED
  BY <1>4, <1>5 DEF SettingsKept

\* Every step keeps what is shown, where the saves of an extension do not overlap.
LEMMA NextSettings ==
  TypeOK /\ TasksKnow /\ OneSaveEach /\ OneSaveEach' /\ SettingsKept /\ [Next]_vars
    => SettingsKept'
<1> SUFFICES ASSUME TypeOK, TasksKnow, OneSaveEach, OneSaveEach', SettingsKept, [Next]_vars
             PROVE  SettingsKept'
  OBVIOUS
<1>1. CASE End
  <2>1. Live' = {} /\ \A t \in Tasks : task'[t].op = "none"
    BY <1>1 DEF End, Live, NoObject, Idle
  <2>2. QED
    BY <2>1 DEF SettingsKept, SavedSoFar
<1>2. ASSUME ~(\E t \in Tasks : \E o \in Objects : Save(t, o)),
             UNCHANGED persisted,
             \A u \in Tasks :
               task[u].op = "save" \/ task'[u].op = "save" =>
                 /\ task'[u].op = task[u].op /\ task'[u].at = task[u].at
                 /\ task'[u].who = task[u].who /\ task'[u].copy = task[u].copy
      PROVE  SettingsKept'
  <2>1. ASSUME NEW u \in Tasks PROVE SavedSoFar(u)'
    <3>1. SavedSoFar(u)
      BY DEF SettingsKept
    <3>2. QED
      BY <1>2, <3>1 DEF SavedSoFar
  <2>2. ASSUME NEW i
        PROVE  /\ {u \in Tasks : task'[u].op = "save" /\ task'[u].who = i} = Saving(i)
               /\ \A u \in Saving(i) : task'[u].copy = task[u].copy
    BY <1>2 DEF Saving
  <2>3. ASSUME NEW o \in Live' PROVE ShownIsSaved(o)'
    <3> SUFFICES ASSUME object'[o].settled PROVE ShownIsSaved(o)'
      BY DEF ShownIsSaved
    <3>1. /\ o \in Live /\ object'[o].of = object[o].of
          /\ object'[o].settings = object[o].settings /\ object[o].settled
      BY <1>2, NextObjects DEF StaysTheSame, LoadedBy, ChangedAt
    <3> DEFINE i == object'[o].of
    <3>2. Saving(object[o].of)' = Saving(i) /\ \A u \in Saving(i) : task'[u].copy = task[u].copy
      BY <2>2 DEF Saving
    <3>3. ShownIsSaved(o)
      BY <3>1 DEF SettingsKept
    <3>4. QED
      BY <1>2, <3>1, <3>2, <3>3 DEF ShownIsSaved, AsPersisted
  <2>4. QED
    BY <2>1, <2>3 DEF SettingsKept
<1>3. ASSUME NEW t \in Tasks, SaveFails(t) PROVE SettingsKept'
  <2>1. /\ task[t].op = "save" /\ task'[t].op = "none" /\ \A u \in Tasks \ {t} : task'[u] = task[u]
        /\ UNCHANGED persisted
    BY <1>3 DEF SaveFails, Ends, TypeOK, Idle
  <2>2. ASSUME NEW u \in Tasks PROVE SavedSoFar(u)'
    <3>1. SavedSoFar(u)
      BY DEF SettingsKept
    <3>2. QED
      BY <2>1, <3>1 DEF SavedSoFar
  <2>3. ASSUME NEW o \in Live' PROVE ShownIsSaved(o)'
    <3> SUFFICES ASSUME object'[o].settled PROVE ShownIsSaved(o)'
      BY DEF ShownIsSaved
    <3>1. o \in Objects /\ object'[o].live
      BY DEF Live
    <3>2. ~(o \in Live /\ object[o].of = task[t].who) /\ object'[o] = object[o]
      <4>1. CASE o \in Live /\ object[o].of = task[t].who
        <5>1. object[o] \in Object /\ object'[o] = [object[o] EXCEPT !.settled = FALSE]
          BY <1>3, <3>1, <4>1, LiveFacts DEF SaveFails
        <5>2. QED
          BY <5>1 DEF Object
      <4>2. QED
        BY <1>3, <3>1, <4>1 DEF SaveFails
    <3>3. o \in Live /\ object[o].of # task[t].who /\ ShownIsSaved(o)
      BY <3>1, <3>2 DEF Live, SettingsKept
    <3>4. Saving(object[o].of)' = Saving(object[o].of)
      BY <2>1, <3>2, <3>3 DEF Saving
    <3>5. \A u \in Saving(object[o].of) : task'[u] = task[u]
      BY <2>1, <3>3 DEF Saving
    <3>6. QED
      BY <2>1, <3>2, <3>3, <3>4, <3>5 DEF ShownIsSaved, AsPersisted
  <2>4. QED
    BY <2>2, <2>3 DEF SettingsKept
<1>4. QED
  BY <1>1, <1>2, <1>3, NextSaves, SaveStep, SaveBegins

\* Whatever the application and the script set and register: what an object
\* shows once it is saved is what a restart brings back, unless a setting of it
\* was changed, or another object of the extension saved, since; as long as the
\* saves of an extension do not overlap, for of two that do each may store one of
\* the kinds.
THEOREM ShownIsRestored == Spec /\ []OneSaveEach => []ShownIsPersisted
<1>1. Init => SettingsKept
  BY DEF Init, SettingsKept, SavedSoFar, Live, NoObject, Idle
<1>2. SettingsKept => ShownIsPersisted
  BY DEF SettingsKept, ShownIsSaved, ShownIsPersisted
<1>3. QED
  BY <1>1, <1>2, InitTypes, NextTypes, NextSettings, PTL DEF Spec

\* One operation at a time is enough for that.
THEOREM SavesInTurn ==
  ASSUME \A u \in Uses : "save" \in u.does => u.tasks = 1
  PROVE  Spec => []ShownIsPersisted
<1> DEFINE NoSave == ~Does("save") => \A t \in Tasks : task[t].op # "save"
<1>1. Init => OneAtATime /\ NoSave
  BY DEF Init, Idle, OneAtATime
<1>2. TypeOK /\ TasksKnow /\ OneAtATime /\ NoSave /\ [Next]_vars => OneAtATime' /\ NoSave'
  <2> SUFFICES ASSUME TypeOK, TasksKnow, OneAtATime, NoSave, [Next]_vars
               PROVE  NoSave'
    BY NextOne
  <2>1. ~Does("save")' => ~Does("save")
    BY UseStays DEF Does
  <2>2. (\A u \in Tasks : GoesOn(task[u], task[u]')) => NoSave'
    BY <2>1 DEF GoesOn
  <2>3. ASSUME NEW t \in Tasks, Begins(t) PROVE NoSave'
    <3>1. ~Does("save") => task'[t].op # "save"
      BY <2>3 DEF Begins, Save
    <3>2. QED
      BY <2>1, <2>3, <3>1 DEF Begins
  <2>4. QED
    BY <2>2, <2>3, NextGoesOn
<1>3. TypeOK /\ OneAtATime /\ NoSave => OneSaveEach
  BY DEF TypeOK, OneAtATime, OneSaveEach, Does
<1> HIDE DEF NoSave
<1>4. Spec => []OneSaveEach
  BY <1>1, <1>2, <1>3, InitTypes, NextTypes, PTL DEF Spec
<1>5. QED
  BY <1>4, ShownIsRestored, PTL

-----------------------------------------------------------------------------
(* Values that survive: everything that may be saved agrees on them.        *)

ObjectAgrees(o) ==
  \A s \in DOMAIN persisted[object[o].of] :
    \/ << object[o].of, s >> \in excused
    \/ Shows(object[o].settings, s, persisted[object[o].of][s])

SaveAgrees(t) ==
  task[t].op = "save" =>
    \A s \in DOMAIN persisted[task[t].who] :
      \/ << task[t].who, s >> \in excused
      \/ Shows(task[t].copy, s, persisted[task[t].who][s])

SettingsAgree == (\A o \in Live : ObjectAgrees(o)) /\ \A t \in Tasks : SaveAgrees(t)

\* A value that changes is excused.
LEMMA ChangeAgrees ==
  ASSUME NEW o \in Objects, NEW s \in Settings, ChangedAt(o, s), ObjectAgrees(o)
  PROVE  ObjectAgrees(o)'
<1>1. PICK settings : /\ Change(o, s, settings) /\ object'[o].settings = settings
                      /\ ChangesOnly(object[o].settings, s, settings)
  BY DEF ChangedAt
<1> DEFINE i == object[o].of
           store == object[o].settings
<1>2. /\ object'[o].of = i /\ UNCHANGED persisted /\ excused \subseteq excused'
      /\ s \in DOMAIN store /\ settings[s].value # store[s].value => << i, s >> \in excused'
  BY <1>1 DEF ChangedAt, Change
<1>3. ASSUME NEW x \in DOMAIN persisted[i], << i, x >> \notin excused'
      PROVE  Shows(settings, x, persisted[i][x])
  <2>1. Shows(store, x, persisted[i][x])
    BY <1>2, <1>3 DEF ObjectAgrees
  <2>2. x \in DOMAIN settings /\ settings[x].value = store[x].value
    BY <1>1, <1>2, <1>3, <2>1 DEF ChangesOnly, Shows
  <2>3. QED
    BY <2>1, <2>2 DEF Shows
<1> HIDE DEF i, store
<1>4. QED
  BY <1>1, <1>2, <1>3 DEF ObjectAgrees

\* An object that is loaded shows what is stored, or does not and that is excused.
LEMMA LoadAgrees ==
  ASSUME TypeOK, NEW o \in Objects, NEW t \in Tasks, LoadedBy(o, t)
  PROVE  ObjectAgrees(o)'
<1> DEFINE i == task[t].file.id
           declares == Declares[task[t].file.version]
<1>1. PICK loaded \in Loads(i) :
        /\ object'[o].settings = MergeAll(loaded, declares)
        /\ excused' = excused \cup ({i} \X NotTaken(i, loaded, declares))
  BY DEF LoadedBy
<1>2. /\ i \in Ids /\ object'[o].of = i /\ persisted' = persisted
      /\ declares \in Store /\ persisted \in [Ids -> Store]
  BY AdapterAssumption DEF LoadedBy, OpenExtension, TypeOK
<1>3. loaded \in Store /\ \A s \in DOMAIN loaded : /\ s \in DOMAIN persisted[i]
                                                    /\ loaded[s] = persisted[i][s]
  <2>1. Loads(i) \subseteq Store
    BY <1>2, LoadsStores
  <2>2. DOMAIN NoSettings = {}
    BY StoreFacts
  <2>3. \A s \in DOMAIN StoreKind(NoSettings, persisted[i], "extension") :
          /\ s \in DOMAIN persisted[i]
          /\ StoreKind(NoSettings, persisted[i], "extension")[s] = persisted[i][s]
    BY <2>2 DEF StoreKind
  <2>4. QED
    BY <2>1, <2>2, <2>3 DEF Loads
<1> HIDE DEF i, declares
<1>4. ASSUME NEW s \in DOMAIN persisted[i], << i, s >> \notin excused'
      PROVE  Shows(MergeAll(loaded, declares), s, persisted[i][s])
  <2>1. s \notin NotTaken(i, loaded, declares)
    BY <1>1, <1>4
  <2>2. /\ s \in DOMAIN loaded
        /\ ~(s \in DOMAIN declares /\ declares[s].value.type # persisted[i][s].value.type)
    BY <1>4, <2>1 DEF NotTaken
  <2>3. loaded[s] = persisted[i][s]
    BY <1>3, <2>2
  <2> DEFINE m == MergeAll(loaded, declares)
  <2>4. loaded \in Store /\ declares \in Store
    BY <1>2, <1>3
  <2>5. /\ DOMAIN m = DOMAIN loaded \cup DOMAIN declares
        /\ \A x \in DOMAIN loaded :
             m[x].value = IF x \in DOMAIN declares /\ declares[x].value.type # loaded[x].value.type
                          THEN declares[x].value ELSE loaded[x].value
    BY <2>4, MergedAll
  <2> HIDE DEF m
  <2>6. Shows(m, s, persisted[i][s])
    BY <2>2, <2>3, <2>5 DEF Shows
  <2>7. QED
    BY <2>6 DEF m
<1>5. QED
  BY <1>1, <1>2, <1>4 DEF ObjectAgrees

\* What is stored agrees with every other object and save, or is excused.
LEMMA SaveKindAgrees ==
  ASSUME TypeOK, TasksKnow, SettingsAgree, NEW t \in Tasks, NEW kind \in Kinds, SaveKind(t, kind)
  PROVE  /\ SettingsAgree'
         /\ \A i \in Ids : \A s \in DOMAIN persisted[i] :
              Shows(persisted'[i], s, persisted[i][s]) \/ << i, s >> \in excused
<1> DEFINE i == task[t].who
           copy == task[t].copy
           stored == StoreKind(persisted[i], copy, kind)
<1>0. /\ task[t].op = "save" /\ i \in Ids /\ copy \in Store /\ SaveAgrees(t)
      /\ persisted \in [Ids -> Store] /\ task \in [Tasks -> TaskState]
  BY StepsOf DEF SaveKind, TaskKnows, TaskState, TypeOK, SettingsAgree
<1>1. /\ persisted'[i] = stored /\ \A j \in Ids \ {i} : persisted'[j] = persisted[j]
      /\ UNCHANGED object /\ excused' = excused \cup ({i} \X NewToSome(t, kind))
  BY <1>0 DEF SaveKind
<1>2. \A u \in Tasks : task'[u].op = "save" =>
        task[u].op = "save" /\ task'[u].who = task[u].who /\ task'[u].copy = task[u].copy
  <2>1. CASE kind = "extension"
    <3>1. task' = [task EXCEPT ![t].at = "search"]
      BY <2>1 DEF SaveKind, Goto
    <3>2. QED
      BY <1>0, <3>1, Went
  <2>2. CASE kind # "extension"
    BY <1>0, <2>2 DEF SaveKind, Ends, Idle
  <2>3. QED
    BY <2>1, <2>2
<1>3. /\ \A s \in DOMAIN stored : IF s[1] = kind THEN s \in DOMAIN copy /\ stored[s] = copy[s]
                                 ELSE s \in DOMAIN persisted[i] /\ stored[s] = persisted[i][s]
      /\ \A s \in DOMAIN copy : s[1] = kind => s \in DOMAIN stored
      /\ \A s \in DOMAIN persisted[i] : s[1] # kind => s \in DOMAIN stored
  BY DEF StoreKind
<1>4. SaveAgrees(t) => \A s \in DOMAIN persisted[i] :
                         << i, s >> \in excused \/ Shows(copy, s, persisted[i][s])
  BY <1>0 DEF SaveAgrees
<1> HIDE DEF i, copy, stored
<1>5. ASSUME NEW settings, NEW s \in DOMAIN stored, << i, s >> \notin excused',
             \A x \in DOMAIN persisted[i] :
               << i, x >> \in excused \/ Shows(settings, x, persisted[i][x]),
             \A x \in DOMAIN copy \ DOMAIN persisted[i] :
               x[1] = kind /\ ~Shows(settings, x, copy[x]) => x \in NewToSome(t, kind)
      PROVE  Shows(settings, s, stored[s])
  <2>1. << i, s >> \notin excused /\ s \notin NewToSome(t, kind)
    BY <1>1, <1>5
  <2>2. CASE s[1] # kind
    BY <1>3, <1>5, <2>1, <2>2
  <2>3. CASE s[1] = kind /\ s \in DOMAIN persisted[i]
    <3>1. Shows(settings, s, persisted[i][s]) /\ Shows(copy, s, persisted[i][s])
      BY <1>0, <1>4, <1>5, <2>1, <2>3
    <3>2. stored[s] = copy[s]
      BY <1>3, <2>3
    <3>3. QED
      BY <3>1, <3>2 DEF Shows
  <2>4. CASE s[1] = kind /\ s \notin DOMAIN persisted[i]
    <3>1. s \in DOMAIN copy /\ stored[s] = copy[s]
      BY <1>3, <2>4
    <3>2. QED
      BY <1>5, <2>1, <2>4, <3>1
  <2>5. QED
    BY <2>2, <2>3, <2>4
<1>6. ASSUME NEW o \in Live' PROVE ObjectAgrees(o)'
  <2>1. o \in Live /\ object'[o] = object[o] /\ ObjectAgrees(o) /\ object[o].of \in Ids
    BY <1>1, LiveFacts DEF Live, SettingsAgree, Object
  <2>2. CASE object[o].of = i
    <3> DEFINE settings == object[o].settings
    <3>1. \A x \in DOMAIN persisted[i] :
            << i, x >> \in excused \/ Shows(settings, x, persisted[i][x])
      BY <2>1, <2>2 DEF ObjectAgrees
    <3>2. \A x \in DOMAIN copy \ DOMAIN persisted[i] :
            x[1] = kind /\ ~Shows(settings, x, copy[x]) => x \in NewToSome(t, kind)
      BY <2>1, <2>2 DEF NewToSome, i, copy
    <3> HIDE DEF settings
    <3>3. \A s \in DOMAIN stored : << i, s >> \in excused' \/ Shows(settings, s, stored[s])
      BY <1>5, <3>1, <3>2
    <3>4. QED
      BY <1>1, <2>1, <2>2, <3>3 DEF ObjectAgrees, settings
  <2>3. CASE object[o].of # i
    BY <1>1, <2>1, <2>3 DEF ObjectAgrees
  <2>4. QED
    BY <2>2, <2>3
<1>7. ASSUME NEW u \in Tasks PROVE SaveAgrees(u)'
  <2> SUFFICES ASSUME task'[u].op = "save" PROVE SaveAgrees(u)'
    BY DEF SaveAgrees
  <2>1. /\ task[u].op = "save" /\ task'[u].who = task[u].who /\ task'[u].copy = task[u].copy
        /\ SaveAgrees(u) /\ task[u].who \in Ids
    BY <1>2, StepsOf DEF SettingsAgree, TaskKnows
  <2>2. CASE task[u].who = i
    <3> DEFINE settings == task[u].copy
    <3>1. \A x \in DOMAIN persisted[i] :
            << i, x >> \in excused \/ Shows(settings, x, persisted[i][x])
      BY <2>1, <2>2 DEF SaveAgrees
    <3>2. \A x \in DOMAIN copy \ DOMAIN persisted[i] :
            x[1] = kind /\ ~Shows(settings, x, copy[x]) => x \in NewToSome(t, kind)
      BY <2>1, <2>2 DEF NewToSome, Saving, i, copy
    <3> HIDE DEF settings
    <3>3. \A s \in DOMAIN stored : << i, s >> \in excused' \/ Shows(settings, s, stored[s])
      BY <1>5, <3>1, <3>2
    <3>4. QED
      BY <1>1, <2>1, <2>2, <3>3 DEF SaveAgrees, settings
  <2>3. CASE task[u].who # i
    BY <1>1, <2>1, <2>3 DEF SaveAgrees
  <2>4. QED
    BY <2>2, <2>3
<1>8. ASSUME NEW s \in DOMAIN persisted[i], << i, s >> \notin excused
      PROVE  Shows(stored, s, persisted[i][s])
  <2>1. CASE s[1] # kind
    BY <1>3, <1>8, <2>1 DEF Shows
  <2>2. CASE s[1] = kind
    <3>1. Shows(copy, s, persisted[i][s])
      BY <1>0, <1>4, <1>8
    <3>2. QED
      BY <1>3, <2>2, <3>1 DEF Shows
  <2>3. QED
    BY <2>1, <2>2
<1>9. ASSUME NEW j \in Ids, j # i, NEW s \in DOMAIN persisted[j]
      PROVE  Shows(persisted'[j], s, persisted[j][s])
  BY <1>1, <1>9 DEF Shows
<1>10. QED
  BY <1>1, <1>6, <1>7, <1>8, <1>9 DEF SettingsAgree

\* What is excused stays excused while the process goes on.
LEMMA ExcusesStay == [Next]_vars /\ ~End => excused \subseteq excused'
<1> SUFFICES ASSUME [Next]_vars, ~End PROVE excused \subseteq excused'
  OBVIOUS
<1>1. UNCHANGED excused => excused \subseteq excused'
  OBVIOUS
<1>2. ASSUME NEW o, NEW s, NEW settings, Change(o, s, settings) PROVE excused \subseteq excused'
  BY <1>2 DEF Change
<1>3. ASSUME NEW t \in Tasks, OpenExtension(t) PROVE excused \subseteq excused'
  BY <1>3 DEF OpenExtension
<1>4. ASSUME NEW t \in Tasks, NEW kind \in Kinds, SaveKind(t, kind)
      PROVE  excused \subseteq excused'
  BY <1>4 DEF SaveKind
<1>5. ASSUME NEW t \in Tasks, Step(t) PROVE excused \subseteq excused'
  BY <1>1, <1>3, <1>4, <1>5
     DEF Step, CreateFile, WritePart, WriteRest, Write, WriteFails, CutShort, ReadExtension,
         RemoveFailed, RemoveFile, RemoveUninstalled, RemoveFails, ScanNext, SaveFails
<1>6. QED
  BY <1>1, <1>2, <1>5
     DEF Next, Install, InstallCopy, Starts, Scan, Uninstall, Save, Set, RegisterSetting,
         Reload, Fetched, WriteCookies, IntervalPasses, Drop, vars

\* Every step keeps that agreement, and stores what was agreed on.
LEMMA NextAgrees ==
  TypeOK /\ TasksKnow /\ SettingsAgree /\ [Next]_vars =>
    /\ SettingsAgree'
    /\ \A i \in Ids : \A s \in DOMAIN persisted[i] :
         Shows(persisted'[i], s, persisted[i][s]) \/ << i, s >> \in excused
<1> DEFINE Survives == \A i \in Ids : \A s \in DOMAIN persisted[i] :
                         Shows(persisted'[i], s, persisted[i][s]) \/ << i, s >> \in excused
<1> SUFFICES ASSUME TypeOK, TasksKnow, SettingsAgree, [Next]_vars PROVE SettingsAgree' /\ Survives
  OBVIOUS
<1>1. UNCHANGED persisted => Survives
  BY DEF Shows
<1>2. CASE End
  <2>1. Live' = {} /\ UNCHANGED persisted /\ \A t \in Tasks : task'[t].op = "none"
    BY <1>2 DEF End, Live, NoObject, Idle
  <2>2. QED
    BY <1>1, <2>1 DEF SettingsAgree, SaveAgrees
<1>3. ASSUME NEW t \in Tasks, NEW kind \in Kinds, SaveKind(t, kind) PROVE SettingsAgree' /\ Survives
  BY <1>3, SaveKindAgrees
<1>4. ASSUME UNCHANGED persisted, excused \subseteq excused', \A u \in Tasks : SaveAgrees(u)'
      PROVE  SettingsAgree' /\ Survives
  <2>1. ASSUME NEW o \in Live' PROVE ObjectAgrees(o)'
    <3>0. o \in Objects
      BY DEF Live
    <3>1. CASE StaysTheSame(o)
      <4>1. /\ object'[o].of = object[o].of /\ object'[o].settings = object[o].settings
            /\ ObjectAgrees(o)
        BY <3>1 DEF StaysTheSame, SettingsAgree
      <4>2. QED
        BY <1>4, <4>1 DEF ObjectAgrees
    <3>2. ASSUME NEW t \in Tasks, LoadedBy(o, t) PROVE ObjectAgrees(o)'
      BY <3>0, <3>2, LoadAgrees
    <3>3. ASSUME NEW s \in Settings, ChangedAt(o, s) PROVE ObjectAgrees(o)'
      <4>1. ObjectAgrees(o)
        BY <3>3 DEF ChangedAt, SettingsAgree
      <4>2. QED
        BY <3>0, <3>3, <4>1, ChangeAgrees
    <3>4. QED
      BY <3>1, <3>2, <3>3, NextObjects
  <2>2. QED
    BY <1>1, <1>4, <2>1 DEF SettingsAgree
<1>5. ASSUME ~End, UNCHANGED persisted,
             \A u \in Tasks : task'[u].op = "save" =>
               \/ task[u].op = "save" /\ task'[u].who = task[u].who /\ task'[u].copy = task[u].copy
               \/ \E o \in Live : task'[u].who = object[o].of /\ task'[u].copy = object[o].settings
      PROVE  SettingsAgree' /\ Survives
  <2>1. excused \subseteq excused'
    BY <1>5, ExcusesStay
  <2>2. ASSUME NEW u \in Tasks PROVE SaveAgrees(u)'
    <3> SUFFICES ASSUME task'[u].op = "save" PROVE SaveAgrees(u)'
      BY DEF SaveAgrees
    <3>1. CASE task[u].op = "save" /\ task'[u].who = task[u].who /\ task'[u].copy = task[u].copy
      <4>1. SaveAgrees(u)
        BY DEF SettingsAgree
      <4>2. QED
        BY <1>5, <2>1, <3>1, <4>1 DEF SaveAgrees
    <3>2. ASSUME NEW o \in Live, task'[u].who = object[o].of, task'[u].copy = object[o].settings
          PROVE  SaveAgrees(u)'
      <4>1. ObjectAgrees(o)
        BY DEF SettingsAgree
      <4>2. QED
        BY <1>5, <2>1, <3>2, <4>1 DEF SaveAgrees, ObjectAgrees
    <3>3. QED
      BY <1>5, <3>1, <3>2
  <2>3. QED
    BY <1>4, <1>5, <2>1, <2>2
<1>6. ASSUME NEW t \in Tasks, NEW o \in Objects, Save(t, o) PROVE SettingsAgree' /\ Survives
  <2>1. /\ UNCHANGED persisted /\ o \in Live /\ \A u \in Tasks \ {t} : task'[u] = task[u]
        /\ task'[t].who = object[o].of /\ task'[t].copy = object[o].settings
    BY <1>6 DEF Save, TypeOK, Idle
  <2>2. CASE ~End
    BY <1>5, <2>1, <2>2
  <2>3. QED
    BY <1>2, <2>2
<1>7. ASSUME NEW t \in Tasks, SaveFails(t) PROVE SettingsAgree' /\ Survives
  <2>1. /\ UNCHANGED persisted /\ \A u \in Tasks \ {t} : task'[u] = task[u]
        /\ task'[t].op = "none"
    BY <1>7 DEF SaveFails, Ends, TypeOK, Idle
  <2>2. CASE ~End
    BY <1>5, <2>1, <2>2
  <2>3. QED
    BY <1>2, <2>2
<1> HIDE DEF Survives
<1>8. QED
  BY <1>2, <1>3, <1>5, <1>6, <1>7, NextSaves

\* Loads, updates, saves and restarts keep the value of every setting the host
\* has, until in this process the application or the script changes it, a
\* version declares it with another type, a load fails, or it was new to one
\* object of the extension and not to another.
THEOREM SavedValuesSurvive == Spec => SettingsSurvive
<1> DEFINE Survives == \A i \in Ids : \A s \in DOMAIN persisted[i] :
                         Shows(persisted'[i], s, persisted[i][s]) \/ << i, s >> \in excused
<1>1. Init => SettingsAgree
  BY DEF Init, SettingsAgree, SaveAgrees, Live, NoObject, Idle
<1>2. TypeOK /\ TasksKnow /\ SettingsAgree /\ [Next]_vars => SettingsAgree' /\ Survives
  BY NextAgrees
<1> HIDE DEF Survives
<1>3. Spec => [][Survives]_vars
  BY <1>1, <1>2, InitTypes, NextTypes, PTL DEF Spec
<1>4. QED
  BY <1>3, PTL DEF SettingsSurvive, Survives
=============================================================================
