--------------------------- MODULE ExtensionAdapter ---------------------------
(***************************************************************************)
(* Extensions on disk and the objects the application loads from them:     *)
(* install, uninstall and get_extensions as the steps they take on the     *)
(* directory, the settings the application sets and saves, the cookies an  *)
(* extension's requests collect, calls that fail, and a process that may     *)
(* end at any point.                                                       *)
(*                                                                         *)
(* Two objects of one extension, an old and an updated one or two results  *)
(* of get_extensions, share the data the host keeps for its id, settings   *)
(* and cookies, but each has its own copy in memory.                       *)
(***************************************************************************)
EXTENDS SettingStore, Naturals, FiniteSets

CONSTANTS
  Ids, Versions,
  Names,       \* files in the directory whose names end in .dion.js
  NameOf,      \* the name install gives the file of each id
  Declares,    \* the definitions in the manifest of each version
  Unloadable,  \* versions whose definitions have an id with '/'
  Objects,     \* DionExtension values; a dropped one stands for a new one
  Tasks,       \* futures of the application
  Uses,        \* what applications do, see Usage
  MaxCookies,  \* bound: changes of a cookie jar
  Absent, Empty, Torn, None

Contents == [id : Ids, version : Versions, whole : BOOLEAN]
Whole    == {c \in Contents : c.whole}
Usage    == [does : SUBSET {"install", "copy", "uninstall", "scan", "save", "register",
                            "reload", "fetch", "drop", "fail", "end"},
             dirs : SUBSET [Names -> Whole \cup {Absent}],
             installs : SUBSET Whole,  \* what it installs
             sets : SUBSET (Settings \X Values),
             tasks : Nat, objects : Nat]  \* bounds: how many at a time

ASSUME AdapterAssumption ==
  /\ NameOf \in [Ids -> Names]
  /\ \A i, j \in Ids : NameOf[i] = NameOf[j] => i = j
  /\ DOMAIN Declares = Versions /\ \A v \in Versions : Declares[v] \in Store
  /\ Unloadable \subseteq Versions
  /\ Uses \subseteq Usage
  /\ MaxCookies \in Nat
  /\ IsFiniteSet(Tasks)
  /\ {Absent, Empty, None} \cap Contents = {} /\ {Absent, Torn} \cap Nat = {}
  /\ Absent # Empty /\ Absent # None /\ Empty # None /\ Absent # Torn
  /\ None \notin Names \cup Ids

VARIABLES
  use,       \* what this application does
  dir,       \* the directory of the extensions
  task,      \* where each future is
  object,    \* the objects the application holds
  persisted, \* the settings the host keeps for each id
  cookies,   \* the file .cookies of each id
  cut,       \* history: files whose writing a failure or an end of the process cut short
  excused    \* history: settings of an id that a save may change or drop

vars == << use, dir, task, object, persisted, cookies, cut, excused >>

Idle == [op |-> "none", at |-> "idle", name |-> None, file |-> None, who |-> None,
         linked |-> FALSE, todo |-> {}, copy |-> NoSettings]

NoObject == [live |-> FALSE]

Init ==
  /\ use \in Uses
  /\ dir \in use.dirs
  /\ task = [t \in Tasks |-> Idle]
  /\ object = [o \in Objects |-> NoObject]
  /\ persisted = [i \in Ids |-> NoSettings]
  /\ cookies = [i \in Ids |-> Absent]
  /\ cut = {}
  /\ excused = {}

Does(what) == what \in use.does
Free(t) ==
  /\ task[t] = Idle
  /\ Cardinality({x \in Tasks : task[x] # Idle}) < use.tasks
At(t, at) == task[t].at = at
Goto(t, at) == task' = [task EXCEPT ![t].at = at]
Ends(t) == task' = [task EXCEPT ![t] = Idle]
Live == {o \in Objects : object[o].live}

-----------------------------------------------------------------------------
(* install. *)

\* peek_manifest and read_extension look at the first line only.
Readable(n) == dir[n] \notin {Absent, Empty}

Damaged(n) == dir[n] = Empty \/ (dir[n] # Absent /\ ~dir[n].whole)

Installing(n) == {t \in Tasks : task[t].op = "install" /\ task[t].name = n}

\* Bound: the application does not install an id while it installs it.
Starts(t, release, what) ==
  /\ Free(t) /\ Installing(NameOf[release.id]) = {}
  /\ task' = [task EXCEPT ![t] = [Idle EXCEPT !.op = "install", !.at = "create",
                                              !.name = NameOf[release.id], !.file = what]]
  /\ UNCHANGED << use, dir, object, persisted, cookies, cut, excused >>

\* The manifest of a download has been read and its id is safe.
Install(t, release) ==
  Does("install") /\ release \in use.installs /\ Starts(t, release, release)

\* A file:// location in the directory itself; a file that is copied to itself
\* is truncated before it is read.
InstallCopy(t, n) ==
  /\ Does("copy") /\ Readable(n)
  /\ Starts(t, dir[n], IF NameOf[dir[n].id] = n THEN Empty ELSE dir[n])

\* write and copy truncate the file they write to.
CreateFile(t) ==
  /\ At(t, "create")
  /\ dir' = [dir EXCEPT ![task[t].name] = Empty]
  /\ cut' = cut \ {task[t].name}
  /\ task' = [task EXCEPT ![t].at = "write", ![t].linked = TRUE]
  /\ UNCHANGED << use, object, persisted, cookies, excused >>

\* A file that was removed since it was opened is written to, but not listed.
Write(t, content) ==
  /\ dir' = IF task[t].linked THEN [dir EXCEPT ![task[t].name] = content] ELSE dir
  /\ UNCHANGED << use, object, persisted, cookies, cut, excused >>

WritePart(t) ==
  /\ At(t, "write") /\ task[t].file # Empty
  /\ Write(t, [task[t].file EXCEPT !.whole = FALSE])
  /\ Goto(t, "write rest")

WriteRest(t) ==
  /\ At(t, "write rest") \/ (At(t, "write") /\ task[t].file = Empty)
  /\ Write(t, task[t].file)
  /\ Goto(t, "read")

\* What a task leaves behind that ends before its file is written or removed.
CutShort(t) ==
  /\ Ends(t)
  /\ cut' = cut \cup {n \in {task[t].name} : Damaged(n)}
  /\ UNCHANGED << use, dir, object, persisted, cookies, excused >>

\* write or copy fails, and nothing is cleared up.
WriteFails(t) ==
  /\ Does("fail")
  /\ At(t, "create") \/ At(t, "write") \/ At(t, "write rest")
  /\ CutShort(t)

\* Whoever still writes to the file that is removed does so in vain.
RemoveFile(t, n) ==
  /\ dir' = [dir EXCEPT ![n] = Absent]
  /\ cut' = cut \ {n}
  /\ task' = [x \in Tasks |-> IF x = t THEN Idle
                              ELSE IF task[x].name = n THEN [task[x] EXCEPT !.linked = FALSE]
                              ELSE task[x]]
  /\ UNCHANGED << use, object, persisted, cookies, excused >>

\* Mutant: a failed install leaves its file.
MutantRemoveFailed(t) ==
  /\ At(t, "failed") /\ Ends(t)
  /\ UNCHANGED << use, dir, object, persisted, cookies, cut, excused >>

RemoveFailed(t) == At(t, "failed") /\ RemoveFile(t, task[t].name)

\* remove_file fails, for a failed install or for uninstall.
RemoveFails(t) ==
  /\ Does("fail")
  /\ At(t, "failed") \/ At(t, "remove")
  /\ CutShort(t)

-----------------------------------------------------------------------------
(* create, for install and for each file get_extensions finds. *)

\* get_extensions only logs what fails.
Fails(t) ==
  task' = [task EXCEPT ![t].at = IF task[t].op = "install" THEN "failed" ELSE "next"]

\* read_extension.
ReadExtension(t) ==
  /\ At(t, "read")
  /\ IF Readable(task[t].name)
     THEN task' = [task EXCEPT ![t].at = "open", ![t].file = dir[task[t].name]]
     ELSE Fails(t)
  /\ UNCHANGED << use, dir, object, persisted, cookies, cut, excused >>

Loadable(id, version) == cookies[id] # Torn /\ version \notin Unloadable

\* Mutant: without a file there is no jar.
MutantJarOf(id) == cookies[id]

JarOf(id) == IF cookies[id] = Absent THEN 0 ELSE cookies[id]

Saving(id) == {t \in Tasks : task[t].op = "save" /\ task[t].who = id}

\* What an object shows and a restart would bring back.
AsPersisted(settings, id) ==
  \A s \in DOMAIN settings :
    settings[s].value = IF s \in DOMAIN persisted[id] THEN persisted[id][s].value
                        ELSE settings[s].default

\* A load that fails, or fails after the first kind, goes unnoticed.
Loads(id) ==
  {persisted[id]} \cup
  (IF Does("fail") THEN {NoSettings, StoreKind(NoSettings, persisted[id], "extension")} ELSE {})

\* The settings of an id whose values an object that loads does not show.
NotTaken(id, loaded, declares) ==
  {s \in DOMAIN persisted[id] :
     \/ s \notin DOMAIN loaded
     \/ s \in DOMAIN declares /\ declares[s].value.type # persisted[id][s].value.type}

\* Cookies and settings are loaded, and the definitions of the manifest merged.
\* Bound: an object the application has no room for it drops at once.
OpenExtension(t) ==
  /\ At(t, "open")
  /\ LET file     == task[t].file
         declares == Declares[file.version]
     IN
     IF ~Loadable(file.id, file.version)
     THEN Fails(t) /\ UNCHANGED << object, excused >>
     ELSE \E loaded \in Loads(file.id) :
          /\ excused' = excused \cup ({file.id} \X NotTaken(file.id, loaded, declares))
          /\ \/ Cardinality(Live) = use.objects /\ UNCHANGED object
             \/ \E o \in Objects \ Live :
                  /\ Cardinality(Live) < use.objects
                  /\ object' = [object EXCEPT ![o] =
                    [live |-> TRUE, of |-> file.id, id |-> file.id, version |-> file.version,
                     name |-> task[t].name, settings |-> MergeAll(loaded, declares),
                     settled |-> FALSE, jar |-> JarOf(file.id),
                     recent |-> TRUE, saving |-> FALSE]]
          /\ IF task[t].op = "install" THEN Ends(t) ELSE Goto(t, "next")
  /\ UNCHANGED << use, dir, persisted, cookies, cut >>

-----------------------------------------------------------------------------
(* get_extensions and uninstall. *)

Scan(t) ==
  /\ Does("scan") /\ Free(t)
  /\ task' = [task EXCEPT ![t] = [Idle EXCEPT !.op = "scan", !.at = "next",
                                              !.todo = {n \in Names : dir[n] # Absent}]]
  /\ UNCHANGED << use, dir, object, persisted, cookies, cut, excused >>

ScanNext(t) ==
  /\ At(t, "next")
  /\ \/ task[t].todo = {} /\ Ends(t)
     \/ \E n \in task[t].todo :
          task' = [task EXCEPT ![t].at = "read", ![t].name = n, ![t].todo = @ \ {n}]
  /\ UNCHANGED << use, dir, object, persisted, cookies, cut, excused >>

\* Mutant: the canonical name is not looked into.
MutantHolding(id) == IF Readable(NameOf[id]) THEN {NameOf[id]}
                     ELSE {n \in Names : Readable(n) /\ dir[n].id = id}

\* The canonical name if its manifest has the id, else any that has.
Holding(id) ==
  LET found == {n \in Names : Readable(n) /\ dir[n].id = id}
  IN IF NameOf[id] \in found THEN {NameOf[id]} ELSE found

\* Without a file of that id it is an error.
Uninstall(t, o) ==
  /\ Does("uninstall") /\ Free(t) /\ o \in Live
  /\ \E n \in Holding(object[o].id) :
       task' = [task EXCEPT ![t] = [Idle EXCEPT !.op = "uninstall", !.at = "remove",
                                                !.name = n, !.who = object[o].id]]
  /\ UNCHANGED << use, dir, object, persisted, cookies, cut, excused >>

RemoveUninstalled(t) == At(t, "remove") /\ RemoveFile(t, task[t].name)

-----------------------------------------------------------------------------
(* The settings of an object. *)

Change(o, s, settings) ==
  /\ object' = [object EXCEPT ![o].settings = settings, ![o].settled = FALSE]
  /\ excused' = IF s \in DOMAIN object[o].settings /\ settings[s].value # object[o].settings[s].value
                THEN excused \cup {<< object[o].of, s >>} ELSE excused
  /\ UNCHANGED << use, dir, task, persisted, cookies, cut >>

\* set_setting does not compare types.
Set(o, s, value) ==
  /\ << s, value >> \in use.sets /\ o \in Live /\ s \in DOMAIN object[o].settings
  /\ Change(o, s, SetSetting(object[o].settings, s, value))

\* registerSetting of the script, with a definition of some version.
RegisterSetting(o, s, version) ==
  /\ Does("register") /\ o \in Live /\ s \in DOMAIN Declares[version]
  /\ Change(o, s, MergeDefinition(object[o].settings, s, Declares[version][s]))

\* A save persists a copy; whatever the other objects of the id show is no
\* longer what is persisted.
Save(t, o) ==
  /\ Does("save") /\ Free(t) /\ o \in Live
  /\ task' = [task EXCEPT ![t] = [Idle EXCEPT !.op = "save", !.at = "extension",
                                              !.who = object[o].of,
                                              !.copy = object[o].settings]]
  /\ object' = [x \in Objects |->
                  IF x \in Live /\ object[x].of = object[o].of
                  THEN [object[x] EXCEPT !.settled = (x = o)] ELSE object[x]]
  /\ UNCHANGED << use, dir, persisted, cookies, cut, excused >>

Shows(store, s, setting) == s \in DOMAIN store /\ store[s].value = setting.value

\* The settings a save is the first to store, but for which another object of
\* the id, or another save, has something else or nothing.
NewToSome(t, kind) ==
  LET id   == task[t].who
      copy == task[t].copy
  IN {s \in DOMAIN copy \ DOMAIN persisted[id] :
        /\ s[1] = kind
        /\ \/ \E o \in Live : object[o].of = id /\ ~Shows(object[o].settings, s, copy[s])
           \/ \E x \in Saving(id) : ~Shows(task[x].copy, s, copy[s])}

\* Mutant: the settings of the search are not stored.
MutantSaveKind(t, kind) ==
  /\ task[t].op = "save" /\ At(t, kind)
  /\ persisted' = [persisted EXCEPT ![task[t].who] = StoreKind(@, task[t].copy, "extension")]
  /\ excused' = excused \cup ({task[t].who} \X NewToSome(t, kind))
  /\ IF kind = "extension" THEN Goto(t, "search") ELSE Ends(t)
  /\ UNCHANGED << use, dir, object, cookies, cut >>

\* save_state stores one kind after the other.
SaveKind(t, kind) ==
  /\ task[t].op = "save" /\ At(t, kind)
  /\ persisted' = [persisted EXCEPT ![task[t].who] = StoreKind(@, task[t].copy, kind)]
  /\ excused' = excused \cup ({task[t].who} \X NewToSome(t, kind))
  /\ IF kind = "extension" THEN Goto(t, "search") ELSE Ends(t)
  /\ UNCHANGED << use, dir, object, cookies, cut >>

\* store_data fails, for either kind.
SaveFails(t) ==
  /\ Does("fail")
  /\ task[t].op = "save" /\ task[t].at \in Kinds
  /\ Ends(t)
  /\ object' = [o \in Objects |->
                  IF o \in Live /\ object[o].of = task[t].who
                  THEN [object[o] EXCEPT !.settled = FALSE] ELSE object[o]]
  /\ UNCHANGED << use, dir, persisted, cookies, cut, excused >>

\* reload reads the file again and merges no definitions.
Reload(o) ==
  /\ Does("reload") /\ o \in Live /\ Readable(object[o].name)
  /\ object' = [object EXCEPT ![o].id = dir[object[o].name].id,
                              ![o].version = dir[object[o].name].version]
  /\ UNCHANGED << use, dir, task, persisted, cookies, cut, excused >>

-----------------------------------------------------------------------------
(* Cookies. *)

\* Mutant: only a response that sets a cookie saves the jar.
MutantFetched(o) ==
  /\ Does("fetch") /\ o \in Live /\ ~object[o].saving
  /\ \E jar \in {object[o].jar, object[o].jar + 1} \cap 0 .. MaxCookies :
       LET saves == ~object[o].recent /\ jar # object[o].jar IN
       /\ object' = [object EXCEPT ![o].jar = jar, ![o].saving = saves,
                                   ![o].recent = @ \/ saves]
       /\ cookies' = IF saves THEN [cookies EXCEPT ![object[o].of] = Torn] ELSE cookies
  /\ UNCHANGED << use, dir, task, persisted, cut, excused >>

\* fetch: a response that may set a cookie, and save_cookies_debounced, which
\* truncates the file and then writes the jar.
Fetched(o) ==
  /\ Does("fetch") /\ o \in Live /\ ~object[o].saving
  /\ \E jar \in {object[o].jar, object[o].jar + 1} \cap 0 .. MaxCookies :
       object' = [object EXCEPT ![o].jar = jar, ![o].recent = TRUE,
                                ![o].saving = ~object[o].recent]
  /\ cookies' = IF object[o].recent THEN cookies ELSE [cookies EXCEPT ![object[o].of] = Torn]
  /\ UNCHANGED << use, dir, task, persisted, cut, excused >>

\* Where another object wrote to the file since it was truncated, the longer of
\* the two leaves a rest.
WriteCookies(o) ==
  /\ o \in Live /\ object[o].saving
  /\ LET id == object[o].of IN
     \E content \in {object[o].jar} \cup (IF cookies[id] = Torn THEN {} ELSE {Torn}) :
       cookies' = [cookies EXCEPT ![id] = content]
  /\ object' = [object EXCEPT ![o].saving = FALSE]
  /\ UNCHANGED << use, dir, task, persisted, cut, excused >>

\* COOKIE_SAVE_INTERVAL has passed since the last save began.
IntervalPasses(o) ==
  /\ o \in Live /\ object[o].recent /\ Does("fetch")
  /\ object' = [object EXCEPT ![o].recent = FALSE]
  /\ UNCHANGED << use, dir, task, persisted, cookies, cut, excused >>

-----------------------------------------------------------------------------
Drop(o) ==
  /\ Does("drop") /\ o \in Live /\ ~object[o].saving
  /\ object' = [object EXCEPT ![o] = NoObject]
  /\ UNCHANGED << use, dir, task, persisted, cookies, cut, excused >>

\* The process ends, at any point.
End ==
  /\ Does("end")
  /\ cut' = cut \cup {n \in Names : Damaged(n)}
  /\ task' = [t \in Tasks |-> Idle]
  /\ object' = [o \in Objects |-> NoObject]
  /\ excused' = {}
  /\ UNCHANGED << use, dir, persisted, cookies >>

Step(t) ==
  \/ CreateFile(t)
  \/ WritePart(t)
  \/ WriteRest(t)
  \/ WriteFails(t)
  \/ ReadExtension(t)
  \/ OpenExtension(t)
  \/ RemoveFailed(t)
  \/ ScanNext(t)
  \/ RemoveUninstalled(t)
  \/ RemoveFails(t)
  \/ SaveFails(t)
  \/ \E kind \in Kinds : SaveKind(t, kind)

Next ==
  \/ \E t \in Tasks :
       \/ Step(t)
       \/ \E r \in use.installs : Install(t, r)
       \/ \E n \in Names : InstallCopy(t, n)
       \/ Scan(t)
       \/ \E o \in Objects : Uninstall(t, o) \/ Save(t, o)
  \/ \E o \in Objects :
       \/ \E s \in Settings :
            \/ \E v \in Values : Set(o, s, v)
            \/ \E version \in Versions : RegisterSetting(o, s, version)
       \/ Reload(o)
       \/ Fetched(o)
       \/ WriteCookies(o)
       \/ IntervalPasses(o)
       \/ Drop(o)
  \/ End

\* A save of the cookies comes to its end, and time passes.
Fairness == \A o \in Objects : WF_vars(WriteCookies(o)) /\ WF_vars(IntervalPasses(o))

Spec == Init /\ [][Next]_vars

FairSpec == Spec /\ Fairness

-----------------------------------------------------------------------------
(* Properties. *)

Object == [live : {TRUE}, of : Ids, id : Ids, version : Versions, name : Names,
           settings : Store, settled : BOOLEAN, jar : 0 .. MaxCookies,
           recent : BOOLEAN, saving : BOOLEAN]

TaskState ==
  [op : {"none", "install", "scan", "uninstall", "save"},
   at : {"idle", "create", "write", "write rest", "read", "open", "failed", "next", "remove"}
        \cup Kinds,
   name : Names \cup {None}, file : Contents \cup {Empty, None}, who : Ids \cup {None},
   linked : BOOLEAN, todo : SUBSET Names, copy : Store]

\* Files, objects and tasks have their types, and a task that writes, removes
\* or reads a file knows which.
TypeOK ==
  /\ use \in Uses
  /\ dir \in [Names -> Contents \cup {Absent, Empty}]
  /\ object \in [Objects -> Object \cup {NoObject}]
  /\ persisted \in [Ids -> Store]
  /\ cookies \in [Ids -> 0 .. MaxCookies \cup {Absent, Torn}]
  /\ cut \subseteq Names
  /\ excused \subseteq Ids \X Settings
  /\ task \in [Tasks -> TaskState]
  /\ \A t \in Tasks :
       /\ task[t].at \in {"create", "write", "write rest", "read", "open", "failed", "remove"}
            => task[t].name \in Names
       /\ task[t].linked => task[t].op = "install"

\* An extension file is damaged only while an install writes it or clears it
\* up, or after that was cut short: write, copy or remove_file failed, or the
\* process ended.
DamagedFilesAreBeingWritten ==
  \A n \in Names : Damaged(n) => n \in cut \/ Installing(n) # {}

\* A file leaves the directory only when its extension is uninstalled, or by
\* the install that wrote it, because it does not load; a jar that is being
\* saved is among the reasons.
OnlyTheRightFilesGo ==
  [][\A n \in Names :
       dir[n] # Absent /\ dir'[n] = Absent =>
         \/ \E t \in Tasks :
              /\ task[t].op = "uninstall" /\ task[t].name = n
              /\ Readable(n) => dir[n].id = task[t].who
         \/ /\ Installing(n) # {}
            /\ Readable(n) => dir[n].version \in Unloadable \/ Does("fetch")]_vars

\* Whatever the application and the script set and register: what an object
\* shows once it is saved is what a restart brings back, unless a setting of it
\* was changed, or another object of the extension saved, since.
ShownIsPersisted ==
  \A o \in Live :
    object[o].settled /\ Saving(object[o].of) = {}
      => AsPersisted(object[o].settings, object[o].of)

\* Loads, updates, saves and restarts keep the value of every setting the host
\* has, until in this process the application or the script changes it, a
\* version declares it with another type, a load fails, or it was new to one
\* object of the extension and not to another.
SettingsSurvive ==
  [][\A i \in Ids : \A s \in DOMAIN persisted[i] :
       Shows(persisted'[i], s, persisted[i][s]) \/ << i, s >> \in excused]_vars

Alone(o) == o \in Live /\ \A p \in Live \ {o} : object[p].of # object[o].of

Unsaved(o) == object[o].jar # 0 /\ cookies[object[o].of] # object[o].jar

\* While an extension goes on with requests, changes of its cookies are saved,
\* unless another object of it saves as well.
CookiesCoalesce ==
  \A o \in Objects :
    WF_vars(Fetched(o)) => [](Alone(o) /\ Unsaved(o) => <>(~Alone(o) \/ ~Unsaved(o)))
=============================================================================
