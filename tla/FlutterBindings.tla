---------------------------- MODULE FlutterBindings ----------------------------
(***************************************************************************)
(* The calls of a Flutter application into an extension, and what they     *)
(* wait for: the lock the generated glue puts around each ProxyExtension   *)
(* (&self shares it, &mut self has it alone), the lock of the extension's  *)
(* store, the script, and callbacks into the application.                  *)
(*                                                                         *)
(* Both locks are tokio's RwLock, served in order of arrival: a reader     *)
(* that comes after a waiting writer waits as well.                        *)
(***************************************************************************)
EXTENDS FlutterApi, Naturals, FiniteSets

CONSTANTS
  Callers,     \* calls of the application, those of its callbacks included
  Hosts,       \* kinds of applications: the methods an application calls,
               \* and those its callbacks call before they answer
  MaxScript,   \* bound: what a script does for one task
  MaxVersion,  \* bound: the changes of each part of the store
  Script,      \* the JS thread
  None

ASSUME BindingsAssumption ==
  /\ Script \notin Callers /\ None \notin Callers \cup {Script}
  /\ Hosts \subseteq [calls : SUBSET Methods, store : SUBSET Methods, ask : SUBSET Methods]
  /\ MaxScript \in Nat /\ MaxVersion \in [Parts -> Nat]

Actors == Callers \cup {Script}

VARIABLES
  host,    \* what kind of application this is
  todo,    \* the steps each actor has left
  line,    \* those who hold a lock or wait for it, in order of arrival
  parent,  \* the actor whose callback a call is made from
  called,  \* whether an actor's callback has made its call
  tasks,   \* the channel of the JS thread; it works on the first
  made,    \* what the script has done for it
  store,   \* a version for each part of the store
  copy,    \* the versions an actor has copied
  disk     \* the versions the application has stored

vars == << host, todo, line, parent, called, tasks, made, store, copy, disk >>

Init ==
  /\ host \in Hosts
  /\ todo   = [a \in Actors |-> << >>]
  /\ line   = [l \in {"object", "store"} |-> << >>]
  /\ parent = [c \in Callers |-> None]
  /\ called = [a \in Actors |-> FALSE]
  /\ tasks  = << >>
  /\ made   = 0
  /\ store  = [p \in Parts |-> 0]
  /\ copy   = [a \in Actors |-> 0]
  /\ disk   = [k \in Keys |-> 0]

-----------------------------------------------------------------------------
(* Locks. *)

InLine(a, l) == \E i \in DOMAIN line[l] : line[l][i].who = a

At(a, what) == todo[a] # << >> /\ Head(todo[a]).do = what

\* Mutant: those who share a lock pass those who wait to have it alone.
MutantHolds(a, l) ==
  \E i \in DOMAIN line[l] :
    /\ line[l][i].who = a
    /\ \A x \in Range(line[l]) \ {line[l][i]} :
         \/ At(x.who, "lock") /\ Head(todo[x.who]).on = l
         \/ x.mode = "shared" /\ line[l][i].mode = "shared"

\* The first in line holds the lock; those after it as well if all share it.
Holds(a, l) ==
  \E i \in DOMAIN line[l] :
    /\ line[l][i].who = a
    /\ i = 1 \/ \A j \in 1 .. i : line[l][j].mode = "shared"

Done(a) == todo' = [todo EXCEPT ![a] = Tail(@)]

Arrive(a) ==
  /\ At(a, "lock")
  /\ LET step == Head(todo[a]) IN
     /\ ~InLine(a, step.on)
     /\ line' = [line EXCEPT ![step.on] = Append(@, [who |-> a, mode |-> step.mode])]
  /\ UNCHANGED << host, todo, parent, called, tasks, made, store, copy, disk >>

Acquire(a) ==
  /\ At(a, "lock") /\ Holds(a, Head(todo[a]).on)
  /\ Done(a)
  /\ UNCHANGED << host, line, parent, called, tasks, made, store, copy, disk >>

Release(a) ==
  /\ At(a, "unlock")
  /\ LET l == Head(todo[a]).on IN
     \E i \in DOMAIN line[l] :
       line[l][i].who = a /\ line' = [line EXCEPT ![l] = RemoveAt(@, i)]
  /\ Done(a)
  /\ parent' = IF a \in Callers /\ Tail(todo[a]) = << >>
               THEN [parent EXCEPT ![a] = None] ELSE parent
  /\ UNCHANGED << host, called, tasks, made, store, copy, disk >>

-----------------------------------------------------------------------------
(* The store, and callbacks into the application. *)

PutPart(a) ==
  /\ At(a, "put")
  /\ LET p == Head(todo[a]).part IN
     store' = IF store[p] < MaxVersion[p] THEN [store EXCEPT ![p] = @ + 1] ELSE store
  /\ Done(a)
  /\ UNCHANGED << host, line, parent, called, tasks, made, copy, disk >>

CopyPart(a) ==
  /\ At(a, "copy")
  /\ copy' = [copy EXCEPT ![a] = store[Head(todo[a]).part]]
  /\ Done(a)
  /\ UNCHANGED << host, line, parent, called, tasks, made, store, disk >>

InCallback(a) == At(a, "store") \/ At(a, "ask")

\* The application answers once the call it made meanwhile has returned.
Answer(a) ==
  /\ InCallback(a)
  /\ \A c \in Callers : parent[c] # a
  /\ disk' = IF At(a, "store") THEN [disk EXCEPT ![Head(todo[a]).key] = copy[a]] ELSE disk
  /\ called' = [called EXCEPT ![a] = FALSE]
  /\ copy' = [copy EXCEPT ![a] = IF Len(todo[a]) > 1 /\ todo[a][2].do = "store" THEN @ ELSE 0]
  /\ Done(a)
  /\ UNCHANGED << host, line, parent, tasks, made, store >>

CallBack(a, c, way) ==
  /\ InCallback(a) /\ ~called[a]
  /\ way \in host[Head(todo[a]).do]
  /\ todo[c] = << >>
  /\ todo' = [todo EXCEPT ![c] = way]
  /\ parent' = [parent EXCEPT ![c] = a]
  /\ called' = [called EXCEPT ![a] = TRUE]
  /\ UNCHANGED << host, line, tasks, made, store, copy, disk >>

-----------------------------------------------------------------------------
(* Calls and the script. *)

Call(c, way) ==
  /\ way \in host.calls
  /\ todo[c] = << >>
  /\ todo' = [todo EXCEPT ![c] = way]
  /\ UNCHANGED << host, line, parent, called, tasks, made, store, copy, disk >>

\* A task is sent to the thread; a thread that is started has its init as task.
Send(c) ==
  /\ At(c, "run") \/ At(c, "start")
  /\ tasks' = Append(tasks, c)
  /\ todo' = [todo EXCEPT ![c] = << Await(Head(@).do) >> \o Tail(@)]
  /\ UNCHANGED << host, line, parent, called, made, store, copy, disk >>

Idle == tasks # << >> /\ todo[Script] = << >>

\* Something the script does for the task it handles, which it awaits.
ScriptDoes(way) ==
  /\ Idle /\ made < MaxScript
  /\ todo' = [todo EXCEPT ![Script] = way]
  /\ made' = made + 1
  /\ UNCHANGED << host, line, parent, called, tasks, store, copy, disk >>

ScriptReturns ==
  /\ Idle
  /\ Done(Head(tasks))
  /\ tasks' = Tail(tasks)
  /\ made' = 0
  /\ UNCHANGED << host, line, parent, called, store, copy, disk >>

Step(a) == Arrive(a) \/ Acquire(a) \/ Release(a) \/ PutPart(a) \/ CopyPart(a) \/ Answer(a)

Next ==
  \/ \E a \in Actors : Step(a)
  \/ \E a \in Actors, c \in Callers, way \in Methods : CallBack(a, c, way)
  \/ \E c \in Callers, way \in Methods : Call(c, way)
  \/ \E c \in Callers : Send(c)
  \/ \E way \in ScriptSteps : ScriptDoes(way)
  \/ ScriptReturns

Spec == Init /\ [][Next]_vars

\* The methods run on, the application answers, and a script returns.
Fairness ==
  /\ \A a \in Actors : WF_vars(Step(a))
  /\ \A c \in Callers : WF_vars(Send(c))
  /\ WF_vars(ScriptReturns)

FairSpec == Spec /\ Fairness

-----------------------------------------------------------------------------
(* Properties. *)

Steps ==
  [do : {"lock"}, on : {"object", "store"}, mode : {"shared", "exclusive"}]
    \cup [do : {"unlock"}, on : {"object", "store"}]
    \cup [do : {"put", "copy"}, part : Parts]
    \cup [do : {"store"}, key : Keys]
    \cup {Ask, Run, Start, Await("run"), Await("start")}

\* The variables have their types, an actor is at most once in a line, and
\* whoever is about to leave a line holds the lock, alone if it changes the store.
TypeOK ==
  /\ host \in Hosts
  /\ \A a \in Actors : Range(todo[a]) \subseteq Steps
  /\ \A l \in DOMAIN line : \A i, j \in DOMAIN line[l] :
       line[l][i].who = line[l][j].who => i = j
  /\ \A a \in Actors : At(a, "unlock") => Holds(a, Head(todo[a]).on)
  /\ \A a \in Actors : At(a, "put") => \E i \in DOMAIN line["store"] :
       line["store"][i] = [who |-> a, mode |-> "exclusive"] /\ Holds(a, "store")
  /\ parent \in [Callers -> Actors \cup {None}] /\ called \in [Actors -> BOOLEAN]
  /\ \A c \in Range(tasks) : At(c, "await")
  /\ made \in 0 .. MaxScript
  /\ \A p \in Parts : store[p] \in 0 .. MaxVersion[p]
  /\ copy \in [Actors -> Nat]
  /\ \A k \in Keys : disk[k] \in 0 .. store[PartOf(k)]

\* set_enabled and reload, which replace the JS thread of the extension, never
\* do so while a call of the application is in it: when a thread is started, its
\* init is the only task.
SwitchedWhileIdle ==
  \A c \in Callers : todo[c] # << >> /\ Head(todo[c]) = Await("start") => tasks = << c >>

\* What save_settings stores is what the store holds when it is stored: no
\* setting changes under a save, and the two keys are of one version.
SavesAreCurrent ==
  [][\A k \in {"extension_settings", "search_settings"} :
       disk'[k] # disk[k] => disk'[k] = store[PartOf(k)]]_vars

\* Every call the application makes returns, and so does every callback: no
\* lock, script and callback wait for each other.
CallsEnd == \A c \in Callers : todo[c] # << >> ~> todo[c] = << >>
=============================================================================
