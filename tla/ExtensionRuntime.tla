--------------------------- MODULE ExtensionRuntime ---------------------------
(***************************************************************************)
(* The life of loaded extensions: the JS threads they run on, the calls    *)
(* the application makes into them, and the requests the local proxy       *)
(* routes to them.                                                         *)
(*                                                                         *)
(* A thread serves the tasks of its channel one after the other, and ends  *)
(* once its channel is empty and all its senders are gone: the context of  *)
(* the extension, a start that is under way, and every caller, who holds   *)
(* on to the context it sent its task to.  So a reload may start a thread  *)
(* while the one before it still serves.                                   *)
(*                                                                         *)
(* The application runs one set_enabled or reload of an extension at a     *)
(* time (they take &mut self).                                             *)
(***************************************************************************)
EXTENDS Naturals, Sequences, FiniteSets, SequencesExt

CONSTANTS
  Extensions,
  Calls,       \* calls of the application into a script
  Requests,    \* requests to the proxy
  Vms,         \* JS threads; an ended one stands for a new one
  Versions,    \* what an extension's file may contain
  IdOf,        \* the id of each extension, as a sequence of characters
  Uses,        \* what applications and scripts do, see Usage
  Broken,      \* a file that cannot be parsed
  None

Callers == Calls \cup Requests
Usage   == [extensions : SUBSET Extensions, calls : SUBSET Calls,
            requests : SUBSET Requests, files : SUBSET (Versions \cup {Broken}),
            panics : BOOLEAN]  \* whether a thread may end by a panic of its script

ASSUME RuntimeAssumption ==
  /\ Calls \cap Requests = {}
  /\ Broken \notin Versions
  /\ None \notin Extensions \cup Vms \cup Callers
  /\ Uses \subseteq Usage

VARIABLES
  use,        \* what this application and its scripts do
  file,       \* what the extension's file contains
  live,       \* whether the application holds the DionExtension
  data,       \* the version in the store and in DionExtension.code
  context,    \* InnerExtension.context
  op,         \* where set_enabled or reload of the extension is
  starting,   \* the thread it waits for
  registered, \* Proxy.registered_extensions, those that are alive
  thread,     \* where each thread is
  code,       \* the extension it belongs to, and the version it runs
  queue,      \* its channel
  running,    \* the caller whose task it is handling
  pc,         \* where each caller is
  held,       \* the context the caller holds on to
  target,     \* the extension a request is meant for
  left        \* the extensions a request has not been offered to

extension == << use, file, live, data, context, op, starting, registered >>
vm        == << thread, code, queue, running >>
caller    == << pc, held, target, left >>
vars      == << extension, vm, caller >>

NoCode == [ext |-> None, version |-> Broken]

\* The InnerExtension exists while the DionExtension does or a request uses it.
InnerAlive(e) == live[e] \/ \E r \in Requests : held[r] # None /\ code[held[r]].ext = e

\* Mutant: the thread itself keeps a sender of its channel.
MutantSendersOwn(v) == thread[v] = "serving"

Senders(v) ==
  \/ \E e \in Extensions : starting[e] = v \/ (context[e] = v /\ InnerAlive(e))
  \/ \E c \in Callers : held[c] = v

Init ==
  /\ use \in Uses
  /\ file \in [Extensions -> use.files \ {Broken}]
  /\ live = [e \in Extensions |-> FALSE]
  /\ data = file
  /\ context = [e \in Extensions |-> None]
  /\ op = [e \in Extensions |-> "idle"]
  /\ starting = [e \in Extensions |-> None]
  /\ registered = << >>
  /\ thread = [v \in Vms |-> "ended"]
  /\ code = [v \in Vms |-> NoCode]
  /\ queue = [v \in Vms |-> << >>]
  /\ running = [v \in Vms |-> None]
  /\ pc = [c \in Callers |-> "idle"]
  /\ held = [c \in Callers |-> None]
  /\ target = [r \in Requests |-> None]
  /\ left = [r \in Requests |-> << >>]

-----------------------------------------------------------------------------
(* The files, and the adapter that loads them. *)

EditFile(e) ==
  /\ file' \in {[file EXCEPT ![e] = x] : x \in use.files \ {file[e]}}
  /\ UNCHANGED << use, live, data, context, op, starting, registered, vm, caller >>

\* DionExtension::create, which registers with the proxy.
Load(e) ==
  /\ ~InnerAlive(e)
  /\ file[e] # Broken
  /\ live' = [live EXCEPT ![e] = TRUE]
  /\ data' = [data EXCEPT ![e] = file[e]]
  /\ context' = [context EXCEPT ![e] = None]
  /\ registered' = Append(registered, e)
  /\ UNCHANGED << use, file, op, starting, vm, caller >>

\* The application drops the extension, which no call of its own uses.  The proxy
\* only has a weak reference, which it skips from now on and drops with the next
\* registration.
Unload(e) ==
  /\ live[e] /\ op[e] = "idle"
  /\ \A c \in Calls : held[c] # None => code[held[c]].ext # e
  /\ live' = [live EXCEPT ![e] = FALSE]
  /\ \E i \in DOMAIN registered :
       registered[i] = e /\ registered' = RemoveAt(registered, i)
  /\ UNCHANGED << use, file, data, context, op, starting, vm, caller >>

-----------------------------------------------------------------------------
(* set_enabled and reload. *)

\* ThreadedJSContext::create spawns the thread and waits for its init.
Start(e, version, v) ==
  /\ thread[v] = "ended" /\ ~Senders(v)
  /\ thread' = [thread EXCEPT ![v] = "init"]
  /\ code' = [code EXCEPT ![v] = [ext |-> e, version |-> version]]
  /\ starting' = [starting EXCEPT ![e] = v]
  /\ op' = [op EXCEPT ![e] = "start"]
  /\ UNCHANGED << queue, running >>

Enable(e, v) ==
  /\ live[e] /\ op[e] = "idle" /\ context[e] = None
  /\ Start(e, data[e], v)
  /\ UNCHANGED << use, file, live, data, context, registered, caller >>

Disable(e) ==
  /\ live[e] /\ op[e] = "idle" /\ context[e] # None
  /\ context' = [context EXCEPT ![e] = None]
  /\ UNCHANGED << use, file, live, data, op, starting, registered, vm, caller >>

\* reload disables the extension before it reads the file.
BeginReload(e) ==
  /\ live[e] /\ op[e] = "idle"
  /\ op' = [op EXCEPT ![e] = IF context[e] # None THEN "reload enabled" ELSE "reload"]
  /\ context' = [context EXCEPT ![e] = None]
  /\ UNCHANGED << use, file, live, data, starting, registered, vm, caller >>

Reloading(e) == op[e] \in {"reload enabled", "reload"}

\* An extension whose file cannot be read stays disabled.
ReadFails(e) ==
  /\ Reloading(e) /\ file[e] = Broken
  /\ op' = [op EXCEPT ![e] = "idle"]
  /\ UNCHANGED << use, file, live, data, context, starting, registered, vm, caller >>

\* Mutant: the extension is started again before its code is replaced.
MutantReadFileStartsFirst(e, v) ==
  /\ Reloading(e) /\ file[e] # Broken
  /\ data' = [data EXCEPT ![e] = file[e]]
  /\ \/ op[e] = "reload enabled" /\ Start(e, data[e], v)
     \/ op[e] = "reload" /\ op' = [op EXCEPT ![e] = "idle"] /\ UNCHANGED << starting, vm >>
  /\ UNCHANGED << use, file, live, context, registered, caller >>

\* The new data and code; an extension that was enabled is started again.
ReadFile(e, v) ==
  /\ Reloading(e) /\ file[e] # Broken
  /\ data' = [data EXCEPT ![e] = file[e]]
  /\ \/ op[e] = "reload enabled" /\ Start(e, file[e], v)
     \/ op[e] = "reload" /\ op' = [op EXCEPT ![e] = "idle"] /\ UNCHANGED << starting, vm >>
  /\ UNCHANGED << use, file, live, context, registered, caller >>

InitThread(v) ==
  /\ thread[v] = "init"
  /\ thread' \in {[thread EXCEPT ![v] = x] : x \in {"serving", "ended"}}
  /\ UNCHANGED << extension, code, queue, running, caller >>

\* Mutant: the handle of the thread that was started is not given up.
MutantStartedKeepsHandle(e) ==
  /\ op[e] = "start" /\ thread[starting[e]] # "init"
  /\ context' = [context EXCEPT ![e] =
                   IF thread[starting[e]] = "serving" THEN starting[e] ELSE None]
  /\ op' = [op EXCEPT ![e] = "idle"]
  /\ UNCHANGED << use, file, live, data, starting, registered, vm, caller >>

\* A failed init leaves the extension disabled.
Started(e) ==
  /\ op[e] = "start" /\ thread[starting[e]] # "init"
  /\ context' = [context EXCEPT ![e] =
                   IF thread[starting[e]] = "serving" THEN starting[e] ELSE None]
  /\ starting' = [starting EXCEPT ![e] = None]
  /\ op' = [op EXCEPT ![e] = "idle"]
  /\ UNCHANGED << use, file, live, data, registered, vm, caller >>

-----------------------------------------------------------------------------
(* Sending a task; the JS thread; the answer. *)

Send(c, v) ==
  /\ queue' = [queue EXCEPT ![v] = Append(@, c)]
  /\ held' = [held EXCEPT ![c] = v]
  /\ pc' = [pc EXCEPT ![c] = "wait"]
  /\ UNCHANGED << thread, code, running >>

\* The caller returns, with an answer or with an error.
Return(c) ==
  /\ pc' = [pc EXCEPT ![c] = "idle"]
  /\ held' = [held EXCEPT ![c] = None]
  /\ target' = [r \in Requests |-> IF r = c THEN None ELSE target[r]]
  /\ left' = [r \in Requests |-> IF r = c THEN << >> ELSE left[r]]

\* A call into a disabled extension, or one whose thread is gone, fails at once.
Call(c, e) ==
  /\ pc[c] = "idle"
  /\ live[e] /\ context[e] # None /\ thread[context[e]] = "serving"
  /\ Send(c, context[e])
  /\ UNCHANGED << extension, target, left >>

Take(v) ==
  /\ thread[v] = "serving" /\ running[v] = None /\ queue[v] # << >>
  /\ running' = [running EXCEPT ![v] = Head(queue[v])]
  /\ queue' = [queue EXCEPT ![v] = Tail(queue[v])]
  /\ UNCHANGED << extension, thread, code, caller >>

\* A call is over with its answer; a request may still have to serve a file
\* or to follow a redirect, and keeps the context meanwhile.
Answer(v) ==
  /\ thread[v] = "serving" /\ running[v] # None
  /\ running' = [running EXCEPT ![v] = None]
  /\ \/ Return(running[v])
     \/ /\ running[v] \in Requests
        /\ pc' = [pc EXCEPT ![running[v]] = "respond"]
        /\ UNCHANGED << held, target, left >>
  /\ UNCHANGED << extension, thread, code, queue >>

\* Mutant: disabling an extension ends its thread with tasks left in the channel.
MutantEndThreadUndrained(v) ==
  /\ thread[v] = "serving" /\ running[v] = None
  /\ \A e \in Extensions : starting[e] # v /\ context[e] # v
  /\ thread' = [thread EXCEPT ![v] = "ended"]
  /\ queue' = [queue EXCEPT ![v] = << >>]
  /\ code' = [code EXCEPT ![v] = NoCode]
  /\ UNCHANGED << extension, running, caller >>

EndThread(v) ==
  /\ thread[v] = "serving" /\ running[v] = None /\ queue[v] = << >>
  /\ ~Senders(v)
  /\ thread' = [thread EXCEPT ![v] = "ended"]
  /\ code' = [code EXCEPT ![v] = NoCode]
  /\ UNCHANGED << extension, queue, running, caller >>

\* Mutant: the tasks in the channel outlive the thread.
MutantDieKeepsQueue(v) ==
  /\ use.panics
  /\ thread[v] = "serving" /\ running[v] # None
  /\ thread' = [thread EXCEPT ![v] = "ended"]
  /\ running' = [running EXCEPT ![v] = None]
  /\ UNCHANGED << extension, code, queue, caller >>

\* A panic unwinds the thread; its channel goes with the tasks in it.
Die(v) ==
  /\ use.panics
  /\ thread[v] = "serving" /\ running[v] # None
  /\ thread' = [thread EXCEPT ![v] = "ended"]
  /\ queue' = [queue EXCEPT ![v] = << >>]
  /\ running' = [running EXCEPT ![v] = None]
  /\ UNCHANGED << extension, code, caller >>

Owed(c) == c \in ToSet(queue[held[c]]) \cup {running[held[c]]}

\* The task was dropped: its caller gets an error.
SeeDropped(c) ==
  /\ pc[c] = "wait" /\ ~Owed(c)
  /\ Return(c)
  /\ UNCHANGED << extension, vm >>

-----------------------------------------------------------------------------
(* The proxy. *)

\* A request below an extension's address, which ends the id with a slash.
Uri(e) == Append(IdOf[e], "/")

\* handle takes the live extensions under the lock, then releases it.
Accept(r, e) ==
  /\ pc[r] = "idle"
  /\ target' = [target EXCEPT ![r] = e]
  /\ left' = [left EXCEPT ![r] = registered]
  /\ pc' = [pc EXCEPT ![r] = "route"]
  /\ UNCHANGED << extension, vm, held >>

\* Mutant: the first extension that is enabled takes the request.
MutantTakesAnyPath(e, r) == InnerAlive(e) /\ context[e] # None

Takes(e, r) ==
  InnerAlive(e) /\ IsPrefix(IdOf[e], Uri(target[r])) /\ context[e] # None

\* One round of the loop over the extensions, or the 404 after it.
Route(r) ==
  /\ pc[r] = "route"
  /\ \/ left[r] = << >> /\ Return(r) /\ UNCHANGED vm
     \/ /\ left[r] # << >> /\ ~Takes(Head(left[r]), r)
        /\ left' = [left EXCEPT ![r] = Tail(@)]
        /\ UNCHANGED << vm, pc, held, target >>
     \/ /\ left[r] # << >> /\ Takes(Head(left[r]), r)
        /\ LET v == context[Head(left[r])] IN
           \/ thread[v] = "serving" /\ Send(r, v) /\ UNCHANGED << target, left >>
           \/ thread[v] # "serving" /\ Return(r) /\ UNCHANGED vm
  /\ UNCHANGED extension

Respond(r) ==
  /\ pc[r] = "respond"
  /\ Return(r)
  /\ UNCHANGED << extension, vm >>

-----------------------------------------------------------------------------

VmStep(v) == InitThread(v) \/ Take(v) \/ Answer(v) \/ EndThread(v)

ManagerStep(e) ==
  ReadFails(e) \/ (\E v \in Vms : ReadFile(e, v)) \/ Started(e)

CallerStep(c) ==
  \/ SeeDropped(c)
  \/ c \in Requests /\ (Route(c) \/ Respond(c))

Next ==
  \/ \E e \in use.extensions :
       \/ EditFile(e) \/ Load(e) \/ Unload(e)
       \/ Disable(e) \/ BeginReload(e) \/ ManagerStep(e)
       \/ \E v \in Vms : Enable(e, v)
       \/ \E c \in use.calls : Call(c, e)
       \/ \E r \in use.requests : Accept(r, e)
  \/ \E v \in Vms : VmStep(v) \/ Die(v)
  \/ \E c \in Callers : CallerStep(c)

Spec == Init /\ [][Next]_vars

\* Threads and futures keep running, and every script returns in the end.
FairSpec ==
  /\ Spec
  /\ \A v \in Vms : WF_vars(VmStep(v))
  /\ \A e \in Extensions : WF_vars(ManagerStep(e))
  /\ \A c \in Callers : WF_vars(CallerStep(c))

-----------------------------------------------------------------------------
(* Properties. *)

\* Every variable has its type.
TypeOK ==
  /\ use \in Uses
  /\ file \in [Extensions -> Versions \cup {Broken}]
  /\ live \in [Extensions -> BOOLEAN]
  /\ data \in [Extensions -> Versions]
  /\ context \in [Extensions -> Vms \cup {None}]
  /\ op \in [Extensions -> {"idle", "start", "reload", "reload enabled"}]
  /\ starting \in [Extensions -> Vms \cup {None}]
  /\ \A e \in Extensions : starting[e] # None <=> op[e] = "start"
  /\ registered \in Seq(Extensions)
  /\ thread \in [Vms -> {"ended", "init", "serving"}]
  /\ code \in [Vms -> [ext : Extensions \cup {None}, version : Versions \cup {Broken}]]
  /\ queue \in [Vms -> Seq(Callers)]
  /\ running \in [Vms -> Callers \cup {None}]
  /\ pc \in [Callers -> {"idle", "wait", "route", "respond"}]
  /\ held \in [Callers -> Vms \cup {None}]
  /\ target \in [Requests -> Extensions \cup {None}]
  /\ left \in [Requests -> Seq(Extensions)]

\* Whatever is reloaded, disabled or unloaded meanwhile: only a panic of the
\* thread it was sent to drops the task of a caller who still waits.
NoAnswerLost ==
  [][\A c \in Callers :
       pc[c] = "wait" /\ Owed(c) /\ pc'[c] = "wait" => Owed(c)' \/ Die(held[c])]_vars

\* Outside a set_enabled or a reload, the code an enabled extension runs is the
\* one that its store describes, and its own.
RunsItsData ==
  \A e \in Extensions : op[e] = "idle" /\ live[e] /\ context[e] # None =>
    code[context[e]] = [ext |-> e, version |-> data[e]]

\* However extensions come and go, reload and change threads meanwhile: no
\* extension is given a request whose path does not begin with its own.
RoutedToAMatch ==
  \A r \in Requests :
    held[r] # None => IsPrefix(IdOf[code[held[r]].ext], Uri(target[r]))

\* SKILL.md: the host routes requests that target an extension's proxy path to
\* its handleProxy, where that extension is enabled.  (Fails where the id of
\* another extension begins that path.)
RoutedToItsTarget ==
  [][\A r \in Requests :
       /\ held[r] = None /\ held'[r] # None
       /\ Takes(target[r], r)
       /\ \E i \in DOMAIN left[r] : left[r][i] = target[r]
       => code[held'[r]].ext = target[r]]_vars

\* Every call and every request is answered, or told that it will not be.
CallsAnswered == \A c \in Callers : pc[c] # "idle" ~> pc[c] = "idle"

\* A thread that is no extension's current one ends: reloads leak no threads.
OldThreadsEnd ==
  \A v \in Vms :
    thread[v] # "ended" /\ (\A e \in Extensions : context[e] # v /\ starting[e] # v)
      ~> thread[v] = "ended"
=============================================================================
