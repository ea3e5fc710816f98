------------------------ MODULE ExtensionRuntimeProofs ------------------------
(***************************************************************************)
(* The safety of ExtensionRuntime for all extensions, threads, versions,   *)
(* calls and requests.                                                     *)
(***************************************************************************)
EXTENDS ExtensionRuntime, TLAPS

Code == [ext : Extensions \cup {None}, version : Versions \cup {Broken}]

(* What each step changes, by the process that takes it.                    *)

FileStep(e) == EditFile(e) \/ Load(e) \/ Unload(e)
SwitchStep(e) ==
  \/ Disable(e) \/ BeginReload(e) \/ ReadFails(e) \/ Started(e)
  \/ \E v \in Vms : ReadFile(e, v) \/ Enable(e, v)
ThreadStep(v) == InitThread(v) \/ Take(v) \/ Answer(v) \/ EndThread(v) \/ Die(v)

\* The steps, extension by extension, thread by thread and caller by caller.
LEMMA Steps ==
  ASSUME TypeOK, [Next]_vars
  PROVE  \/ \E e \in Extensions : FileStep(e) \/ SwitchStep(e)
         \/ \E e \in Extensions, c \in Calls : Call(c, e)
         \/ \E e \in Extensions, r \in Requests : Accept(r, e)
         \/ \E v \in Vms : ThreadStep(v)
         \/ \E c \in Callers : SeeDropped(c)
         \/ \E r \in Requests : Route(r) \/ Respond(r)
         \/ UNCHANGED vars
<1>1. use.extensions \subseteq Extensions /\ use.calls \subseteq Calls /\ use.requests \subseteq Requests
  BY RuntimeAssumption DEF TypeOK, Usage
<1>2. CASE Next
  BY <1>1, <1>2 DEF Next, FileStep, SwitchStep, ThreadStep, VmStep, ManagerStep, CallerStep
<1>3. QED
  BY <1>2

-----------------------------------------------------------------------------
(* Types.                                                                   *)

ExtensionType ==
  /\ use \in Uses
  /\ file \in [Extensions -> Versions \cup {Broken}]
  /\ live \in [Extensions -> BOOLEAN]
  /\ data \in [Extensions -> Versions]
  /\ context \in [Extensions -> Vms \cup {None}]
  /\ op \in [Extensions -> {"idle", "start", "reload", "reload enabled"}]
  /\ starting \in [Extensions -> Vms \cup {None}]
  /\ \A e \in Extensions : starting[e] # None <=> op[e] = "start"
  /\ registered \in Seq(Extensions)

VmType ==
  /\ thread \in [Vms -> {"ended", "init", "serving"}]
  /\ code \in [Vms -> Code]
  /\ queue \in [Vms -> Seq(Callers)]
  /\ running \in [Vms -> Callers \cup {None}]

CallerType ==
  /\ pc \in [Callers -> {"idle", "wait", "route", "respond"}]
  /\ held \in [Callers -> Vms \cup {None}]
  /\ target \in [Requests -> Extensions \cup {None}]
  /\ left \in [Requests -> Seq(Extensions)]

\* The type invariant in its three parts.
LEMMA Parts == TypeOK <=> ExtensionType /\ VmType /\ CallerType
BY DEF TypeOK, ExtensionType, VmType, CallerType, Code

\* Initially every variable has its type.
LEMMA InitTypes == Init => TypeOK
<1> SUFFICES ASSUME Init PROVE ExtensionType /\ VmType /\ CallerType
  BY Parts
<1>1. use.files \subseteq Versions \cup {Broken}
  BY RuntimeAssumption DEF Init, Usage
<1>2. file \in [Extensions -> Versions]
  BY <1>1 DEF Init
<1>3. << >> \in Seq(Extensions) /\ << >> \in Seq(Callers)
  OBVIOUS
<1>4. NoCode \in Code
  BY DEF NoCode, Code
<1>5. QED
  BY <1>2, <1>3, <1>4 DEF Init, ExtensionType, VmType, CallerType

\* The files, and the sequence of what is registered.
LEMMA FileTypes ==
  ASSUME TypeOK, NEW e \in Extensions, FileStep(e) PROVE TypeOK'
<1>0. ExtensionType /\ VmType /\ CallerType
  BY Parts
<1>1. use.files \subseteq Versions \cup {Broken}
  BY <1>0, RuntimeAssumption DEF ExtensionType, Usage
<1>2. UNCHANGED << vm, caller >>
  BY DEF FileStep, EditFile, Load, Unload
<1>3. ExtensionType'
  <2>1. CASE EditFile(e)
    BY <1>0, <1>1, <2>1 DEF EditFile, ExtensionType
  <2>2. CASE Load(e)
    <3>1. registered' \in Seq(Extensions)
      <4>1. registered \in Seq(Extensions) /\ registered' = Append(registered, e)
        BY <1>0, <2>2 DEF Load, ExtensionType
      <4>2. QED
        BY <4>1
    <3>2. file[e] \in Versions
      BY <1>0, <2>2 DEF Load, ExtensionType
    <3>3. QED
      BY <1>0, <2>2, <3>1, <3>2 DEF Load, ExtensionType
  <2>3. CASE Unload(e)
    <3>1. PICK i \in DOMAIN registered : registered' = RemoveAt(registered, i)
      BY <2>3 DEF Unload
    <3>2. registered \in Seq(Extensions) /\ i \in 1 .. Len(registered)
      <4>1. registered \in Seq(Extensions)
        BY <1>0 DEF ExtensionType
      <4>2. QED
        BY <4>1
    <3>3. registered' \in Seq(Extensions)
      BY <3>1, <3>2 DEF RemoveAt
    <3>4. QED
      BY <1>0, <2>3, <3>3 DEF Unload, ExtensionType
  <2>4. QED
    BY <2>1, <2>2, <2>3 DEF FileStep
<1>4. VmType' /\ CallerType'
  BY <1>0, <1>2 DEF VmType, CallerType, vm, caller
<1>5. QED
  BY <1>3, <1>4 DEF TypeOK, ExtensionType, VmType, CallerType, Code

\* A start takes a thread and waits for it.
LEMMA StartTypes ==
  ASSUME TypeOK, NEW e \in Extensions, NEW v \in Vms, NEW version \in Versions,
         Start(e, version, v)
  PROVE  /\ VmType'
         /\ op' \in [Extensions -> {"idle", "start", "reload", "reload enabled"}]
         /\ starting' \in [Extensions -> Vms \cup {None}]
         /\ \A x \in Extensions : starting'[x] # None <=> op'[x] = "start"
<1>0. ExtensionType /\ VmType
  BY Parts
<1>1. [ext |-> e, version |-> version] \in Code
  BY DEF Code
<1>2. VmType'
  BY <1>0, <1>1 DEF Start, VmType
<1>3. v # None
  BY RuntimeAssumption
<1>4. QED
  BY <1>0, <1>2, <1>3 DEF Start, ExtensionType

\* Switching and reloading.
LEMMA SwitchTypes ==
  ASSUME TypeOK, NEW e \in Extensions, SwitchStep(e) PROVE TypeOK'
<1>0. ExtensionType /\ VmType /\ CallerType
  BY Parts
<1>1. UNCHANGED caller
  BY DEF SwitchStep, Disable, BeginReload, ReadFails, Started, ReadFile, Enable
<1>2. CASE Disable(e) \/ BeginReload(e) \/ ReadFails(e) \/ Started(e)
  <2>1. UNCHANGED vm
    BY <1>2 DEF Disable, BeginReload, ReadFails, Started
  <2>2. VmType'
    BY <1>0, <2>1 DEF VmType, vm
  <2>3. ExtensionType'
    <3>1. CASE Disable(e)
      BY <1>0, <3>1 DEF Disable, ExtensionType
    <3>2. CASE BeginReload(e)
      BY <1>0, <3>2 DEF BeginReload, ExtensionType
    <3>3. CASE ReadFails(e)
      BY <1>0, <3>3 DEF ReadFails, Reloading, ExtensionType
    <3>4. CASE Started(e)
      BY <1>0, <3>4 DEF Started, ExtensionType
    <3>5. QED
      BY <1>2, <3>1, <3>2, <3>3, <3>4
  <2>4. QED
    BY <1>0, <1>1, <2>2, <2>3 DEF TypeOK, ExtensionType, VmType, CallerType, Code, caller
<1>3. ASSUME NEW v \in Vms, ReadFile(e, v) PROVE TypeOK'
  <2>1. file[e] \in Versions
    BY <1>0, <1>3 DEF ReadFile, ExtensionType
  <2>2. VmType' /\ ExtensionType'
    <3>1. CASE Start(e, file[e], v)
      BY <1>0, <1>3, <2>1, <3>1, StartTypes DEF ReadFile, ExtensionType
    <3>2. CASE op[e] = "reload" /\ op' = [op EXCEPT ![e] = "idle"] /\ UNCHANGED << starting, vm >>
      BY <1>0, <1>3, <2>1, <3>2 DEF ReadFile, ExtensionType, VmType, vm
    <3>3. QED
      BY <1>3, <3>1, <3>2 DEF ReadFile
  <2>3. QED
    BY <1>0, <1>1, <2>2 DEF TypeOK, ExtensionType, VmType, CallerType, Code, caller
<1>4. ASSUME NEW v \in Vms, Enable(e, v) PROVE TypeOK'
  <2>1. data[e] \in Versions
    BY <1>0 DEF ExtensionType
  <2>2. VmType' /\ ExtensionType'
    BY <1>0, <1>4, <2>1, StartTypes DEF Enable, ExtensionType
  <2>3. QED
    BY <1>0, <1>1, <2>2 DEF TypeOK, ExtensionType, VmType, CallerType, Code, caller
<1>5. QED
  BY <1>2, <1>3, <1>4 DEF SwitchStep

\* A caller that returns.
LEMMA ReturnTypes ==
  ASSUME CallerType, NEW c \in Callers, Return(c) PROVE CallerType'
<1>1. << >> \in Seq(Extensions)
  OBVIOUS
<1>2. QED
  BY <1>1 DEF Return, CallerType

\* Threads.
LEMMA ThreadTypes ==
  ASSUME TypeOK, NEW v \in Vms, ThreadStep(v) PROVE TypeOK'
<1>0. ExtensionType /\ VmType /\ CallerType
  BY Parts
<1>1. UNCHANGED extension
  BY DEF ThreadStep, InitThread, Take, Answer, EndThread, Die
<1>2. VmType' /\ CallerType'
  <2>1. CASE InitThread(v)
    BY <1>0, <2>1 DEF InitThread, VmType, CallerType, caller
  <2>2. CASE Take(v)
    BY <1>0, <2>2 DEF Take, VmType, CallerType, caller
  <2>3. CASE Answer(v)
    <3>1. running[v] \in Callers
      BY <1>0, <2>3 DEF Answer, VmType
    <3>2. VmType'
      BY <1>0, <2>3 DEF Answer, VmType
    <3>3. CallerType'
      BY <1>0, <2>3, <3>1, ReturnTypes DEF Answer, CallerType
    <3>4. QED
      BY <3>2, <3>3
  <2>4. CASE EndThread(v)
    <3>1. NoCode \in Code
      BY DEF NoCode, Code
    <3>2. QED
      BY <1>0, <2>4, <3>1 DEF EndThread, VmType, CallerType, caller
  <2>5. CASE Die(v)
    <3>1. << >> \in Seq(Callers)
      OBVIOUS
    <3>2. QED
      BY <1>0, <2>5, <3>1 DEF Die, VmType, CallerType, caller
  <2>6. QED
    BY <2>1, <2>2, <2>3, <2>4, <2>5 DEF ThreadStep
<1>3. QED
  BY <1>0, <1>1, <1>2 DEF TypeOK, ExtensionType, VmType, CallerType, Code, extension

\* A task that is sent.
LEMMA SendTypes ==
  ASSUME VmType, CallerType, NEW c \in Callers, NEW v \in Vms, Send(c, v),
         UNCHANGED << target, left >>
  PROVE  VmType' /\ CallerType'
BY DEF Send, VmType, CallerType

\* Each step keeps the types.
LEMMA NextTypes == TypeOK /\ [Next]_vars => TypeOK'
<1> SUFFICES ASSUME TypeOK, [Next]_vars PROVE TypeOK'
  OBVIOUS
<1>0. ExtensionType /\ VmType /\ CallerType
  BY Parts
<1>1. ASSUME UNCHANGED extension, VmType', CallerType' PROVE TypeOK'
  BY <1>0, <1>1 DEF TypeOK, ExtensionType, VmType, CallerType, Code, extension
<1>2. ASSUME NEW e \in Extensions, NEW c \in Calls, Call(c, e) PROVE TypeOK'
  <2>1. c \in Callers /\ context[e] \in Vms
    BY <1>0, <1>2 DEF Callers, Call, ExtensionType
  <2>2. QED
    BY <1>0, <1>1, <1>2, <2>1, SendTypes DEF Call
<1>3. ASSUME NEW e \in Extensions, NEW r \in Requests, Accept(r, e) PROVE TypeOK'
  <2>1. UNCHANGED extension /\ VmType' /\ CallerType'
    BY <1>0, <1>3 DEF Accept, ExtensionType, VmType, CallerType, Callers, vm, extension
  <2>2. QED
    BY <1>1, <2>1
<1>4. ASSUME NEW c \in Callers, SeeDropped(c) \/ Respond(c) PROVE TypeOK'
  <2>1. UNCHANGED extension /\ VmType' /\ CallerType'
    BY <1>0, <1>4, ReturnTypes DEF SeeDropped, Respond, VmType, vm
  <2>2. QED
    BY <1>1, <2>1
<1>5. ASSUME NEW r \in Requests, Route(r) PROVE TypeOK'
  <2>0. r \in Callers
    BY DEF Callers
  <2>1. CASE Return(r) /\ UNCHANGED vm
    <3>1. UNCHANGED extension /\ VmType' /\ CallerType'
      BY <1>0, <1>5, <2>0, <2>1, ReturnTypes DEF Route, VmType, vm
    <3>2. QED
      BY <1>1, <3>1
  <2>2. CASE /\ left[r] # << >> /\ left' = [left EXCEPT ![r] = Tail(@)]
             /\ UNCHANGED << vm, pc, held, target >>
    <3>1. Tail(left[r]) \in Seq(Extensions)
      BY <1>0, <2>2 DEF CallerType
    <3>2. UNCHANGED extension /\ VmType' /\ CallerType'
      BY <1>0, <1>5, <2>2, <3>1 DEF Route, VmType, CallerType, vm
    <3>3. QED
      BY <1>1, <3>2
  <2>3. CASE /\ left[r] # << >> /\ Takes(Head(left[r]), r)
             /\ Send(r, context[Head(left[r])]) /\ UNCHANGED << target, left >>
    <3>1. context[Head(left[r])] \in Vms
      <4>1. left[r] \in Seq(Extensions)
        BY <1>0 DEF CallerType
      <4>2. Head(left[r]) \in Extensions
        BY <2>3, <4>1
      <4>3. QED
        BY <1>0, <2>3, <4>2 DEF ExtensionType, Takes
    <3>2. UNCHANGED extension /\ VmType' /\ CallerType'
      BY <1>0, <1>5, <2>0, <2>3, <3>1, SendTypes DEF Route
    <3>3. QED
      BY <1>1, <3>2
  <2>4. QED
    BY <1>5, <2>1, <2>2, <2>3 DEF Route
<1>6. UNCHANGED vars => TypeOK'
  BY DEF TypeOK, vars, extension, vm, caller
<1>7. \A r \in Requests : r \in Callers
  BY DEF Callers
<1>8. QED
  BY <1>2, <1>3, <1>4, <1>5, <1>6, <1>7, Steps, FileTypes, SwitchTypes, ThreadTypes

\* The type invariant; an extension waits for a thread exactly while it starts.
THEOREM RuntimeTypeCorrect == Spec => []TypeOK
BY InitTypes, NextTypes, PTL DEF Spec

-----------------------------------------------------------------------------
(* What runs.                                                               *)

Runs(e) == [ext |-> e, version |-> data[e]]

\* A thread that an extension has, or waits for, or that a caller holds, is not
\* started again for another one; and what is replaced is not running.
ThreadsMatch ==
  /\ \A e \in Extensions : op[e] # "idle" => live[e] /\ context[e] = None
  /\ \A e \in Extensions : starting[e] # None => code[starting[e]] = Runs(e)
  /\ \A e \in Extensions : InnerAlive(e) /\ context[e] # None => code[context[e]] = Runs(e)

\* Who waits holds on to the context it sent its task to; who has not sent it
\* yet holds none, and is routed for a target.
CallersHold ==
  /\ \A c \in Callers : /\ pc[c] = "wait" => held[c] # None
                        /\ pc[c] \in {"idle", "route"} => held[c] = None
  /\ \A r \in Requests : pc[r] = "route" => target[r] # None

\* A step that starts, ends and switches nothing; a request that is sent to a
\* thread is sent to one of an extension that is alive.
LEMMA SameThreads ==
  ASSUME ThreadsMatch, UNCHANGED << live, data, context, op, starting, code >>,
         \A r \in Requests : held'[r] # None =>
           held'[r] = held[r] \/ InnerAlive(code[held'[r]].ext)
  PROVE  ThreadsMatch'
<1>1. ASSUME NEW e \in Extensions, InnerAlive(e)' PROVE InnerAlive(e)
  <2>1. CASE live'[e]
    BY <2>1 DEF InnerAlive
  <2>2. CASE ~live'[e]
    <3>1. PICK r \in Requests : held'[r] # None /\ code'[held'[r]].ext = e
      BY <1>1, <2>2 DEF InnerAlive
    <3>2. CASE held'[r] = held[r]
      BY <3>1, <3>2 DEF InnerAlive
    <3>3. CASE held'[r] # held[r]
      BY <3>1, <3>3 DEF InnerAlive
    <3>4. QED
      BY <3>2, <3>3
  <2>3. QED
    BY <2>1, <2>2
<1>2. QED
  BY <1>1 DEF ThreadsMatch, Runs

\* The files.
LEMMA FilesMatch ==
  ASSUME TypeOK, ThreadsMatch, NEW e \in Extensions, FileStep(e) PROVE ThreadsMatch'
<1>1. CASE EditFile(e)
  <2>1. /\ UNCHANGED << live, data, context, op, starting, code >> /\ held' = held
    BY <1>1 DEF EditFile, vm, caller
  <2>2. QED
    BY <2>1, SameThreads
<1>2. CASE Load(e)
  <2>1. /\ ~InnerAlive(e) /\ ~live[e] /\ op[e] = "idle" /\ starting[e] = None
    BY <1>2 DEF Load, InnerAlive, ThreadsMatch, TypeOK
  <2>2. /\ UNCHANGED << op, starting, code, held >>
        /\ context'[e] = None
        /\ \A x \in Extensions \ {e} : /\ live'[x] = live[x] /\ data'[x] = data[x]
                                       /\ context'[x] = context[x]
    BY <1>2 DEF Load, TypeOK, vm, caller
  <2>3. ASSUME NEW x \in Extensions \ {e}, InnerAlive(x)' PROVE InnerAlive(x)
    BY <2>2, <2>3 DEF InnerAlive
  <2>4. QED
    BY <2>1, <2>2, <2>3 DEF ThreadsMatch, Runs
<1>3. CASE Unload(e)
  <2>1. /\ UNCHANGED << data, context, op, starting, code, held >> /\ op[e] = "idle"
        /\ \A x \in Extensions : live'[x] => live[x]
        /\ \A x \in Extensions \ {e} : live'[x] = live[x]
    BY <1>3 DEF Unload, TypeOK, vm, caller
  <2>2. ASSUME NEW x \in Extensions, InnerAlive(x)' PROVE InnerAlive(x)
    BY <2>1, <2>2 DEF InnerAlive
  <2>3. QED
    BY <2>1, <2>2 DEF ThreadsMatch, Runs
<1>4. QED
  BY <1>1, <1>2, <1>3 DEF FileStep

\* A thread that is started belongs to no one else.
LEMMA StartMatches ==
  ASSUME TypeOK, ThreadsMatch, NEW e \in Extensions, NEW v \in Vms, NEW version \in Versions,
         Start(e, version, v), live[e], context[e] = None, data'[e] = version,
         \A x \in Extensions \ {e} : data'[x] = data[x],
         UNCHANGED << live, context, held >>
  PROVE  ThreadsMatch'
<1>1. /\ code' = [code EXCEPT ![v] = [ext |-> e, version |-> version]]
      /\ starting' = [starting EXCEPT ![e] = v] /\ op' = [op EXCEPT ![e] = "start"]
      /\ ~Senders(v)
  BY DEF Start
<1>2. /\ \A x \in Extensions : starting[x] # v /\ (context[x] = v => ~InnerAlive(x))
      /\ \A c \in Callers : held[c] # v
  BY <1>1 DEF Senders
<1>3. /\ code'[v] = [ext |-> e, version |-> version] /\ \A w \in Vms \ {v} : code'[w] = code[w]
      /\ starting'[e] = v /\ \A x \in Extensions \ {e} : starting'[x] = starting[x]
      /\ \A x \in Extensions \ {e} : op'[x] = op[x]
  BY <1>1 DEF TypeOK
<1>4. /\ \A x \in Extensions : starting[x] \in Vms \cup {None} /\ context[x] \in Vms \cup {None}
      /\ \A r \in Requests : held[r] \in Vms \cup {None} /\ held[r] # v
  BY <1>2 DEF TypeOK, Callers
<1>5. ASSUME NEW x \in Extensions, InnerAlive(x)' PROVE InnerAlive(x)
  <2>1. CASE live[x]
    BY <2>1 DEF InnerAlive
  <2>2. CASE ~live[x]
    <3>1. PICK r \in Requests : held'[r] # None /\ code'[held'[r]].ext = x
      BY <1>5, <2>2 DEF InnerAlive
    <3>2. held[r] \in Vms \ {v}
      BY <1>4, <3>1
    <3>3. QED
      BY <1>3, <3>1, <3>2 DEF InnerAlive
  <2>3. QED
    BY <2>1, <2>2
<1>6. \A x \in Extensions : op'[x] # "idle" => live'[x] /\ context'[x] = None
  BY <1>3 DEF ThreadsMatch
<1>7. ASSUME NEW x \in Extensions, starting'[x] # None PROVE code'[starting'[x]] = Runs(x)'
  <2>1. CASE x = e
    BY <1>3, <2>1 DEF Runs
  <2>2. CASE x # e
    <3>1. starting'[x] = starting[x] /\ starting[x] \in Vms \ {v}
      BY <1>2, <1>3, <1>4, <1>7, <2>2
    <3>2. code[starting[x]] = Runs(x)
      BY <1>7, <3>1 DEF ThreadsMatch
    <3>3. QED
      BY <1>3, <2>2, <3>1, <3>2 DEF Runs
  <2>3. QED
    BY <2>1, <2>2
<1>8. ASSUME NEW x \in Extensions, InnerAlive(x)', context'[x] # None
      PROVE  code'[context'[x]] = Runs(x)'
  <2>1. x # e /\ InnerAlive(x) /\ context[x] \in Vms \ {v}
    BY <1>2, <1>4, <1>5, <1>8
  <2>2. code[context[x]] = Runs(x)
    BY <1>8, <2>1 DEF ThreadsMatch
  <2>3. QED
    BY <1>3, <2>1, <2>2 DEF Runs
<1>9. QED
  BY <1>6, <1>7, <1>8 DEF ThreadsMatch

\* Switching and reloading.
LEMMA SwitchMatches ==
  ASSUME TypeOK, ThreadsMatch, NEW e \in Extensions, SwitchStep(e) PROVE ThreadsMatch'
<1>1. ASSUME UNCHANGED << live, data, code, held >>,
             \A x \in Extensions \ {e} : /\ context'[x] = context[x] /\ op'[x] = op[x]
                                         /\ starting'[x] = starting[x],
             op'[e] # "idle" => live[e] /\ context'[e] = None,
             starting'[e] \in {starting[e], None},
             context'[e] # None => code[context'[e]] = Runs(e)
      PROVE  ThreadsMatch'
  <2>1. \A x \in Extensions : InnerAlive(x)' <=> InnerAlive(x)
    BY <1>1 DEF InnerAlive
  <2>2. QED
    BY <1>1, <2>1 DEF ThreadsMatch, Runs
<1>2. CASE Disable(e)
  <2>1. /\ UNCHANGED << live, data, code, held, op, starting >> /\ op[e] = "idle"
        /\ context'[e] = None /\ \A x \in Extensions \ {e} : context'[x] = context[x]
    BY <1>2 DEF Disable, TypeOK, vm, caller
  <2>2. QED
    BY <1>1, <2>1
<1>3. CASE BeginReload(e)
  <2>1. /\ UNCHANGED << live, data, code, held, starting >> /\ live[e]
        /\ context'[e] = None
        /\ \A x \in Extensions \ {e} : context'[x] = context[x] /\ op'[x] = op[x]
    BY <1>3 DEF BeginReload, TypeOK, vm, caller
  <2>2. QED
    BY <1>1, <2>1
<1>4. CASE ReadFails(e)
  <2>1. /\ UNCHANGED << live, data, code, held, starting, context >>
        /\ op'[e] = "idle" /\ \A x \in Extensions \ {e} : op'[x] = op[x]
    BY <1>4 DEF ReadFails, TypeOK, vm, caller
  <2>2. op[e] # "idle"
    BY <1>4 DEF ReadFails, Reloading
  <2>3. context[e] = None
    BY <2>2 DEF ThreadsMatch
  <2>4. QED
    BY <1>1, <2>1, <2>3
<1>5. CASE Started(e)
  <2>1. /\ UNCHANGED << live, data, code, held >>
        /\ context'[e] \in {starting[e], None} /\ op'[e] = "idle" /\ starting'[e] = None
        /\ \A x \in Extensions \ {e} : /\ context'[x] = context[x] /\ op'[x] = op[x]
                                       /\ starting'[x] = starting[x]
    BY <1>5 DEF Started, TypeOK, vm, caller
  <2>2. starting[e] # None => code[starting[e]] = Runs(e)
    BY DEF ThreadsMatch
  <2>3. QED
    BY <1>1, <2>1, <2>2
<1>6. ASSUME NEW v \in Vms, Enable(e, v) PROVE ThreadsMatch'
  <2>1. data[e] \in Versions
    BY DEF TypeOK
  <2>2. /\ Start(e, data[e], v) /\ live[e] /\ context[e] = None
        /\ UNCHANGED << live, data, context, held >>
    BY <1>6 DEF Enable, caller
  <2>3. QED
    BY <2>1, <2>2, StartMatches
<1>7. ASSUME NEW v \in Vms, ReadFile(e, v) PROVE ThreadsMatch'
  <2>1. /\ op[e] \in {"reload enabled", "reload"} /\ file[e] \in Versions
        /\ data'[e] = file[e] /\ \A x \in Extensions \ {e} : data'[x] = data[x]
        /\ UNCHANGED << live, context, held >>
    <3>1. /\ Reloading(e) /\ file[e] # Broken /\ data' = [data EXCEPT ![e] = file[e]]
          /\ UNCHANGED << live, context, caller >>
      BY <1>7 DEF ReadFile
    <3>2. QED
      BY <3>1 DEF Reloading, TypeOK, caller
  <2>2. live[e] /\ context[e] = None
    BY <2>1 DEF ThreadsMatch
  <2>3. CASE Start(e, file[e], v)
    BY <2>1, <2>2, <2>3, StartMatches
  <2>4. CASE op[e] = "reload" /\ op' = [op EXCEPT ![e] = "idle"] /\ UNCHANGED << starting, vm >>
    <3>1. \A x \in Extensions \ {e} : op'[x] = op[x]
      BY <2>4 DEF TypeOK
    <3>2. op'[e] = "idle" /\ UNCHANGED << starting, code >>
      BY <2>4 DEF TypeOK, vm
    <3>3. starting[e] = None
      BY <2>4 DEF TypeOK
    <3>4. \A x \in Extensions : InnerAlive(x)' <=> InnerAlive(x)
      BY <2>1, <3>2 DEF InnerAlive
    <3>5. QED
      BY <2>1, <2>2, <3>1, <3>2, <3>3, <3>4 DEF ThreadsMatch, Runs
  <2>5. QED
    BY <1>7, <2>3, <2>4 DEF ReadFile
<1>8. QED
  BY <1>2, <1>3, <1>4, <1>5, <1>6, <1>7 DEF SwitchStep

\* Threads: one that ends has no senders.
LEMMA ThreadMatches ==
  ASSUME TypeOK, ThreadsMatch, NEW v \in Vms, ThreadStep(v) PROVE ThreadsMatch'
<1>0. UNCHANGED << live, data, context, op, starting >>
  BY DEF ThreadStep, InitThread, Take, Answer, EndThread, Die, extension
<1>1. CASE InitThread(v) \/ Take(v) \/ Die(v)
  <2>1. code' = code /\ held' = held
    BY <1>1 DEF InitThread, Take, Die, caller
  <2>2. QED
    BY <1>0, <2>1, SameThreads
<1>2. CASE Answer(v)
  <2>1. code' = code /\ \A r \in Requests : held'[r] \in {held[r], None}
    <3>1. CASE Return(running[v])
      BY <1>2, <3>1 DEF Answer, Return, TypeOK, Callers
    <3>2. CASE UNCHANGED held
      BY <1>2, <3>2 DEF Answer
    <3>3. QED
      BY <1>2, <3>1, <3>2 DEF Answer
  <2>2. QED
    BY <1>0, <2>1, SameThreads
<1>3. CASE EndThread(v)
  <2>1. ~Senders(v) /\ code' = [code EXCEPT ![v] = NoCode] /\ held' = held
    BY <1>3 DEF EndThread, caller
  <2>2. /\ \A x \in Extensions : starting[x] # v /\ (context[x] = v => ~InnerAlive(x))
        /\ \A r \in Requests : held[r] # v
    BY <2>1 DEF Senders, Callers
  <2>3. \A w \in Vms \ {v} : code'[w] = code[w]
    BY <2>1 DEF TypeOK
  <2>4. ASSUME NEW x \in Extensions PROVE InnerAlive(x)' <=> InnerAlive(x)
    <3>1. \A r \in Requests : held[r] # None => code'[held[r]] = code[held[r]]
      BY <2>2, <2>3 DEF TypeOK, Callers
    <3>2. QED
      BY <1>0, <2>1, <3>1 DEF InnerAlive
  <2>5. \A x \in Extensions :
          /\ starting[x] # None => code'[starting[x]] = code[starting[x]]
          /\ InnerAlive(x) /\ context[x] # None => code'[context[x]] = code[context[x]]
    <3>1. \A x \in Extensions : starting[x] \in Vms \cup {None} /\ context[x] \in Vms \cup {None}
      BY DEF TypeOK
    <3>2. QED
      BY <2>2, <2>3, <3>1
  <2>6. QED
    BY <1>0, <2>4, <2>5 DEF ThreadsMatch, Runs
<1>4. QED
  BY <1>1, <1>2, <1>3 DEF ThreadStep

\* A request is sent to the thread of the extension that takes it.
LEMMA SentTo ==
  ASSUME TypeOK, ThreadsMatch, NEW r \in Requests, left[r] # << >>, Takes(Head(left[r]), r)
  PROVE  LET e == Head(left[r]) IN
         /\ e \in Extensions /\ context[e] \in Vms /\ code[context[e]].ext = e /\ InnerAlive(e)
<1>1. left[r] \in Seq(Extensions)
  BY DEF TypeOK
<1>2. Head(left[r]) \in Extensions
  BY <1>1
<1> DEFINE e == Head(left[r])
<1> HIDE DEF e
<1>3. e \in Extensions /\ InnerAlive(e) /\ context[e] # None
  BY <1>2 DEF Takes, e
<1>4. context[e] \in Vms /\ code[context[e]] = Runs(e)
  BY <1>3 DEF ThreadsMatch, TypeOK
<1>5. QED
  BY <1>3, <1>4 DEF Runs, e

\* What a round of the proxy's loop may do.
LEMMA Rounds ==
  ASSUME NEW r, Route(r)
  PROVE  /\ UNCHANGED extension
         /\ \/ Return(r) /\ UNCHANGED vm
            \/ UNCHANGED << vm, pc, held, target >>
            \/ /\ left[r] # << >> /\ Takes(Head(left[r]), r)
               /\ Send(r, context[Head(left[r])]) /\ UNCHANGED << target, left >>
BY DEF Route

\* Each step keeps the threads apart.
LEMMA NextMatch == TypeOK /\ ThreadsMatch /\ [Next]_vars => ThreadsMatch'
<1> SUFFICES ASSUME TypeOK, ThreadsMatch, [Next]_vars PROVE ThreadsMatch'
  OBVIOUS
<1>1. ASSUME UNCHANGED extension, UNCHANGED code, \A r \in Requests : held'[r] \in {held[r], None}
      PROVE  ThreadsMatch'
  <2>1. UNCHANGED << live, data, context, op, starting, code >>
    BY <1>1 DEF extension
  <2>2. QED
    BY <1>1, <2>1, SameThreads
<1>2. ASSUME NEW e \in Extensions, NEW c \in Calls, Call(c, e) PROVE ThreadsMatch'
  <2>1. \A r \in Requests : held'[r] = held[r]
    BY <1>2, RuntimeAssumption DEF Call, Send, TypeOK, Callers
  <2>2. QED
    BY <1>1, <1>2, <2>1 DEF Call, Send
<1>3. ASSUME NEW e \in Extensions, NEW r \in Requests, Accept(r, e) PROVE ThreadsMatch'
  BY <1>1, <1>3 DEF Accept, vm
<1>4. ASSUME NEW c \in Callers, Return(c) PROVE \A r \in Requests : held'[r] \in {held[r], None}
  BY <1>4 DEF Return, TypeOK, Callers
<1>5. ASSUME NEW c \in Callers, SeeDropped(c) \/ Respond(c) PROVE ThreadsMatch'
  <2>1. UNCHANGED << extension, code >> /\ Return(c)
    BY <1>5 DEF SeeDropped, Respond, vm
  <2>2. QED
    BY <1>1, <1>4, <2>1
<1>6. ASSUME NEW r \in Requests, Route(r) PROVE ThreadsMatch'
  <2>0. r \in Callers
    BY DEF Callers
  <2>1. CASE (Return(r) /\ UNCHANGED vm) \/ UNCHANGED << vm, pc, held, target >>
    <3>1. UNCHANGED << extension, code >>
      BY <1>6, <2>1, Rounds DEF vm
    <3>2. QED
      BY <1>1, <1>4, <2>0, <2>1, <3>1
  <2>2. CASE /\ left[r] # << >> /\ Takes(Head(left[r]), r)
             /\ Send(r, context[Head(left[r])]) /\ UNCHANGED << target, left >>
    <3> DEFINE e == Head(left[r])
    <3>1. InnerAlive(e) /\ code[context[e]].ext = e
      BY <2>2, SentTo
    <3> HIDE DEF e
    <3>2. held'[r] = context[e] /\ \A x \in Requests \ {r} : held'[x] = held[x]
      BY <2>0, <2>2 DEF Send, TypeOK, Callers, e
    <3>3. UNCHANGED << live, data, context, op, starting, code >>
      BY <1>6, <2>2, Rounds DEF extension, Send
    <3>4. QED
      BY <3>1, <3>2, <3>3, SameThreads
  <2>3. QED
    BY <1>6, <2>1, <2>2, Rounds
<1>7. UNCHANGED vars => ThreadsMatch'
  BY <1>1 DEF vars, vm, caller
<1>8. \A r \in Requests : r \in Callers
  BY DEF Callers
<1>9. QED
  BY <1>2, <1>3, <1>5, <1>6, <1>7, <1>8, Steps, FilesMatch, SwitchMatches, ThreadMatches

\* Outside a set_enabled or a reload, the code an enabled extension runs is the
\* one that its store describes, and its own, whichever threads of it still
\* serve the callers they have.
THEOREM CodeIsData == Spec => []RunsItsData
<1>1. Init => ThreadsMatch
  BY DEF Init, ThreadsMatch
<1>2. ThreadsMatch => RunsItsData
  BY DEF ThreadsMatch, RunsItsData, InnerAlive, Runs
<1>3. QED
  BY <1>1, <1>2, InitTypes, NextTypes, NextMatch, PTL DEF Spec

-----------------------------------------------------------------------------
(* Callers.                                                                 *)

StillResponds(c) == /\ pc' = [pc EXCEPT ![c] = "respond"] /\ UNCHANGED << held, target, left >>

Accepts(r, e) ==
  /\ pc[r] = "idle" /\ UNCHANGED << vm, held >>
  /\ target' = [target EXCEPT ![r] = e] /\ pc' = [pc EXCEPT ![r] = "route"]

Routes(r) ==
  /\ pc[r] = "route" /\ left[r] # << >> /\ Takes(Head(left[r]), r)
  /\ Send(r, context[Head(left[r])]) /\ UNCHANGED << target, left >>

\* Callers return, respond, send or accept; the other steps leave them alone.
LEMMA CallerSteps ==
  ASSUME TypeOK, ThreadsMatch, [Next]_vars
  PROVE  \/ UNCHANGED << pc, held, target >>
         \/ \E c \in Callers : Return(c) /\ UNCHANGED << code, queue >>
         \/ \E v \in Vms : running[v] \in Requests /\ StillResponds(running[v]) /\ UNCHANGED << code, queue >>
         \/ \E c \in Calls, e \in Extensions :
              context[e] \in Vms /\ pc[c] = "idle" /\ Send(c, context[e]) /\ UNCHANGED target
         \/ \E r \in Requests, e \in Extensions : Accepts(r, e)
         \/ \E r \in Requests : Routes(r)
<1>1. ASSUME NEW e \in Extensions, FileStep(e) \/ SwitchStep(e) PROVE UNCHANGED << pc, held, target >>
  BY <1>1 DEF FileStep, EditFile, Load, Unload, SwitchStep, Disable, BeginReload, ReadFails, Started,
              ReadFile, Enable, caller
<1>2. ASSUME NEW v \in Vms, ThreadStep(v)
      PROVE  \/ UNCHANGED << pc, held, target >>
             \/ \E c \in Callers : Return(c) /\ UNCHANGED << code, queue >>
             \/ running[v] \in Requests /\ StillResponds(running[v]) /\ UNCHANGED << code, queue >>
  <2>1. CASE Answer(v)
    <3>1. running[v] \in Callers
      BY <2>1 DEF Answer, TypeOK
    <3>2. QED
      BY <2>1, <3>1 DEF Answer, StillResponds
  <2>2. CASE ~Answer(v)
    BY <1>2, <2>2 DEF ThreadStep, InitThread, Take, EndThread, Die, caller
  <2>3. QED
    BY <2>1, <2>2
<1>3. ASSUME NEW e \in Extensions, NEW c \in Calls, Call(c, e)
      PROVE  context[e] \in Vms /\ pc[c] = "idle" /\ Send(c, context[e]) /\ UNCHANGED target
  BY <1>3 DEF Call, TypeOK
<1>4. ASSUME NEW e \in Extensions, NEW r \in Requests, Accept(r, e) PROVE Accepts(r, e)
  BY <1>4 DEF Accept, Accepts
<1>5. ASSUME NEW c \in Callers, SeeDropped(c) \/ Respond(c)
      PROVE  Return(c) /\ UNCHANGED << code, queue >>
  BY <1>5 DEF SeeDropped, Respond, vm
<1>6. ASSUME NEW r \in Requests, Route(r)
      PROVE  \/ UNCHANGED << pc, held, target >>
             \/ Return(r) /\ UNCHANGED << code, queue >>
             \/ Routes(r)
  BY <1>6, Rounds DEF Routes, Route, vm
<1>7. \A r \in Requests : r \in Callers
  BY DEF Callers
<1>8. UNCHANGED vars => UNCHANGED << pc, held, target >>
  BY DEF vars, caller
<1>9. QED
  BY <1>1, <1>2, <1>3, <1>4, <1>5, <1>6, <1>7, <1>8, Steps

\* Whoever waits holds on to a context; a request that is being routed has a target.
LEMMA NextHold ==
  TypeOK /\ ThreadsMatch /\ CallersHold /\ [Next]_vars => CallersHold'
<1> SUFFICES ASSUME TypeOK, ThreadsMatch, CallersHold, [Next]_vars PROVE CallersHold'
  OBVIOUS
<1>0. /\ pc \in [Callers -> {"idle", "wait", "route", "respond"}]
      /\ held \in [Callers -> Vms \cup {None}] /\ target \in [Requests -> Extensions \cup {None}]
      /\ None \notin Vms \cup Extensions /\ \A r \in Requests : r \in Callers
      /\ \A c \in Calls : c \in Callers /\ c \notin Requests
  BY RuntimeAssumption DEF TypeOK, Callers
<1>1. CASE UNCHANGED << pc, held, target >>
  BY <1>1 DEF CallersHold
<1>2. ASSUME NEW c \in Callers, Return(c) PROVE CallersHold'
  BY <1>0, <1>2 DEF CallersHold, Return
<1>3. ASSUME NEW c \in Callers, StillResponds(c) PROVE CallersHold'
  BY <1>0, <1>3 DEF CallersHold, StillResponds
<1>4. ASSUME NEW c \in Callers, NEW v \in Vms, Send(c, v), UNCHANGED target PROVE CallersHold'
  BY <1>0, <1>4 DEF CallersHold, Send
<1>5. ASSUME NEW r \in Requests, NEW e \in Extensions, Accepts(r, e) PROVE CallersHold'
  BY <1>0, <1>5 DEF CallersHold, Accepts
<1>6. ASSUME NEW r \in Requests, Routes(r) PROVE CallersHold'
  <2>1. context[Head(left[r])] \in Vms
    BY <1>6, SentTo DEF Routes
  <2>2. QED
    BY <1>0, <1>4, <1>6, <2>1 DEF Routes
<1>7. QED
  BY <1>0, <1>1, <1>2, <1>3, <1>4, <1>5, <1>6, CallerSteps

\* Initially no one waits.
LEMMA InitHold == Init => CallersHold
BY DEF Init, CallersHold, Callers

\* What a caller holds stays what it is.
LEMMA HeldStays ==
  ASSUME TypeOK, [Next]_vars, NEW c \in Callers, held[c] # None
  PROVE  code'[held[c]] = code[held[c]]
<1>0. held[c] \in Vms
  BY DEF TypeOK
<1>1. ASSUME NEW v \in Vms, ~Senders(v), NEW x, code' = [code EXCEPT ![v] = x]
      PROVE  code'[held[c]] = code[held[c]]
  BY <1>0, <1>1 DEF Senders, TypeOK
<1>2. ASSUME NEW e \in Extensions, FileStep(e) \/ SwitchStep(e) PROVE code'[held[c]] = code[held[c]]
  <2>1. ASSUME NEW version, NEW v \in Vms, Start(e, version, v)
        PROVE  code'[held[c]] = code[held[c]]
    BY <1>1, <2>1 DEF Start
  <2>2. \/ UNCHANGED code
        \/ \E v \in Vms : \E version : Start(e, version, v)
    BY <1>2 DEF FileStep, EditFile, Load, Unload, SwitchStep, Disable, BeginReload, ReadFails, Started,
                ReadFile, Enable, vm
  <2>3. QED
    BY <2>1, <2>2
<1>3. ASSUME NEW v \in Vms, ThreadStep(v) PROVE code'[held[c]] = code[held[c]]
  BY <1>1, <1>3 DEF ThreadStep, InitThread, Take, Answer, EndThread, Die
<1>4. ASSUME NEW e \in Extensions, NEW d \in Calls, Call(d, e) PROVE UNCHANGED code
  BY <1>4 DEF Call, Send
<1>5. ASSUME NEW e \in Extensions, NEW r \in Requests, Accept(r, e) PROVE UNCHANGED code
  BY <1>5 DEF Accept, vm
<1>6. ASSUME NEW d, SeeDropped(d) \/ Route(d) \/ Respond(d) PROVE UNCHANGED code
  BY <1>6 DEF SeeDropped, Route, Respond, Send, vm
<1>7. UNCHANGED vars => UNCHANGED code
  BY DEF vars, vm
<1>8. QED
  BY <1>2, <1>3, <1>4, <1>5, <1>6, <1>7, Steps

\* A request keeps the thread of an extension that it matches, and its target.
LEMMA NextRouted ==
  TypeOK /\ ThreadsMatch /\ CallersHold /\ RoutedToAMatch /\ [Next]_vars => RoutedToAMatch'
<1> SUFFICES ASSUME TypeOK, ThreadsMatch, CallersHold, RoutedToAMatch, [Next]_vars,
                    NEW r \in Requests, held'[r] # None
             PROVE  IsPrefix(IdOf[code'[held'[r]].ext], Append(IdOf[target'[r]], "/"))
  BY DEF RoutedToAMatch, Uri
<1>0. /\ pc \in [Callers -> {"idle", "wait", "route", "respond"}]
      /\ held \in [Callers -> Vms \cup {None}] /\ target \in [Requests -> Extensions \cup {None}]
      /\ None \notin Vms \cup Extensions /\ \A x \in Requests : x \in Callers
      /\ \A c \in Calls : c \in Callers /\ c \notin Requests
  BY RuntimeAssumption DEF TypeOK, Callers
<1>1. held[r] # None => /\ code'[held[r]] = code[held[r]]
                        /\ IsPrefix(IdOf[code[held[r]].ext], Append(IdOf[target[r]], "/"))
  BY <1>0, HeldStays DEF RoutedToAMatch, Uri
<1>2. CASE held'[r] = held[r] /\ target'[r] = target[r]
  BY <1>1, <1>2
<1>3. ASSUME NEW c \in Callers, Return(c) PROVE held'[r] = held[r] /\ target'[r] = target[r]
  BY <1>0, <1>3 DEF Return
<1>4. ASSUME NEW c \in Calls, NEW v, Send(c, v), UNCHANGED target
      PROVE  held'[r] = held[r] /\ target'[r] = target[r]
  BY <1>0, <1>4 DEF Send
<1>5. ASSUME NEW x \in Requests, NEW e \in Extensions, Accepts(x, e)
      PROVE  held'[r] = held[r] /\ target'[r] = target[r]
  BY <1>0, <1>5 DEF Accepts, CallersHold
<1>6. ASSUME NEW x \in Requests, Routes(x), x # r
      PROVE  held'[r] = held[r] /\ target'[r] = target[r]
  BY <1>0, <1>6 DEF Routes, Send
<1>7. CASE Routes(r)
  <2> DEFINE e == Head(left[r])
  <2>1. e \in Extensions /\ code[context[e]].ext = e /\ context[e] \in Vms
    BY <1>7, SentTo DEF Routes
  <2>3. IsPrefix(IdOf[e], Append(IdOf[target[r]], "/"))
    BY <1>7 DEF Routes, Takes, Uri
  <2>4. held'[r] = context[e] /\ target'[r] = target[r] /\ code' = code
    BY <1>0, <1>7 DEF Routes, Send
  <2>5. QED
    BY <2>1, <2>3, <2>4
<1>8. ASSUME NEW c, StillResponds(c) PROVE held'[r] = held[r] /\ target'[r] = target[r]
  BY <1>8 DEF StillResponds
<1>9. QED
  BY <1>2, <1>3, <1>4, <1>5, <1>6, <1>7, <1>8, CallerSteps

\* However extensions come and go meanwhile: the proxy gives no extension a
\* request whose path does not begin with the extension's own.
THEOREM RequestsReachAMatch == Spec => []RoutedToAMatch
<1>1. Init => ThreadsMatch /\ RoutedToAMatch
  BY DEF Init, ThreadsMatch, RoutedToAMatch, Callers
<1>2. QED
  BY <1>1, InitTypes, InitHold, NextTypes, NextMatch, NextHold, NextRouted, PTL DEF Spec

-----------------------------------------------------------------------------
(* Tasks.                                                                   *)

\* A queue that is appended to, or whose head is taken.
LEMMA Queues ==
  ASSUME NEW S, NEW q \in Seq(S)
  PROVE  /\ \A x \in S : ToSet(q) \subseteq ToSet(Append(q, x))
         /\ q # << >> => ToSet(q) \subseteq {Head(q)} \cup ToSet(Tail(q))
<1>1. ASSUME NEW x \in S, NEW i \in 1 .. Len(q) PROVE q[i] \in ToSet(Append(q, x))
  <2>1. i \in 1 .. Len(Append(q, x)) /\ Append(q, x)[i] = q[i]
    OBVIOUS
  <2>2. QED
    BY <2>1 DEF ToSet
<1>2. ASSUME q # << >>, NEW i \in 1 .. Len(q) PROVE q[i] \in {Head(q)} \cup ToSet(Tail(q))
  <2>1. CASE i = 1
    BY <1>2, <2>1
  <2>2. CASE i # 1
    <3>1. i - 1 \in 1 .. Len(Tail(q)) /\ Tail(q)[i - 1] = q[i]
      BY <1>2, <2>2
    <3>2. Tail(q) \in Seq(S)
      BY <1>2
    <3>3. DOMAIN Tail(q) = 1 .. Len(Tail(q))
      BY <3>2
    <3> DEFINE r == Tail(q)
    <3> HIDE DEF r
    <3>4. i - 1 \in DOMAIN r /\ r[i - 1] = q[i]
      BY <3>1, <3>3 DEF r
    <3>5. q[i] \in ToSet(r)
      BY <3>4 DEF ToSet
    <3>6. QED
      BY <3>5 DEF r
  <2>3. QED
    BY <2>1, <2>2
<1>3. ASSUME NEW y \in ToSet(q) PROVE \E i \in 1 .. Len(q) : y = q[i]
  <2>1. DOMAIN q = 1 .. Len(q)
    OBVIOUS
  <2>2. QED
    BY <2>1 DEF ToSet
<1>4. ASSUME NEW x \in S PROVE ToSet(q) \subseteq ToSet(Append(q, x))
  BY <1>1, <1>3
<1>5. ASSUME q # << >> PROVE ToSet(q) \subseteq {Head(q)} \cup ToSet(Tail(q))
  BY <1>2, <1>3, <1>5
<1>6. QED
  BY <1>4, <1>5

\* A caller that still waits is still owed its answer.
LEMMA NextOwed ==
  TypeOK /\ ThreadsMatch /\ CallersHold /\ [Next]_vars =>
    \A c \in Callers :
      pc[c] = "wait" /\ Owed(c) /\ pc'[c] = "wait" => Owed(c)' \/ Die(held[c])
<1> SUFFICES ASSUME TypeOK, ThreadsMatch, CallersHold, [Next]_vars,
                    NEW c \in Callers, pc[c] = "wait", Owed(c), pc'[c] = "wait"
             PROVE  Owed(c)' \/ Die(held[c])
  OBVIOUS
<1> DEFINE v == held[c]
<1>0. /\ pc \in [Callers -> {"idle", "wait", "route", "respond"}]
      /\ held \in [Callers -> Vms \cup {None}]
      /\ queue \in [Vms -> Seq(Callers)] /\ running \in [Vms -> Callers \cup {None}]
      /\ None \notin Callers /\ \A x \in Requests : x \in Callers
      /\ \A x \in Calls : x \in Callers
  BY RuntimeAssumption DEF TypeOK, Callers
<1>1. v \in Vms
  BY <1>0 DEF CallersHold
<1>2. held'[c] = v
  <2>1. ASSUME NEW d \in Callers, Return(d) PROVE held'[c] = v
    BY <1>0, <2>1 DEF Return
  <2>2. ASSUME NEW d \in Callers, NEW w, Send(d, w), pc[d] # "wait" PROVE held'[c] = v
    BY <1>0, <2>2 DEF Send
  <2>3. QED
    BY <1>0, <2>1, <2>2, CallerSteps DEF Accepts, Routes, StillResponds
<1> HIDE DEF v
<1>3. c \in ToSet(queue[v]) \cup {running[v]}
  BY DEF Owed, v
<1>4. ASSUME ToSet(queue[v]) \cup {running[v]} \subseteq ToSet(queue'[v]) \cup {running'[v]}
      PROVE  Owed(c)'
  BY <1>2, <1>3, <1>4 DEF Owed
<1>5. UNCHANGED << queue, running >> => Owed(c)'
  BY <1>4
<1>6. ASSUME NEW d \in Callers, NEW w \in Vms, Send(d, w) PROVE Owed(c)'
  <2>1. running' = running /\ \/ queue'[v] = queue[v]
                              \/ queue'[v] = Append(queue[v], d)
    BY <1>0, <1>1, <1>6 DEF Send
  <2>2. ToSet(queue[v]) \subseteq ToSet(queue'[v])
    BY <1>0, <1>1, <2>1, Queues
  <2>3. QED
    BY <1>4, <2>1, <2>2
<1>7. ASSUME NEW e \in Extensions, FileStep(e) \/ SwitchStep(e) PROVE UNCHANGED << queue, running >>
  BY <1>7 DEF FileStep, EditFile, Load, Unload, SwitchStep, Disable, BeginReload, ReadFails, Started,
              ReadFile, Enable, Start, vm
<1>8. ASSUME NEW w \in Vms, ThreadStep(w) PROVE Owed(c)' \/ Die(held[c])
  <2>1. CASE w # v
    <3>1. queue'[v] = queue[v] /\ running'[v] = running[v]
      BY <1>0, <1>1, <1>8, <2>1
         DEF ThreadStep, InitThread, Take, Answer, EndThread, Die
    <3>2. QED
      BY <1>4, <3>1
  <2>2. CASE w = v
    <3>1. CASE InitThread(v)
      BY <1>5, <3>1 DEF InitThread
    <3>2. CASE Take(v)
      <4>1. /\ running[v] = None /\ queue[v] # << >> /\ queue[v] \in Seq(Callers)
            /\ running'[v] = Head(queue[v]) /\ queue'[v] = Tail(queue[v])
        BY <1>0, <1>1, <3>2 DEF Take
      <4>2. c \in ToSet(queue[v])
        BY <1>0, <1>3, <4>1
      <4>3. c \in {Head(queue[v])} \cup ToSet(Tail(queue[v]))
        BY <4>1, <4>2, Queues
      <4>4. QED
        BY <1>2, <4>1, <4>3 DEF Owed
    <3>3. CASE Answer(v)
      <4>1. queue' = queue /\ running[v] \in Callers
        BY <1>0, <1>1, <3>3 DEF Answer
      <4>2. pc'[running[v]] # "wait"
        <5>1. pc'[running[v]] \in {"idle", "respond"}
          BY <1>0, <3>3, <4>1 DEF Answer, Return
        <5>2. QED
          BY <5>1
      <4>3. c \in ToSet(queue[v])
        BY <1>3, <4>2
      <4>4. QED
        BY <1>2, <4>1, <4>3 DEF Owed
    <3>4. CASE EndThread(v)
      <4>1. Senders(v)
        BY DEF Senders, v
      <4>2. QED
        BY <3>4, <4>1 DEF EndThread
    <3>5. CASE Die(v)
      BY <3>5 DEF v
    <3>6. QED
      BY <1>8, <2>2, <3>1, <3>2, <3>3, <3>4, <3>5 DEF ThreadStep
  <2>3. QED
    BY <2>1, <2>2
<1>9. ASSUME NEW e \in Extensions, NEW d \in Calls, Call(d, e) PROVE Owed(c)'
  BY <1>0, <1>6, <1>9 DEF Call, TypeOK
<1>10. ASSUME NEW e \in Extensions, NEW r \in Requests, Accept(r, e)
       PROVE  UNCHANGED << queue, running >>
  BY <1>10 DEF Accept, vm
<1>11. ASSUME NEW d, SeeDropped(d) \/ Respond(d) PROVE UNCHANGED << queue, running >>
  BY <1>11 DEF SeeDropped, Respond, vm
<1>12. ASSUME NEW r \in Requests, Route(r) PROVE Owed(c)'
  <2>1. CASE UNCHANGED vm
    BY <1>5, <2>1 DEF vm
  <2>2. CASE ~UNCHANGED vm
    <3>1. /\ left[r] # << >> /\ Takes(Head(left[r]), r) /\ Send(r, context[Head(left[r])])
      BY <1>12, <2>2, Rounds DEF vm
    <3>2. context[Head(left[r])] \in Vms
      BY <3>1, SentTo
    <3>3. QED
      BY <1>0, <1>6, <3>1, <3>2
  <2>3. QED
    BY <2>1, <2>2
<1>13. UNCHANGED vars => UNCHANGED << queue, running >>
  BY DEF vars, vm
<1>14. QED
  BY <1>5, <1>7, <1>8, <1>9, <1>10, <1>11, <1>12, <1>13, Steps

\* Whatever is reloaded, disabled or unloaded meanwhile: only a panic of the
\* thread it was sent to drops the task of a caller who still waits, since the
\* context it holds keeps the thread.
THEOREM AnswersStay == Spec => NoAnswerLost
<1>1. Init => ThreadsMatch
  BY DEF Init, ThreadsMatch
<1>2. QED
  BY <1>1, InitTypes, InitHold, NextTypes, NextMatch, NextHold, NextOwed, PTL
     DEF Spec, NoAnswerLost
=============================================================================
