-------------------------- MODULE PermissionBroker --------------------------
(***************************************************************************)
(* How the permissions of one loaded extension are asked for, recorded and *)
(* persisted.  Four kinds of activities run interleaved at their await     *)
(* points, some of them on two JS threads after a reload:                  *)
(*                                                                         *)
(*   Fetches  - fetch() calls of the script.  They go through              *)
(*              ensure_network_permission, which lets one fetch per host   *)
(*              prompt while the others wait for its Notify.               *)
(*   Requests - calls of the script's permission.requestPermission.        *)
(*   Accesses - file operations of the script, through ensure_access.      *)
(*   Savers   - save() calls of the embedding application.                 *)
(*                                                                         *)
(* The store is guarded by a RwLock that is never held over an await on    *)
(* the host, so each critical section is one step.  The mutex of the       *)
(* network permission cache is held over awaits and is a variable.         *)
(***************************************************************************)
EXTENDS PermissionStore

CONSTANTS
  Fetches, Requests, Accesses, Savers,
  Uses,          \* what applications and their extensions do, see Usage
  NoProcess, NoHost, NoPermission

Askers    == Fetches \cup Requests \cup Accesses
Processes == Askers \cup Savers

\* Which activities there are; the hosts fetches go to; the permissions scripts
\* ask for with requestPermission, file operations need, and the application
\* itself adds and removes; and whether load_data_secure may fail.
Usage == [runs : SUBSET Processes, hosts : SUBSET Hosts,
          requestable : SUBSET Permission, reachable : SUBSET StoragePermission,
          grantable : SUBSET Permission, removable : SUBSET Permission,
          loads_fail : BOOLEAN]

ASSUME ProcessAssumption ==
  /\ Fetches \cap (Requests \cup Accesses \cup Savers) = {}
  /\ Savers \cap (Requests \cup Accesses) = {}
  /\ NoProcess \notin Processes
ASSUME PermissionAssumption ==
  /\ Uses \subseteq Usage
  /\ NoPermission \notin Permission
  /\ NoHost \notin Hosts

VARIABLES
  use,          \* what this application and its extension do
  permissions,  \* PermissionStore.permissions
  disk,         \* what a load_data_secure("permission") would return
  cacheLock,    \* the fetch that holds the mutex of NetworkPermissionCache
  inflight,     \* NetworkPermissionCache.inflight: the fetch whose Notify it is
  denied,       \* NetworkPermissionCache.denied
  pc,           \* where each activity is
  host,         \* the host a fetch wants to reach
  wanted,       \* the permission a request, or an access, asks for
  notify,       \* the fetch whose Notify a waiting fetch awaits
  granted,      \* the answer a prompting fetch got from the application
  snapshot      \* the copy of the store an activity is about to persist

vars == << use, permissions, disk, cacheLock, inflight, denied, pc, host, wanted,
           notify, granted, snapshot >>

cache == << cacheLock, inflight, denied >>

Asked(a) == IF a \in Fetches THEN Network({host[a]}) ELSE wanted[a]

Has(p) == HasPermission(permissions, p)

Goto(a, label) == pc' = [pc EXCEPT ![a] = label]

Init ==
  /\ use \in Uses
  /\ permissions = {} /\ disk = {}
  /\ cacheLock = NoProcess
  /\ inflight = [h \in Hosts |-> NoProcess]
  /\ denied   = {}
  /\ pc       = [a \in Processes |-> "idle"]
  /\ host     = [f \in Fetches |-> NoHost]
  /\ wanted   = [a \in Requests \cup Accesses |-> NoPermission]
  /\ notify   = [f \in Fetches |-> NoProcess]
  /\ granted  = [f \in Fetches |-> FALSE]
  /\ snapshot = [a \in Processes |-> {}]

-----------------------------------------------------------------------------
(* ensure_network_permission, up to the prompt.  A fetch that gets its     *)
(* answer is idle again.                                                   *)

StartFetch(f, h) ==
  /\ f \in use.runs /\ pc[f] = "idle"
  /\ ~Has(Network({h}))
  /\ host' = [host EXCEPT ![f] = h]
  /\ Goto(f, "lock")
  /\ UNCHANGED << use, permissions, disk, cache, wanted, notify, granted, snapshot >>

LockCache(f) ==
  /\ pc[f] = "lock"
  /\ cacheLock = NoProcess
  /\ cacheLock' = f
  /\ Goto(f, "recheck")
  /\ UNCHANGED << use, permissions, disk, inflight, denied, host, wanted, notify,
                  granted, snapshot >>

\* What a fetch forgets when it returns.
Return(f) ==
  /\ Goto(f, "idle")
  /\ host' = [host EXCEPT ![f] = NoHost]

\* A prompt may have completed while the fetch waited for the cache.
Recheck(f) ==
  /\ pc[f] = "recheck"
  /\ IF Has(Network({host[f]}))
     THEN cacheLock' = NoProcess /\ Return(f)
     ELSE Goto(f, "decide") /\ UNCHANGED << cacheLock, host >>
  /\ UNCHANGED << use, permissions, disk, inflight, denied, wanted, notify, granted,
                  snapshot >>

AnswerDenied(f) ==
  /\ host[f] \in denied
  /\ Return(f)
  /\ UNCHANGED << inflight, notify >>

JoinPrompt(f) ==
  /\ host[f] \notin denied
  /\ inflight[host[f]] # NoProcess
  /\ notify' = [notify EXCEPT ![f] = inflight[host[f]]]
  /\ Goto(f, "wait")
  /\ UNCHANGED << inflight, host >>

\* Mutant: the prompting fetch is not entered into the inflight map.
MutantOpenPromptUnannounced(f) ==
  /\ host[f] \notin denied
  /\ inflight[host[f]] = NoProcess
  /\ Goto(f, "prompt")
  /\ UNCHANGED << inflight, host, notify >>

\* Mutant: the recorded refusals are not looked at.
MutantOpenPromptThoughDenied(f) ==
  /\ inflight[host[f]] = NoProcess
  /\ inflight' = [inflight EXCEPT ![host[f]] = f]
  /\ Goto(f, "prompt")
  /\ UNCHANGED << host, notify >>

OpenPrompt(f) ==
  /\ host[f] \notin denied
  /\ inflight[host[f]] = NoProcess
  /\ inflight' = [inflight EXCEPT ![host[f]] = f]
  /\ Goto(f, "prompt")
  /\ UNCHANGED << host, notify >>

\* The rest of the critical section, which awaits nothing.
Decide(f) ==
  /\ pc[f] = "decide"
  /\ AnswerDenied(f) \/ JoinPrompt(f) \/ OpenPrompt(f)
  /\ cacheLock' = NoProcess
  /\ UNCHANGED << use, permissions, disk, denied, wanted, granted, snapshot >>

-----------------------------------------------------------------------------
(* ensure_network_permission, from the application's answer on. *)

\* Mutant: a grant settles the prompt before it is recorded.
MutantAnswerSettlesFirst(f) ==
  /\ f \in Fetches
  /\ pc[f] = "prompt"
  /\ \/ Goto(f, "fail") /\ UNCHANGED granted
     \/ Goto(f, "settle") /\ granted' \in {[granted EXCEPT ![f] = b] : b \in BOOLEAN}
  /\ UNCHANGED << use, permissions, disk, cache, host, wanted, notify, snapshot >>

AnswerFetch(f) ==
  /\ f \in Fetches
  /\ pc[f] = "prompt"
  /\ \/ Goto(f, "fail") /\ UNCHANGED granted
     \/ Goto(f, "grant") /\ granted' = [granted EXCEPT ![f] = TRUE]
     \/ Goto(f, "settle") /\ granted' = [granted EXCEPT ![f] = FALSE]
  /\ UNCHANGED << use, permissions, disk, cache, host, wanted, notify, snapshot >>

\* Mutant: a prompt that failed is cleaned up without a notification.
MutantCleanUpSilently(f) ==
  /\ pc[f] = "fail"
  /\ cacheLock = NoProcess
  /\ inflight' = [inflight EXCEPT ![host[f]] = NoProcess]
  /\ Return(f)
  /\ UNCHANGED << use, permissions, disk, cacheLock, denied, wanted, notify,
                  granted, snapshot >>

\* The prompt could not be shown: nothing is recorded about the host.
CleanUp(f) ==
  /\ pc[f] = "fail"
  /\ cacheLock = NoProcess
  /\ inflight' = [inflight EXCEPT ![host[f]] = NoProcess]
  /\ Goto(f, "notify")
  /\ UNCHANGED << use, permissions, disk, cacheLock, denied, host, wanted, notify,
                  granted, snapshot >>

\* Mutant: only the last refusal is remembered.
MutantSettleKeepsLastRefusal(f) ==
  /\ pc[f] = "settle"
  /\ cacheLock = NoProcess
  /\ inflight' = [inflight EXCEPT ![host[f]] = NoProcess]
  /\ denied' = IF granted[f] THEN denied \ {host[f]} ELSE {host[f]}
  /\ Goto(f, "notify")
  /\ UNCHANGED << use, permissions, disk, cacheLock, host, wanted, notify, granted,
                  snapshot >>

Settle(f) ==
  /\ pc[f] = "settle"
  /\ cacheLock = NoProcess
  /\ inflight' = [inflight EXCEPT ![host[f]] = NoProcess]
  /\ denied' = IF granted[f] THEN denied \ {host[f]} ELSE denied \cup {host[f]}
  /\ Goto(f, "notify")
  /\ UNCHANGED << use, permissions, disk, cacheLock, host, wanted, notify, granted,
                  snapshot >>

\* Mutant: notify_one instead of notify_waiters.
MutantNotifyOne(f) ==
  /\ pc[f] = "notify"
  /\ LET waiting == {w \in Fetches : pc[w] = "wait" /\ notify[w] = f}
     IN \E woken \in IF waiting = {} THEN {{}} ELSE {{w} : w \in waiting} :
          /\ pc' = [a \in Processes |->
                      IF a = f THEN "idle" ELSE IF a \in woken THEN "woken" ELSE pc[a]]
          /\ notify' = [a \in Fetches |-> IF a \in woken THEN NoProcess ELSE notify[a]]
  /\ host' = [host EXCEPT ![f] = NoHost]
  /\ granted' = [granted EXCEPT ![f] = FALSE]
  /\ UNCHANGED << use, permissions, disk, cache, wanted, snapshot >>

\* notify_waiters wakes every fetch that awaits this Notify at this moment.
NotifyWaiters(f) ==
  /\ pc[f] = "notify"
  /\ pc' = [a \in Processes |->
              IF a = f THEN "idle"
              ELSE IF pc[a] = "wait" /\ notify[a] = f THEN "woken" ELSE pc[a]]
  /\ host' = [host EXCEPT ![f] = NoHost]
  /\ granted' = [granted EXCEPT ![f] = FALSE]
  /\ notify' = [a \in Fetches |-> IF notify[a] = f THEN NoProcess ELSE notify[a]]
  /\ UNCHANGED << use, permissions, disk, cache, wanted, snapshot >>

\* A woken fetch answers with what the store now says, and returns.
Wake(f) ==
  /\ pc[f] = "woken"
  /\ Return(f)
  /\ UNCHANGED << use, permissions, disk, cache, wanted, notify, granted, snapshot >>

-----------------------------------------------------------------------------
(* Scripts that ask outright, and file operations.  Neither looks whether  *)
(* the same permission is being asked for already.                         *)

RequestPermission(r, p) ==
  /\ r \in use.runs /\ pc[r] = "idle"
  /\ ~Has(p)
  /\ wanted' = [wanted EXCEPT ![r] = p]
  /\ Goto(r, "prompt")
  /\ UNCHANGED << use, permissions, disk, cache, host, notify, granted, snapshot >>

EnsureAccess(a, p) ==
  /\ a \in use.runs /\ pc[a] = "idle"
  /\ ~Has(p)
  /\ wanted' = [wanted EXCEPT ![a] = p]
  /\ Goto(a, "prompt")
  /\ UNCHANGED << use, permissions, disk, cache, host, notify, granted, snapshot >>

\* The application grants, or it refuses or fails: then the caller returns.
AnswerAsk(a) ==
  /\ a \notin Fetches
  /\ pc[a] = "prompt"
  /\ \/ Goto(a, "grant") /\ UNCHANGED wanted
     \/ Goto(a, "idle") /\ wanted' = [wanted EXCEPT ![a] = NoPermission]
  /\ UNCHANGED << use, permissions, disk, cache, host, notify, granted, snapshot >>

-----------------------------------------------------------------------------
(* Recording a grant, the same in all three: under the write lock, then a  *)
(* copy of the store, then the application's store_data_secure.            *)

\* Mutant: the grant is added to the persisted copy, not to the store.
MutantGrantInTheCopyOnly(a) ==
  /\ pc[a] = "grant"
  /\ snapshot' = [snapshot EXCEPT ![a] = GrantPermission(permissions, Asked(a))]
  /\ Goto(a, "persist")
  /\ UNCHANGED << use, permissions, disk, cache, host, wanted, notify, granted >>

Grant(a) ==
  /\ pc[a] = "grant"
  /\ permissions' = GrantPermission(permissions, Asked(a))
  /\ Goto(a, "snapshot")
  /\ UNCHANGED << use, disk, cache, host, wanted, notify, granted, snapshot >>

TakeSnapshot(a) ==
  /\ pc[a] = "snapshot"
  /\ snapshot' = [snapshot EXCEPT ![a] = permissions]
  /\ Goto(a, "persist")
  /\ UNCHANGED << use, permissions, disk, cache, host, wanted, notify, granted >>

\* Mutant: every activity goes on as a fetch after its write.
MutantPersistThenSettle(a) ==
  /\ pc[a] = "persist"
  /\ disk' \in {disk, snapshot[a]}
  /\ snapshot' = [snapshot EXCEPT ![a] = {}]
  /\ Goto(a, "settle")
  /\ UNCHANGED << use, permissions, cache, host, wanted, notify, granted >>

\* A failed write is logged and otherwise ignored.
Persist(a) ==
  /\ pc[a] = "persist"
  /\ disk' \in {disk, snapshot[a]}
  /\ snapshot' = [snapshot EXCEPT ![a] = {}]
  /\ Goto(a, IF a \in Fetches THEN "settle" ELSE "idle")
  /\ wanted' = [p \in DOMAIN wanted |-> IF p = a THEN NoPermission ELSE wanted[p]]
  /\ UNCHANGED << use, permissions, cache, host, notify, granted >>

-----------------------------------------------------------------------------
(* The embedding application. *)

Save(s) ==
  /\ s \in use.runs /\ pc[s] = "idle"
  /\ snapshot' = [snapshot EXCEPT ![s] = permissions]
  /\ Goto(s, "persist")
  /\ UNCHANGED << use, permissions, disk, cache, host, wanted, notify, granted >>

\* request_permission of the bindings: the grant is recorded, not persisted.
HostRequest(p) ==
  /\ ~Has(p)
  /\ permissions' = GrantPermission(permissions, p)
  /\ UNCHANGED << use, disk, cache, pc, host, wanted, notify, granted, snapshot >>

HostRemove(p) ==
  /\ permissions' = RemovePermission(permissions, p)
  /\ UNCHANGED << use, disk, cache, pc, host, wanted, notify, granted, snapshot >>

\* The process ends and the extension is loaded again.  A load that fails
\* leaves the store empty and the persisted permissions as they are.
Restart ==
  /\ permissions' \in IF use.loads_fail THEN {{}, disk} ELSE {disk}
  /\ cacheLock' = NoProcess
  /\ inflight' = [h \in Hosts |-> NoProcess]
  /\ denied'   = {}
  /\ pc'       = [a \in Processes |-> "idle"]
  /\ host'     = [f \in Fetches |-> NoHost]
  /\ wanted'   = [a \in Requests \cup Accesses |-> NoPermission]
  /\ notify'   = [f \in Fetches |-> NoProcess]
  /\ granted'  = [f \in Fetches |-> FALSE]
  /\ snapshot' = [a \in Processes |-> {}]
  /\ UNCHANGED << use, disk >>

-----------------------------------------------------------------------------

\* The steps the runtime takes by itself, and the answers to its prompts.
Progress(a) ==
  \/ AnswerAsk(a)
  \/ Grant(a) \/ TakeSnapshot(a) \/ Persist(a)

FetchProgress(f) ==
  \/ LockCache(f) \/ Recheck(f) \/ Decide(f)
  \/ AnswerFetch(f) \/ CleanUp(f) \/ Settle(f) \/ NotifyWaiters(f) \/ Wake(f)

Next ==
  \/ \E f \in Fetches : FetchProgress(f) \/ \E h \in use.hosts : StartFetch(f, h)
  \/ \E r \in Requests, p \in use.requestable : RequestPermission(r, p)
  \/ \E a \in Accesses, p \in use.reachable : EnsureAccess(a, p)
  \/ \E a \in Processes : Progress(a)
  \/ \E s \in Savers : Save(s)
  \/ \E p \in use.grantable : HostRequest(p)
  \/ \E p \in use.removable : HostRemove(p)
  \/ Restart

Spec == Init /\ [][Next]_vars

\* Executors poll every ready future again, tokio's mutex is first come first
\* served, and the application answers the prompts it is shown.
Fairness ==
  /\ \A f \in Fetches : SF_vars(LockCache(f) \/ CleanUp(f) \/ Settle(f))
  /\ \A f \in Fetches : WF_vars(FetchProgress(f))
  /\ \A a \in Processes : WF_vars(Progress(a))

FairSpec == Spec /\ Fairness

-----------------------------------------------------------------------------
(* Properties. *)

\* Where a fetch owns the inflight entry of its host.
Prompting == {"prompt", "fail", "grant", "snapshot", "persist", "settle"}

FetchLabel ==
  Prompting \cup {"idle", "lock", "recheck", "decide", "notify", "wait", "woken"}

AskLabel == {"idle", "prompt", "grant", "snapshot", "persist"}

\* Every variable has its type.
TypeOK ==
  /\ use \in Uses
  /\ permissions \in SUBSET Permission
  /\ disk \in SUBSET Permission
  /\ cacheLock \in Fetches \cup {NoProcess}
  /\ inflight \in [Hosts -> Fetches \cup {NoProcess}]
  /\ denied \in SUBSET Hosts
  /\ pc \in [Processes -> FetchLabel]
  /\ \A a \in Requests \cup Accesses : pc[a] \in AskLabel
  /\ \A s \in Savers : pc[s] \in {"idle", "persist"}
  /\ host \in [Fetches -> Hosts \cup {NoHost}]
  /\ wanted \in [Requests \cup Accesses -> Permission \cup {NoPermission}]
  /\ notify \in [Fetches -> Fetches \cup {NoProcess}]
  /\ granted \in [Fetches -> BOOLEAN]
  /\ snapshot \in [Processes -> SUBSET Permission]

\* At most one fetch at a time has a prompt for a host on the screen, however
\* many fetches to that host run, fail or are answered meanwhile.
OnePromptPerHost ==
  \A f, g \in Fetches :
    pc[f] = "prompt" /\ pc[g] = "prompt" /\ host[f] = host[g] => f = g

\* A fetch only ever waits for a Notify that is still going to be signalled,
\* by a fetch to the same host: there is no lost wakeup.
WaitsForALivePrompt ==
  \A f \in Fetches : pc[f] = "wait" =>
    /\ notify[f] \in Fetches
    /\ pc[notify[f]] \in Prompting \cup {"notify"}
    /\ host[notify[f]] = host[f]

\* No prompt is open for a host the user refused: a refusal holds until the
\* process ends, also against fetches that raced with it.
NoPromptOnceDenied ==
  \A f \in Fetches : pc[f] \in Prompting => host[f] \notin denied

\* When the waiters of a prompt are woken the store already covers their host
\* if the user said yes, so that no waiter reports a refusal that never was; as
\* long as the application removes nothing.
GrantSeenByWaiters ==
  use.removable = {} =>
    \A f \in Fetches : pc[f] = "notify" /\ granted[f] => Has(Network({host[f]}))

\* The persisted permissions are permissions that the user granted and that
\* still hold: however saves overlap, a restart brings back nothing else; as
\* long as nothing is removed and no load fails.
DiskWithinStore == use.removable = {} /\ ~use.loads_fail => disk \subseteq permissions

\* What a host's entries in the store and in the cache mean together.
decision ==
  [h \in Hosts |->
     IF Has(Network({h})) THEN "granted"
     ELSE IF inflight[h] # NoProcess THEN "asking"
     ELSE IF h \in denied THEN "denied"
     ELSE "unknown"]

Decisions == INSTANCE HostDecision

\* Read this way, the broker implements the abstract life of a host: asked
\* about once, then granted or denied.  Only the application's withdrawal of a
\* grant takes a host out of "granted", and only a restart makes the runtime
\* forget a refusal.
ImplementsHostDecision ==
  /\ Decisions!Init
  /\ [][ \/ Decisions!Next
         \/ Decisions!Withdraw /\ \E p \in use.removable : HostRemove(p)
         \/ Decisions!Forget /\ Restart ]_decision

\* Every fetch gets an answer, provided that the application answers prompts.
FetchAnswered == \A f \in Fetches : pc[f] # "idle" ~> pc[f] = "idle"

\* remove_permission's comment: exactly the equal permission is removed.
RemovesOnlyTheEqualOne ==
  [][\A p \in use.removable : HostRemove(p) => permissions' = permissions \ {p}]_vars
=============================================================================
