----------------------- MODULE PermissionBrokerProofs -----------------------
(***************************************************************************)
(* The safety of PermissionBroker, for every number of fetches, requests,  *)
(* file operations and saves, and for every set of hosts and permissions.  *)
(***************************************************************************)
EXTENDS PermissionBroker, PermissionStoreProofs

USE DEF Askers, Processes

\* Network({h}) is a permission, and so is all that is ever asked for.
LEMMA NetworkIsPermission ==
  ASSUME NEW h \in Hosts PROVE Network({h}) \in Permission
BY DEF Network, Permission, NetworkPermission

\* What is used are hosts and permissions.
LEMMA UsesKnown ==
  ASSUME use \in Uses
  PROVE  /\ use.hosts \subseteq Hosts /\ use.requestable \subseteq Permission
         /\ use.reachable \subseteq StoragePermission /\ use.grantable \subseteq Permission
         /\ use.removable \subseteq Permission /\ use.loads_fail \in BOOLEAN
BY PermissionAssumption DEF Usage

\* An application goes on as it began.
LEMMA UseStays == [Next]_vars => use' = use
BY DEF Next, vars, FetchProgress, Progress, StartFetch, LockCache, Recheck, Decide, AnswerFetch,
       CleanUp, Settle, NotifyWaiters, Wake, RequestPermission, EnsureAccess, AnswerAsk, Grant,
       TakeSnapshot, Persist, Save, HostRequest, HostRemove, Restart

\* Granting and removing stay within the permissions.
LEMMA GrantType ==
  ASSUME NEW P \in SUBSET Permission, NEW p \in Permission
  PROVE  /\ GrantPermission(P, p) \in SUBSET Permission
         /\ P \subseteq GrantPermission(P, p)
BY DEF GrantPermission

\* A host or a permission is known wherever the code uses it.
AskedKnown ==
  /\ \A f \in Fetches : pc[f] # "idle" => host[f] \in Hosts
  /\ \A a \in Requests \cup Accesses : pc[a] # "idle" => wanted[a] \in Permission

-----------------------------------------------------------------------------
(* Types. *)

\* Initially every variable has its type: nothing is asked for or recorded yet.
LEMMA InitType == Init => TypeOK /\ AskedKnown
BY ProcessAssumption DEF Init, TypeOK, AskedKnown, FetchLabel, AskLabel, Prompting

\* No step of a fetch, a request, a file operation, a save or the application
\* takes a variable out of its type.
LEMMA NextType == TypeOK /\ AskedKnown /\ [Next]_vars => TypeOK' /\ AskedKnown'
<1> SUFFICES ASSUME TypeOK, AskedKnown, [Next]_vars PROVE TypeOK' /\ AskedKnown'
  OBVIOUS
<1> USE ProcessAssumption, PermissionAssumption DEF TypeOK, AskedKnown, FetchLabel, AskLabel, Prompting, Goto, cache, Return
<1>0. /\ use.hosts \subseteq Hosts /\ use.requestable \subseteq Permission
      /\ use.reachable \subseteq StoragePermission /\ use.grantable \subseteq Permission
  BY UsesKnown
<1> USE <1>0
<1>1. ASSUME NEW f \in Fetches, NEW h \in use.hosts, StartFetch(f, h) PROVE TypeOK' /\ AskedKnown'
  BY <1>1 DEF StartFetch
<1>2. ASSUME NEW f \in Fetches, LockCache(f) PROVE TypeOK' /\ AskedKnown'
  BY <1>2 DEF LockCache
<1>3. ASSUME NEW f \in Fetches, Recheck(f) PROVE TypeOK' /\ AskedKnown'
  BY <1>3 DEF Recheck
<1>4. ASSUME NEW f \in Fetches, Decide(f) PROVE TypeOK' /\ AskedKnown'
  BY <1>4 DEF Decide, AnswerDenied, JoinPrompt, OpenPrompt
<1>5. ASSUME NEW f \in Fetches, AnswerFetch(f) PROVE TypeOK' /\ AskedKnown'
  <2>1. /\ pc' \in {[pc EXCEPT ![f] = l] : l \in {"fail", "grant", "settle"}}
        /\ granted' \in [Fetches -> BOOLEAN]
        /\ pc[f] = "prompt"
    BY <1>5 DEF AnswerFetch
  <2>2. UNCHANGED << use, permissions, disk, cache, host, wanted, notify, snapshot >>
    BY <1>5 DEF AnswerFetch
  <2>3. QED
    BY <2>1, <2>2
<1>6. ASSUME NEW f \in Fetches, CleanUp(f) PROVE TypeOK' /\ AskedKnown'
  BY <1>6 DEF CleanUp
<1>7. ASSUME NEW f \in Fetches, Settle(f) PROVE TypeOK' /\ AskedKnown'
  BY <1>7 DEF Settle
<1>8. ASSUME NEW f \in Fetches, NotifyWaiters(f) PROVE TypeOK' /\ AskedKnown'
  BY <1>8 DEF NotifyWaiters
<1>9. ASSUME NEW f \in Fetches, Wake(f) PROVE TypeOK' /\ AskedKnown'
  BY <1>9 DEF Wake
<1>10. ASSUME NEW r \in Requests, NEW p \in use.requestable, RequestPermission(r, p)
       PROVE TypeOK' /\ AskedKnown'
  BY <1>10 DEF RequestPermission
<1>11. ASSUME NEW a \in Accesses, NEW p \in use.reachable, EnsureAccess(a, p)
       PROVE TypeOK' /\ AskedKnown'
  BY <1>11 DEF EnsureAccess, Permission
<1>12. ASSUME NEW a \in Processes, AnswerAsk(a) PROVE TypeOK' /\ AskedKnown'
  BY <1>12 DEF AnswerAsk
<1>13. ASSUME NEW a \in Processes, Grant(a) PROVE TypeOK' /\ AskedKnown'
  <2>1. a \in Fetches \cup Requests \cup Accesses
    BY <1>13 DEF Grant
  <2>2. Asked(a) \in Permission
    BY <1>13, <2>1, NetworkIsPermission DEF Grant, Asked
  <2>3. permissions' \in SUBSET Permission
    BY <1>13, <2>2, GrantType DEF Grant
  <2>4. QED
    BY <1>13, <2>1, <2>3 DEF Grant
<1>14. ASSUME NEW a \in Processes, TakeSnapshot(a) PROVE TypeOK' /\ AskedKnown'
  BY <1>14 DEF TakeSnapshot
<1>15. ASSUME NEW a \in Processes, Persist(a) PROVE TypeOK' /\ AskedKnown'
  BY <1>15 DEF Persist
<1>16. ASSUME NEW s \in Savers, Save(s) PROVE TypeOK' /\ AskedKnown'
  BY <1>16 DEF Save
<1>17. ASSUME NEW p \in use.grantable, HostRequest(p) PROVE TypeOK' /\ AskedKnown'
  BY <1>17, GrantType DEF HostRequest
<1>18. ASSUME NEW p \in use.removable, HostRemove(p) PROVE TypeOK' /\ AskedKnown'
  BY <1>18 DEF HostRemove, RemovePermission
<1>19. ASSUME Restart PROVE TypeOK' /\ AskedKnown'
  BY <1>19 DEF Restart
<1>20. ASSUME UNCHANGED vars PROVE TypeOK' /\ AskedKnown'
  BY <1>20 DEF vars
<1>21. QED
  BY <1>1, <1>2, <1>3, <1>4, <1>5, <1>6, <1>7, <1>8, <1>9, <1>10, <1>11, <1>12,
     <1>13, <1>14, <1>15, <1>16, <1>17, <1>18, <1>19, <1>20
     DEF Next, FetchProgress, Progress

\* The type invariant, and that nothing unknown is ever asked for.
THEOREM TypeCorrect == Spec => [](TypeOK /\ AskedKnown)
BY InitType, NextType, PTL DEF Spec

-----------------------------------------------------------------------------
(* One prompt per host.  The inductive invariant says who owns what: the   *)
(* mutex belongs to the fetch between lock() and drop(), the inflight      *)
(* entry of a host to the fetch between insert() and remove().             *)

MutexOwned ==
  \A f \in Fetches : cacheLock = f <=> pc[f] \in {"recheck", "decide"}

EntryOwned ==
  \A f \in Fetches, h \in Hosts :
    inflight[h] = f <=> pc[f] \in Prompting /\ host[f] = h

SingleFlight ==
  MutexOwned /\ EntryOwned /\ WaitsForALivePrompt /\ NoPromptOnceDenied

Typed == TypeOK /\ AskedKnown

\* Initially nothing is in flight, locked or refused.
LEMMA InitSingleFlight == Init => SingleFlight
BY ProcessAssumption, PermissionAssumption
   DEF Init, SingleFlight, MutexOwned, EntryOwned, WaitsForALivePrompt,
       NoPromptOnceDenied, Prompting

\* Every step keeps the cache of ensure_network_permission consistent: the mutex
\* has one owner, an inflight entry belongs to a fetch that will remove it and
\* notify, and no fetch prompts for a refused host.
LEMMA NextSingleFlight == Typed /\ SingleFlight /\ [Next]_vars => SingleFlight'
<1> SUFFICES ASSUME Typed, SingleFlight, [Next]_vars PROVE SingleFlight'
  OBVIOUS
<1> USE ProcessAssumption, PermissionAssumption
    DEF Typed, TypeOK, AskedKnown, SingleFlight, MutexOwned, EntryOwned,
        WaitsForALivePrompt, NoPromptOnceDenied, Prompting, Goto, cache, Return
<1>0. use.hosts \subseteq Hosts
  BY UsesKnown
<1> USE <1>0
<1>1. ASSUME NEW f \in Fetches, NEW h \in use.hosts, StartFetch(f, h)
      PROVE  SingleFlight'
  BY <1>1 DEF StartFetch
<1>2. ASSUME NEW f \in Fetches, LockCache(f)
      PROVE  SingleFlight'
  BY <1>2 DEF LockCache
<1>3. ASSUME NEW f \in Fetches, Recheck(f)
      PROVE  SingleFlight'
  BY <1>3 DEF Recheck
<1>4. ASSUME NEW f \in Fetches, Decide(f), AnswerDenied(f)
      PROVE  SingleFlight'
  BY <1>4 DEF Decide, AnswerDenied
<1>5. ASSUME NEW f \in Fetches, Decide(f), JoinPrompt(f)
      PROVE  SingleFlight'
  BY <1>5 DEF Decide, JoinPrompt
<1>6. ASSUME NEW f \in Fetches, Decide(f), OpenPrompt(f)
      PROVE  SingleFlight'
  BY <1>6 DEF Decide, OpenPrompt
<1>7. ASSUME NEW f \in Fetches, AnswerFetch(f)
      PROVE  SingleFlight'
  BY <1>7 DEF AnswerFetch
<1>8. ASSUME NEW f \in Fetches, CleanUp(f)
      PROVE  SingleFlight'
  BY <1>8 DEF CleanUp
<1>9. ASSUME NEW f \in Fetches, Settle(f)
      PROVE  SingleFlight'
  BY <1>9 DEF Settle
<1>10. ASSUME NEW f \in Fetches, NotifyWaiters(f)
      PROVE  SingleFlight'
  BY <1>10 DEF NotifyWaiters
<1>11. ASSUME NEW f \in Fetches, Wake(f)
      PROVE  SingleFlight'
  BY <1>11 DEF Wake
<1>12. ASSUME NEW r \in Requests, NEW p \in use.requestable, RequestPermission(r, p)
      PROVE  SingleFlight'
  BY <1>12 DEF RequestPermission
<1>13. ASSUME NEW a \in Accesses, NEW p \in use.reachable, EnsureAccess(a, p)
      PROVE  SingleFlight'
  BY <1>13 DEF EnsureAccess
<1>14. ASSUME NEW a \in Processes, AnswerAsk(a)
      PROVE  SingleFlight'
  BY <1>14 DEF AnswerAsk
<1>15. ASSUME NEW a \in Processes, Grant(a)
      PROVE  SingleFlight'
  BY <1>15 DEF Grant
<1>16. ASSUME NEW a \in Processes, TakeSnapshot(a)
      PROVE  SingleFlight'
  BY <1>16 DEF TakeSnapshot
<1>17. ASSUME NEW a \in Processes, Persist(a)
      PROVE  SingleFlight'
  BY <1>17 DEF Persist
<1>18. ASSUME NEW s \in Savers, Save(s)
      PROVE  SingleFlight'
  BY <1>18 DEF Save
<1>19. ASSUME NEW p \in use.grantable, HostRequest(p)
      PROVE  SingleFlight'
  BY <1>19 DEF HostRequest
<1>20. ASSUME NEW p \in use.removable, HostRemove(p)
      PROVE  SingleFlight'
  BY <1>20 DEF HostRemove
<1>21. ASSUME Restart
      PROVE  SingleFlight'
  BY <1>21 DEF Restart
<1>22. ASSUME UNCHANGED vars
      PROVE  SingleFlight'
  BY <1>22 DEF vars
<1>23. QED
  BY <1>1, <1>2, <1>3, <1>4, <1>5, <1>6, <1>7, <1>8, <1>9, <1>10, <1>11, <1>12, <1>13, <1>14, <1>15, <1>16, <1>17, <1>18, <1>19, <1>20, <1>21, <1>22
     DEF Next, FetchProgress, Progress, Decide

\* The cache of ensure_network_permission is consistent in every reachable state.
LEMMA CacheConsistent == Spec => [](Typed /\ SingleFlight)
<1>1. Spec => []Typed
  BY TypeCorrect DEF Typed
<1>2. QED
  BY <1>1, InitSingleFlight, NextSingleFlight, PTL DEF Spec

\* Whatever overlaps, a host is asked about by one fetch at a time: two prompting
\* fetches to a host would both own its inflight entry.
THEOREM OneFlightPerHost == Spec => []OnePromptPerHost
<1>1. Typed /\ SingleFlight => OnePromptPerHost
  <2> SUFFICES ASSUME Typed, SingleFlight,
                      NEW f \in Fetches, NEW g \in Fetches,
                      pc[f] = "prompt", pc[g] = "prompt", host[f] = host[g]
               PROVE  f = g
    BY DEF OnePromptPerHost
  <2>1. host[f] \in Hosts
    BY DEF Typed, AskedKnown
  <2>2. inflight[host[f]] = f /\ inflight[host[f]] = g
    BY <2>1 DEF SingleFlight, EntryOwned, Prompting
  <2>3. QED
    BY <2>2
<1>2. QED
  BY <1>1, CacheConsistent, PTL

\* There is no lost wakeup: the Notify a fetch awaits is one that a fetch to the
\* same host has still to signal, however prompts are answered, fail or end.
THEOREM NoLostWakeup == Spec => []WaitsForALivePrompt
<1>1. SingleFlight => WaitsForALivePrompt
  BY DEF SingleFlight
<1>2. QED
  BY <1>1, CacheConsistent, PTL

\* A refusal binds the fetches that raced with it: none of them has a prompt for
\* the host open, or opens one, before the process ends.
THEOREM RefusalsHold == Spec => []NoPromptOnceDenied
<1>1. SingleFlight => NoPromptOnceDenied
  BY DEF SingleFlight
<1>2. QED
  BY <1>1, CacheConsistent, PTL

-----------------------------------------------------------------------------
(* Grants and what is persisted of them. *)

\* A larger store covers no less.
LEMMA HasMonotone ==
  ASSUME NEW P, NEW Q, P \subseteq Q, NEW p, HasPermission(P, p)
  PROVE  HasPermission(Q, p)
BY DEF HasPermission

\* A fetch that was told yes has the grant in the store from its Grant step on.
GrantRecorded ==
  \A f \in Fetches :
    /\ granted[f] => pc[f] \in {"grant", "snapshot", "persist", "settle", "notify"}
    /\ pc[f] \in {"snapshot", "persist"} => Has(Network({host[f]}))
    /\ pc[f] \in {"settle", "notify"} /\ granted[f] => Has(Network({host[f]}))

CopiesWithinStore ==
  disk \subseteq permissions /\ \A a \in Processes : snapshot[a] \subseteq permissions

\* As long as the application removes nothing, the store only grows until a
\* restart, and all that is derived from it agrees with it.
LEMMA NextGrantRecorded ==
  ASSUME use.removable = {}, Typed, GrantRecorded, [Next]_vars
  PROVE  GrantRecorded'
<1> USE ProcessAssumption, PermissionAssumption
    DEF Typed, TypeOK, AskedKnown, GrantRecorded, Goto, cache, Return, Has
<1>0. use.hosts \subseteq Hosts /\ use.grantable \subseteq Permission
  BY UsesKnown
<1> USE <1>0
<1>1. ASSUME NEW f \in Fetches, NEW h \in use.hosts, StartFetch(f, h)
      PROVE  GrantRecorded'
  BY <1>1 DEF StartFetch
<1>2. ASSUME NEW f \in Fetches, LockCache(f)
      PROVE  GrantRecorded'
  BY <1>2 DEF LockCache
<1>3. ASSUME NEW f \in Fetches, Recheck(f)
      PROVE  GrantRecorded'
  BY <1>3 DEF Recheck
<1>4. ASSUME NEW f \in Fetches, Decide(f)
      PROVE  GrantRecorded'
  BY <1>4 DEF Decide, AnswerDenied, JoinPrompt, OpenPrompt
<1>5. ASSUME NEW f \in Fetches, AnswerFetch(f)
      PROVE  GrantRecorded'
  <2>1. CASE pc' = [pc EXCEPT ![f] = "fail"] /\ UNCHANGED granted
    BY <1>5, <2>1 DEF AnswerFetch
  <2>2. CASE /\ pc' = [pc EXCEPT ![f] = "grant"]
             /\ granted' = [granted EXCEPT ![f] = TRUE]
    BY <1>5, <2>2 DEF AnswerFetch
  <2>3. CASE /\ pc' = [pc EXCEPT ![f] = "settle"]
             /\ granted' = [granted EXCEPT ![f] = FALSE]
    BY <1>5, <2>3 DEF AnswerFetch
  <2>4. QED
    BY <1>5, <2>1, <2>2, <2>3 DEF AnswerFetch
<1>6. ASSUME NEW f \in Fetches, CleanUp(f)
      PROVE  GrantRecorded'
  BY <1>6 DEF CleanUp
<1>7. ASSUME NEW f \in Fetches, Settle(f)
      PROVE  GrantRecorded'
  BY <1>7 DEF Settle
<1>8. ASSUME NEW f \in Fetches, NotifyWaiters(f)
      PROVE  GrantRecorded'
  BY <1>8 DEF NotifyWaiters
<1>9. ASSUME NEW f \in Fetches, Wake(f)
      PROVE  GrantRecorded'
  BY <1>9 DEF Wake
<1>10. ASSUME NEW r \in Requests, NEW p \in use.requestable, RequestPermission(r, p)
      PROVE  GrantRecorded'
  BY <1>10 DEF RequestPermission
<1>11. ASSUME NEW a \in Accesses, NEW p \in use.reachable, EnsureAccess(a, p)
      PROVE  GrantRecorded'
  BY <1>11 DEF EnsureAccess
<1>12. ASSUME NEW a \in Processes, AnswerAsk(a)
      PROVE  GrantRecorded'
  BY <1>12 DEF AnswerAsk
<1>13. ASSUME NEW a \in Processes, Grant(a)
      PROVE  GrantRecorded'
  <2>1. a \in Fetches \cup Requests \cup Accesses /\ Asked(a) \in Permission
    BY <1>13, NetworkIsPermission DEF Grant, Asked, AskLabel
  <2>2. permissions \subseteq permissions'
    BY <1>13, <2>1, GrantType DEF Grant
  <2>3. ASSUME NEW f \in Fetches, Has(Network({host[f]}))
        PROVE  Has(Network({host[f]}))'
    BY <1>13, <2>2, <2>3, HasMonotone DEF Grant
  <2>4. a \in Fetches => Has(Network({host[a]}))'
    BY <1>13 DEF Grant, Asked, GrantPermission, HasPermission, Allows,
                 AllowsNetwork, Network
  <2>5. /\ pc' = [pc EXCEPT ![a] = "snapshot"]
        /\ UNCHANGED << host, granted >>
        /\ pc[a] = "grant"
    BY <1>13 DEF Grant
  <2>6. SUFFICES ASSUME NEW f \in Fetches
                 PROVE  /\ granted'[f] => pc'[f] \in {"grant", "snapshot", "persist", "settle", "notify"}
                        /\ pc'[f] \in {"snapshot", "persist"} => Has(Network({host[f]}))'
                        /\ pc'[f] \in {"settle", "notify"} /\ granted'[f] => Has(Network({host[f]}))'
    BY DEF GrantRecorded, Has
  <2> HIDE DEF Has
  <2>7. CASE a = f
    BY <2>4, <2>5, <2>7
  <2>8. CASE a # f
    BY <2>3, <2>5, <2>8
  <2>9. QED
    BY <2>7, <2>8
<1>14. ASSUME NEW a \in Processes, TakeSnapshot(a)
      PROVE  GrantRecorded'
  BY <1>14 DEF TakeSnapshot
<1>15. ASSUME NEW a \in Processes, Persist(a)
      PROVE  GrantRecorded'
  <2>1. /\ pc' = [pc EXCEPT ![a] = IF a \in Fetches THEN "settle" ELSE "idle"]
        /\ pc[a] = "persist"
        /\ UNCHANGED << permissions, host, granted >>
    BY <1>15 DEF Persist
  <2> HIDE DEF Has
  <2>2. ASSUME NEW f \in Fetches, Has(Network({host[f]}))
        PROVE  Has(Network({host[f]}))'
    BY <2>1, <2>2 DEF Has
  <2>3. SUFFICES ASSUME NEW f \in Fetches
                 PROVE  /\ granted'[f] => pc'[f] \in {"grant", "snapshot", "persist", "settle", "notify"}
                        /\ pc'[f] \in {"snapshot", "persist"} => Has(Network({host[f]}))'
                        /\ pc'[f] \in {"settle", "notify"} /\ granted'[f] => Has(Network({host[f]}))'
    BY DEF GrantRecorded, Has
  <2>4. CASE a = f
    BY <2>1, <2>2, <2>4
  <2>5. CASE a # f
    BY <2>1, <2>2, <2>5
  <2>6. QED
    BY <2>4, <2>5
<1>16. ASSUME NEW s \in Savers, Save(s)
      PROVE  GrantRecorded'
  BY <1>16 DEF Save
<1>17. ASSUME NEW p \in use.grantable, HostRequest(p)
      PROVE  GrantRecorded'
  <2>1. permissions \subseteq permissions' /\ UNCHANGED << pc, host, granted >>
    BY <1>17, GrantType DEF HostRequest
  <2>2. ASSUME NEW f \in Fetches, Has(Network({host[f]}))
        PROVE  Has(Network({host[f]}))'
    BY <2>1, <2>2, HasMonotone
  <2> HIDE DEF Has
  <2>3. QED
    BY <2>1, <2>2 DEF GrantRecorded
<1>18. ASSUME NEW p \in use.removable, HostRemove(p)
      PROVE  GrantRecorded'
  BY <1>18
<1>19. ASSUME Restart
      PROVE  GrantRecorded'
  BY <1>19 DEF Restart
<1>20. ASSUME UNCHANGED vars
      PROVE  GrantRecorded'
  BY <1>20 DEF vars
<1>21. QED
  BY <1>1, <1>2, <1>3, <1>4, <1>5, <1>6, <1>7, <1>8, <1>9, <1>10, <1>11, <1>12, <1>13, <1>14, <1>15, <1>16, <1>17, <1>18, <1>19, <1>20
     DEF Next, FetchProgress, Progress

\* With nothing removed, every copy that is about to be persisted, and the
\* persisted one, stay within what the store holds.
LEMMA NextCopiesWithinStore ==
  ASSUME use.removable = {}, ~use.loads_fail, Typed, CopiesWithinStore, [Next]_vars
  PROVE  CopiesWithinStore'
<1> USE ProcessAssumption, PermissionAssumption
    DEF Typed, TypeOK, AskedKnown, CopiesWithinStore, Goto, cache, Return
<1>1. ASSUME NEW f \in Fetches, NEW h \in use.hosts, StartFetch(f, h)
      PROVE  CopiesWithinStore'
  BY <1>1 DEF StartFetch
<1>2. ASSUME NEW f \in Fetches, LockCache(f)
      PROVE  CopiesWithinStore'
  BY <1>2 DEF LockCache
<1>3. ASSUME NEW f \in Fetches, Recheck(f)
      PROVE  CopiesWithinStore'
  BY <1>3 DEF Recheck
<1>4. ASSUME NEW f \in Fetches, Decide(f)
      PROVE  CopiesWithinStore'
  BY <1>4 DEF Decide, AnswerDenied, JoinPrompt, OpenPrompt
<1>5. ASSUME NEW f \in Fetches, AnswerFetch(f)
      PROVE  CopiesWithinStore'
  BY <1>5 DEF AnswerFetch
<1>6. ASSUME NEW f \in Fetches, CleanUp(f)
      PROVE  CopiesWithinStore'
  BY <1>6 DEF CleanUp
<1>7. ASSUME NEW f \in Fetches, Settle(f)
      PROVE  CopiesWithinStore'
  BY <1>7 DEF Settle
<1>8. ASSUME NEW f \in Fetches, NotifyWaiters(f)
      PROVE  CopiesWithinStore'
  BY <1>8 DEF NotifyWaiters
<1>9. ASSUME NEW f \in Fetches, Wake(f)
      PROVE  CopiesWithinStore'
  BY <1>9 DEF Wake
<1>10. ASSUME NEW r \in Requests, NEW p \in use.requestable, RequestPermission(r, p)
      PROVE  CopiesWithinStore'
  BY <1>10 DEF RequestPermission
<1>11. ASSUME NEW a \in Accesses, NEW p \in use.reachable, EnsureAccess(a, p)
      PROVE  CopiesWithinStore'
  BY <1>11 DEF EnsureAccess
<1>12. ASSUME NEW a \in Processes, AnswerAsk(a)
      PROVE  CopiesWithinStore'
  BY <1>12 DEF AnswerAsk
<1>13. ASSUME NEW a \in Processes, Grant(a)
      PROVE  CopiesWithinStore'
  BY <1>13 DEF Grant, GrantPermission
<1>14. ASSUME NEW a \in Processes, TakeSnapshot(a)
      PROVE  CopiesWithinStore'
  BY <1>14 DEF TakeSnapshot
<1>15. ASSUME NEW a \in Processes, Persist(a)
      PROVE  CopiesWithinStore'
  BY <1>15 DEF Persist
<1>16. ASSUME NEW s \in Savers, Save(s)
      PROVE  CopiesWithinStore'
  BY <1>16 DEF Save
<1>17. ASSUME NEW p \in use.grantable, HostRequest(p)
      PROVE  CopiesWithinStore'
  BY <1>17 DEF HostRequest, GrantPermission
<1>18. ASSUME NEW p \in use.removable, HostRemove(p)
      PROVE  CopiesWithinStore'
  BY <1>18
<1>19. ASSUME Restart
      PROVE  CopiesWithinStore'
  BY <1>19 DEF Restart
<1>20. ASSUME UNCHANGED vars
      PROVE  CopiesWithinStore'
  BY <1>20 DEF vars
<1>21. QED
  BY <1>1, <1>2, <1>3, <1>4, <1>5, <1>6, <1>7, <1>8, <1>9, <1>10, <1>11, <1>12, <1>13, <1>14, <1>15, <1>16, <1>17, <1>18, <1>19, <1>20
     DEF Next, FetchProgress, Progress

\* With nothing removed, a woken fetch never reports a refusal that never was.
THEOREM GrantReachesWaiters == Spec => []GrantSeenByWaiters
<1> DEFINE IInv == use.removable = {} => GrantRecorded
<1>1. Init => IInv
  BY DEF Init, GrantRecorded
<1>2. IInv => GrantSeenByWaiters
  BY DEF GrantRecorded, GrantSeenByWaiters
<1>3. Spec => []Typed
  BY TypeCorrect DEF Typed
<1>4. Typed /\ IInv /\ [Next]_vars => IInv'
  BY NextGrantRecorded, UseStays
<1>5. QED
  BY <1>1, <1>2, <1>3, <1>4, PTL DEF Spec

\* With nothing removed and no failing load, nothing but grants that still hold
\* is persisted, however the saves of different activities overlap.
THEOREM PersistedGrantsHold == Spec => []DiskWithinStore
<1> DEFINE IInv == use.removable = {} /\ ~use.loads_fail => CopiesWithinStore
<1>1. Init => IInv
  BY DEF Init, CopiesWithinStore
<1>2. IInv => DiskWithinStore
  BY DEF CopiesWithinStore, DiskWithinStore
<1>3. Spec => []Typed
  BY TypeCorrect DEF Typed
<1>4. Typed /\ IInv /\ [Next]_vars => IInv'
  BY NextCopiesWithinStore, UseStays
<1>5. QED
  BY <1>1, <1>2, <1>3, <1>4, PTL DEF Spec

-----------------------------------------------------------------------------
(* The broker implements the abstract life of a host. *)

\* What a step that leaves the store and the cache alone means: nothing.
LEMMA DecisionUnchanged ==
  ASSUME UNCHANGED << permissions, inflight, denied >>
  PROVE  UNCHANGED decision
BY DEF decision, Has

\* A larger store: the newly covered hosts are allowed.
LEMMA GrowingAllows ==
  ASSUME permissions \subseteq permissions', UNCHANGED << inflight, denied >>
  PROVE  Decisions!Next
<1> DEFINE covered == {h \in Hosts : HasPermission(permissions', Network({h}))}
<1>1. ASSUME NEW h \in Hosts, Has(Network({h})) PROVE h \in covered
  BY <1>1, HasMonotone DEF Has
<1>2. decision' = [h \in Hosts |-> IF h \in covered THEN "granted" ELSE decision[h]]
  BY <1>1 DEF decision, Has
<1>3. covered \in SUBSET Hosts
  OBVIOUS
<1>4. QED
  BY <1>2, <1>3 DEF Decisions!Next, Decisions!Allow

\* The steps of ImplementsHostDecision.
DecisionStep ==
  \/ Decisions!Next
  \/ Decisions!Withdraw /\ \E p \in use.removable : HostRemove(p)
  \/ Decisions!Forget /\ Restart
  \/ UNCHANGED decision

\* Every step of the broker is, per host, a step of HostDecision or none.
LEMMA NextDecision == Typed /\ SingleFlight /\ [Next]_vars => DecisionStep
<1> SUFFICES ASSUME Typed, SingleFlight, [Next]_vars PROVE DecisionStep
  OBVIOUS
<1> USE ProcessAssumption, PermissionAssumption DEF Goto, cache, Return, DecisionStep
<1>1. ASSUME NEW f \in Fetches, NEW h \in use.hosts, StartFetch(f, h)
      PROVE  DecisionStep
  BY <1>1, DecisionUnchanged DEF StartFetch
<1>2. ASSUME NEW f \in Fetches, LockCache(f)
      PROVE  DecisionStep
  BY <1>2, DecisionUnchanged DEF LockCache
<1>3. ASSUME NEW f \in Fetches, Recheck(f)
      PROVE  DecisionStep
  BY <1>3, DecisionUnchanged DEF Recheck
<1>4. ASSUME NEW f \in Fetches, Decide(f)
      PROVE  DecisionStep
  <2>1. CASE AnswerDenied(f) \/ JoinPrompt(f)
    BY <1>4, <2>1, DecisionUnchanged DEF Decide, AnswerDenied, JoinPrompt
  <2>2. CASE OpenPrompt(f)
    <3> DEFINE h == host[f]
    <3>1. /\ h \in Hosts /\ h \notin denied /\ inflight[h] = NoProcess
          /\ inflight' = [inflight EXCEPT ![h] = f]
          /\ inflight \in [Hosts -> Fetches \cup {NoProcess}]
          /\ f # NoProcess
          /\ UNCHANGED << permissions, denied >>
      BY <1>4, <2>2 DEF Decide, OpenPrompt, Typed, TypeOK, AskedKnown
    <3>2. CASE Has(Network({h}))
      BY <3>1, <3>2 DEF decision, Has
    <3>3. CASE ~Has(Network({h}))
      BY <3>1, <3>3 DEF decision, Has, Decisions!Next, Decisions!Ask
    <3>4. QED
      BY <3>2, <3>3
  <2>3. QED
    BY <1>4, <2>1, <2>2 DEF Decide
<1>5. ASSUME NEW f \in Fetches, AnswerFetch(f)
      PROVE  DecisionStep
  BY <1>5, DecisionUnchanged DEF AnswerFetch
<1>6. ASSUME NEW f \in Fetches, CleanUp(f)
      PROVE  DecisionStep
  <2> DEFINE h == host[f]
  <2>1. /\ h \in Hosts /\ h \notin denied /\ inflight[h] = f
        /\ inflight' = [inflight EXCEPT ![h] = NoProcess]
        /\ inflight \in [Hosts -> Fetches \cup {NoProcess}]
        /\ f # NoProcess
        /\ UNCHANGED << permissions, denied >>
    BY <1>6 DEF CleanUp, Typed, TypeOK, AskedKnown, SingleFlight, EntryOwned,
                NoPromptOnceDenied, Prompting
  <2>2. CASE Has(Network({h}))
    BY <2>1, <2>2 DEF decision, Has
  <2>3. CASE ~Has(Network({h}))
    <3>1. decision[h] = "asking"
      BY <2>1, <2>3 DEF decision
    <3>2. decision' = [decision EXCEPT ![h] = "unknown"]
      BY <2>1, <2>3 DEF decision, Has
    <3>3. QED
      BY <2>1, <3>1, <3>2 DEF Decisions!Next, Decisions!GiveUp
  <2>4. QED
    BY <2>2, <2>3
<1>7. ASSUME NEW f \in Fetches, Settle(f)
      PROVE  DecisionStep
  <2> DEFINE h == host[f]
  <2>1. /\ h \in Hosts /\ h \notin denied /\ inflight[h] = f
        /\ inflight' = [inflight EXCEPT ![h] = NoProcess]
        /\ inflight \in [Hosts -> Fetches \cup {NoProcess}]
        /\ f # NoProcess
        /\ UNCHANGED permissions
        /\ denied' = denied \/ denied' = denied \cup {h}
    BY <1>7 DEF Settle, Typed, TypeOK, AskedKnown, SingleFlight, EntryOwned,
                NoPromptOnceDenied, Prompting
  <2>2. CASE Has(Network({h}))
    BY <2>1, <2>2 DEF decision, Has
  <2>3. CASE ~Has(Network({h})) /\ denied' = denied
    <3>1. decision[h] = "asking"
      BY <2>1, <2>3 DEF decision
    <3>2. decision' = [decision EXCEPT ![h] = "unknown"]
      BY <2>1, <2>3 DEF decision, Has
    <3>3. QED
      BY <2>1, <3>1, <3>2 DEF Decisions!Next, Decisions!GiveUp
  <2>4. CASE ~Has(Network({h})) /\ denied' = denied \cup {h}
    BY <2>1, <2>4 DEF decision, Has, Decisions!Next, Decisions!Refuse
  <2>5. QED
    BY <2>1, <2>2, <2>3, <2>4
<1>8. ASSUME NEW f \in Fetches, NotifyWaiters(f)
      PROVE  DecisionStep
  BY <1>8, DecisionUnchanged DEF NotifyWaiters
<1>9. ASSUME NEW f \in Fetches, Wake(f)
      PROVE  DecisionStep
  BY <1>9, DecisionUnchanged DEF Wake
<1>10. ASSUME NEW r \in Requests, NEW p \in use.requestable, RequestPermission(r, p)
      PROVE  DecisionStep
  BY <1>10, DecisionUnchanged DEF RequestPermission
<1>11. ASSUME NEW a \in Accesses, NEW p \in use.reachable, EnsureAccess(a, p)
      PROVE  DecisionStep
  BY <1>11, DecisionUnchanged DEF EnsureAccess
<1>12. ASSUME NEW a \in Processes, AnswerAsk(a)
      PROVE  DecisionStep
  BY <1>12, DecisionUnchanged DEF AnswerAsk
<1>13. ASSUME NEW a \in Processes, Grant(a)
      PROVE  DecisionStep
  BY <1>13, GrowingAllows DEF Grant, GrantPermission
<1>14. ASSUME NEW a \in Processes, TakeSnapshot(a)
      PROVE  DecisionStep
  BY <1>14, DecisionUnchanged DEF TakeSnapshot
<1>15. ASSUME NEW a \in Processes, Persist(a)
      PROVE  DecisionStep
  BY <1>15, DecisionUnchanged DEF Persist
<1>16. ASSUME NEW s \in Savers, Save(s)
      PROVE  DecisionStep
  BY <1>16, DecisionUnchanged DEF Save
<1>17. ASSUME NEW p \in use.grantable, HostRequest(p)
      PROVE  DecisionStep
  BY <1>17, GrowingAllows DEF HostRequest, GrantPermission
<1>18. ASSUME NEW p \in use.removable, HostRemove(p)
      PROVE  DecisionStep
  <2>1. permissions' \subseteq permissions /\ UNCHANGED << inflight, denied >>
    BY <1>18 DEF HostRemove, RemovePermission
  <2>2. ASSUME NEW h \in Hosts, Has(Network({h}))' PROVE Has(Network({h}))
    BY <2>1, <2>2, HasMonotone DEF Has
  <2>3. Decisions!Withdraw
    BY <2>1, <2>2 DEF Decisions!Withdraw, Decisions!Decision, decision
  <2>4. QED
    BY <1>18, <2>3
<1>19. ASSUME Restart
      PROVE  DecisionStep
  <2>1. inflight' = [h \in Hosts |-> NoProcess] /\ denied' = {}
    BY <1>19 DEF Restart
  <2>2. Decisions!Forget
    BY <2>1 DEF Decisions!Forget, decision
  <2>3. QED
    BY <1>19, <2>2
<1>20. ASSUME UNCHANGED vars
      PROVE  DecisionStep
  BY <1>20, DecisionUnchanged DEF vars
<1>21. QED
  BY <1>1, <1>2, <1>3, <1>4, <1>5, <1>6, <1>7, <1>8, <1>9, <1>10, <1>11, <1>12, <1>13, <1>14, <1>15, <1>16, <1>17, <1>18, <1>19, <1>20
     DEF Next, FetchProgress, Progress

\* For every number of concurrent fetches, requests and file operations the
\* broker implements HostDecision: a host is asked about only while nothing is
\* known about it, and a refusal is forgotten by a restart only.
THEOREM BrokerImplementsHostDecision == Spec => ImplementsHostDecision
<1>1. Init => Decisions!Init
  BY DEF Init, Decisions!Init, decision, Has, HasPermission
<1>2. Typed /\ SingleFlight /\ [Next]_vars =>
        [ \/ Decisions!Next
          \/ Decisions!Withdraw /\ \E p \in use.removable : HostRemove(p)
          \/ Decisions!Forget /\ Restart ]_decision
  BY NextDecision DEF DecisionStep
<1>3. QED
  BY <1>1, <1>2, CacheConsistent, PTL DEF Spec, ImplementsHostDecision
=============================================================================
