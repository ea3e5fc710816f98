------------------------------ MODULE CacheStore ------------------------------
(***************************************************************************)
(* One cache of an extension: the index CacheInner keeps in memory, the    *)
(* index.json and the entry files below the cache's directory, and the     *)
(* operations scripts and the application run on them.  An operation is a  *)
(* sequence of steps, each the code between two awaits.  Each of Tasks     *)
(* runs one operation at a time, so that one task is a script that awaits  *)
(* every call and two tasks are a script that does not.                    *)
(*                                                                         *)
(* Reading or writing one file is one step.  I/O that fails for reasons of *)
(* its own (a full disk) is not modelled, except for a rename that cannot  *)
(* replace an existing file, which write_atomic handles.                   *)
(***************************************************************************)
EXTENDS Integers, FiniteSets

CONSTANTS
  Tasks,          \* the operations in flight
  Keys, Values,
  BinaryValues,   \* the values that are byte arrays; the others are JSON
  SizeOf,         \* the stored size of each value
  Ttls,           \* the ttls set is called with
  Policies,       \* the policies the cache is opened with
  Uses,           \* what applications and scripts do, see Usage
  IndexFile,      \* index.json, next to one entry file per key
  Never, NoLimit, Absent

Files == Keys \cup {IndexFile}

Operations == {"set", "get", "peek", "has", "delete", "keys", "clear", "clear_all"}

Usage == [keys : SUBSET Keys, policies : SUBSET Policies, operations : SUBSET Operations,
          renames_fail : BOOLEAN,  \* whether a rename over an existing file may fail
          time : Nat]              \* bounds the wall clock and the recency ticks

\* What the index knows of an entry.
Meta == [ binary : BOOLEAN, size : Nat, expires : Nat \cup {Never}, last_access : Nat ]

ASSUME CacheAssumption ==
  /\ BinaryValues \subseteq Values
  /\ SizeOf \in [Values -> Nat]
  /\ Absent \notin Values /\ \A keys \in SUBSET Keys : Absent \notin [keys -> Meta]
  /\ IndexFile \notin Keys
  /\ Never \notin Nat /\ NoLimit \notin Nat
  /\ Ttls \subseteq (Nat \ {0}) \cup {Never}
  /\ \A p \in Policies : /\ p.default_ttl \in Nat \cup {Never}
                          /\ {p.max_entries, p.max_bytes} \subseteq Nat \cup {NoLimit}
  /\ Uses \subseteq Usage

VARIABLES
  use,       \* what this application and its scripts do
  now,       \* the wall clock
  policy,    \* CacheInner.policy
  loaded,    \* whether CacheInner.index is Some
  index,     \* its entries
  clock,     \* CacheInner.clock, the last recency tick handed out
  dir,       \* whether the cache's directories exist
  files,     \* what is in them
  temps,     \* the temporary file next to each
  cut,       \* history: the files write_atomic removed, not replaced or deleted since
  pc,        \* where each task is
  call,      \* the operation it runs, and the file it writes or reads
  shot,      \* the copy of the index it is about to write
  doomed,    \* the keys it still has to delete
  unlinking  \* the keys whose files it still has to delete

memory == << loaded, index, clock >>
disk   == << dir, files, temps, cut >>
work   == << call, shot, doomed, unlinking >>
vars   == << use, now, policy, memory, disk, pc, work >>

Empty  == [k \in {} |-> 0]
NoCall == [op |-> "none"]

is_expired(meta) == meta.expires # Never /\ now >= meta.expires

next_tick == IF now > clock THEN now ELSE clock + 1

\* The index that a load of index.json returns.
SavedIndex == IF files[IndexFile] = Absent THEN Empty ELSE files[IndexFile]

Goto(t, label) == pc' = [pc EXCEPT ![t] = label]

\* The operation of t is over, with a result or with an error.
Finish(t) ==
  /\ Goto(t, "idle")
  /\ call' = [call EXCEPT ![t] = NoCall]
  /\ shot' = [shot EXCEPT ![t] = Empty]
  /\ doomed' = [doomed EXCEPT ![t] = {}]
  /\ unlinking' = [unlinking EXCEPT ![t] = {}]

Init ==
  /\ now = 0 /\ clock = 0
  /\ use \in Uses /\ policy \in use.policies
  /\ loaded = FALSE /\ index = Empty
  /\ dir = FALSE
  /\ files = [f \in Files |-> Absent] /\ temps = files /\ cut = {}
  /\ pc = [t \in Tasks |-> "idle"]
  /\ call = [t \in Tasks |-> NoCall]
  /\ shot = [t \in Tasks |-> Empty]
  /\ doomed = [t \in Tasks |-> {}]
  /\ unlinking = [t \in Tasks |-> {}]

-----------------------------------------------------------------------------
(* The calls of a script and of the application. *)

\* What ensure_loaded leads to: the operation, or the load of index.json.
Entry(label) == IF loaded THEN label ELSE "mkdir"

Begin(t, c, label) ==
  /\ pc[t] = "idle"
  /\ c.op \in use.operations /\ c.file \in use.keys \cup {IndexFile}
  /\ call' = [call EXCEPT ![t] = c]
  /\ Goto(t, label)

BeginSet(t, k, v, ttl) ==
  /\ next_tick <= use.time
  /\ Begin(t, [op |-> "set", file |-> k, key |-> k, value |-> v, ttl |-> ttl],
           Entry("write"))
  /\ UNCHANGED << now, policy, memory, disk, shot, doomed, unlinking >>

BeginRead(t, op, k) ==
  /\ next_tick <= use.time
  /\ Begin(t, [op |-> op, file |-> k, key |-> k, binary |-> FALSE], Entry("look"))
  /\ UNCHANGED << now, policy, memory, disk, shot, doomed, unlinking >>

BeginDelete(t, k) ==
  /\ Begin(t, [op |-> "delete", file |-> k], "delete")
  /\ doomed' = [doomed EXCEPT ![t] = {k}]
  /\ UNCHANGED << now, policy, memory, disk, shot, unlinking >>

BeginOther(t, op) ==
  /\ Begin(t, [op |-> op, file |-> IndexFile],
           IF op = "keys" THEN Entry("purge") ELSE "wipe")
  /\ UNCHANGED << now, policy, memory, disk, shot, doomed, unlinking >>

\* CacheManager.open of a cache that is open: the latest policy wins.
Open ==
  /\ policy' \in use.policies \ {policy}
  /\ UNCHANGED << now, memory, disk, pc, work >>

-----------------------------------------------------------------------------
(* ensure_loaded, unless the index is in memory, and ensure_dirs. *)

MakeDirs(t) ==
  /\ pc[t] = "mkdir"
  /\ dir' = TRUE
  /\ Goto(t, IF call[t].op = "clear" THEN "write" ELSE "load")
  /\ UNCHANGED << now, policy, memory, files, temps, cut, work >>

ReadIndex(t) ==
  /\ pc[t] = "load"
  /\ shot' = [shot EXCEPT ![t] = SavedIndex]
  /\ Goto(t, "install")
  /\ UNCHANGED << now, policy, memory, disk, call, doomed, unlinking >>

InstallIndex(t) ==
  /\ pc[t] = "install"
  /\ loaded' = TRUE
  /\ index' = shot[t]
  /\ Goto(t, IF doomed[t] # {} THEN "delete"
             ELSE IF call[t].op = "set" THEN "write"
             ELSE IF call[t].op = "keys" THEN "purge" ELSE "look")
  /\ UNCHANGED << now, policy, clock, disk, work >>

-----------------------------------------------------------------------------
(* write_atomic, of an entry's value or of a snapshot of the index. *)

Content(t) == IF call[t].file = IndexFile THEN shot[t] ELSE call[t].value

\* Where a task goes on once its file is written.
Written(t) ==
  Goto(t, IF call[t].file # IndexFile THEN "insert"
          ELSE IF call[t].op = "clear" THEN "emptied" ELSE "unlink")

MoveTemp(t) ==
  LET f == call[t].file IN
  /\ temps[f] # Absent
  /\ files' = [files EXCEPT ![f] = temps[f]]
  /\ temps' = [temps EXCEPT ![f] = Absent]
  /\ cut' = cut \ {f}
  /\ Written(t)
  /\ UNCHANGED work

WriteTemp(t) ==
  /\ pc[t] = "write"
  /\ \/ /\ dir
        /\ temps' = [temps EXCEPT ![call[t].file] = Content(t)]
        /\ Goto(t, "rename")
        /\ UNCHANGED work
     \/ ~dir /\ Finish(t) /\ UNCHANGED temps
  /\ UNCHANGED << now, policy, memory, dir, files, cut >>

Rename(t) ==
  /\ pc[t] = "rename"
  /\ \/ MoveTemp(t)
     \/ /\ \/ temps[call[t].file] = Absent
           \/ use.renames_fail /\ files[call[t].file] # Absent
        /\ Goto(t, "replace")
        /\ UNCHANGED << files, temps, cut, work >>
  /\ UNCHANGED << now, policy, memory, dir >>

RemoveTarget(t) ==
  /\ pc[t] = "replace"
  /\ files' = [files EXCEPT ![call[t].file] = Absent]
  /\ cut' = cut \cup {call[t].file}
  /\ Goto(t, "again")
  /\ UNCHANGED << now, policy, memory, dir, temps, work >>

RenameAgain(t) ==
  /\ pc[t] = "again"
  /\ \/ MoveTemp(t)
     \/ temps[call[t].file] = Absent /\ Finish(t) /\ UNCHANGED << files, temps, cut >>
  /\ UNCHANGED << now, policy, memory, dir >>

\* The step that ends with a write of the whole index, ix.
SaveIndex(t, ix) ==
  /\ loaded' = TRUE
  /\ index' = ix
  /\ shot' = [shot EXCEPT ![t] = ix]
  /\ call' = [call EXCEPT ![t].file = IndexFile]
  /\ Goto(t, "write")

-----------------------------------------------------------------------------
(* set, once the entry's file is in place. *)

OlderThan(ix, k, keep) ==
  {j \in DOMAIN ix \ {keep} : ix[j].last_access < ix[k].last_access}

\* The sizes of the entries of keys add up to the number of their bytes.
TotalSize(ix, keys) == Cardinality(UNION {{k} \X (1..ix[k].size) : k \in keys})

\* Mutant: the limit on the number of entries is one too strict.
MutantOverCountByOne(ix, keep) ==
  IF policy.max_entries = NoLimit THEN {}
  ELSE {k \in DOMAIN ix \ {keep} :
          Cardinality(OlderThan(ix, k, keep)) <= Cardinality(DOMAIN ix) - policy.max_entries}

\* Each limit in turn takes the least recently used entries, never keep.
OverCount(ix, keep) ==
  IF policy.max_entries = NoLimit THEN {}
  ELSE {k \in DOMAIN ix \ {keep} :
          Cardinality(OlderThan(ix, k, keep)) < Cardinality(DOMAIN ix) - policy.max_entries}

OverBytes(ix, keep) ==
  IF policy.max_bytes = NoLimit THEN {}
  ELSE {k \in DOMAIN ix \ {keep} :
          TotalSize(ix, DOMAIN ix) - TotalSize(ix, OlderThan(ix, k, keep)) > policy.max_bytes}

Restricted(ix, keys) == [k \in keys |-> ix[k]]

collect_evictions(ix, keep) ==
  LET first == OverCount(ix, keep)
  IN first \cup OverBytes(Restricted(ix, DOMAIN ix \ first), keep)

MetaOf(c) ==
  LET ttl == IF c.ttl # Never THEN c.ttl ELSE policy.default_ttl IN
  [ binary |-> c.value \in BinaryValues,
    size   |-> SizeOf[c.value],
    expires |-> IF ttl = Never THEN Never ELSE now + ttl,
    last_access |-> next_tick ]

Insert(t) ==
  /\ pc[t] = "insert"
  /\ LET k  == call[t].key
         ix == [j \in DOMAIN index \cup {k} |->
                  IF j = k THEN MetaOf(call[t]) ELSE index[j]]
         evicted == collect_evictions(ix, k)
     IN /\ SaveIndex(t, Restricted(ix, DOMAIN ix \ evicted))
        /\ unlinking' = [unlinking EXCEPT ![t] = evicted]
  /\ clock' = next_tick
  /\ UNCHANGED << now, policy, disk, doomed >>

\* Deletes the files of entries that left the index, then ends or goes on.
Unlink(t) ==
  /\ pc[t] = "unlink"
  /\ \/ \E k \in unlinking[t] :
          /\ files' = [files EXCEPT ![k] = Absent]
          /\ cut' = cut \ {k}
          /\ unlinking' = [unlinking EXCEPT ![t] = @ \ {k}]
          /\ UNCHANGED << pc, call, shot, doomed >>
     \/ /\ unlinking[t] = {} /\ doomed[t] # {}
        /\ Goto(t, "delete")
        /\ UNCHANGED << files, cut, work >>
     \/ unlinking[t] = {} /\ doomed[t] = {} /\ Finish(t) /\ UNCHANGED << files, cut >>
  /\ UNCHANGED << now, policy, memory, dir, temps >>

-----------------------------------------------------------------------------
(* get, peek and has. *)

\* The entry turned out to be of no use: get and has delete it.
GiveUpOn(t, k) ==
  /\ doomed' = [doomed EXCEPT ![t] = {k}]
  /\ Goto(t, "delete")
  /\ UNCHANGED << call, shot, unlinking >>

Look(t) ==
  /\ pc[t] = "look"
  /\ LET k == call[t].key IN
     \/ k \notin DOMAIN index /\ Finish(t)
     \/ k \in DOMAIN index /\ is_expired(index[k]) /\ GiveUpOn(t, k)
     \/ /\ k \in DOMAIN index /\ ~is_expired(index[k])
        /\ \/ call[t].op = "has" /\ Finish(t)
           \/ /\ call[t].op # "has"
              /\ call' = [call EXCEPT ![t].binary = index[k].binary]
              /\ Goto(t, "read")
              /\ UNCHANGED << shot, doomed, unlinking >>
  /\ loaded' = TRUE
  /\ UNCHANGED << now, policy, index, clock, disk >>

\* Bytes that are not the JSON the index says they are make get fail.
ParseFails(t) == ~call[t].binary /\ files[call[t].file] \in BinaryValues

ReadEntry(t) ==
  /\ pc[t] = "read"
  /\ \/ files[call[t].file] = Absent /\ GiveUpOn(t, call[t].key)
     \/ /\ files[call[t].file] # Absent
        /\ ParseFails(t) \/ call[t].op = "peek"
        /\ Finish(t)
     \/ /\ files[call[t].file] # Absent
        /\ ~ParseFails(t) /\ call[t].op = "get"
        /\ Goto(t, "touch")
        /\ UNCHANGED work
  /\ UNCHANGED << now, policy, memory, disk >>

\* Mutant: a get updates the recency in memory only.
MutantTouchUnsaved(t) ==
  /\ pc[t] = "touch"
  /\ clock' = next_tick
  /\ index' = [k \in DOMAIN index |->
                 IF k = call[t].key THEN [index[k] EXCEPT !.last_access = next_tick]
                 ELSE index[k]]
  /\ Finish(t)
  /\ UNCHANGED << now, policy, loaded, disk >>

Touch(t) ==
  /\ pc[t] = "touch"
  /\ clock' = next_tick
  /\ SaveIndex(t, [k \in DOMAIN index |->
                     IF k = call[t].key THEN [index[k] EXCEPT !.last_access = next_tick]
                     ELSE index[k]])
  /\ UNCHANGED << now, policy, disk, doomed, unlinking >>

-----------------------------------------------------------------------------
(* delete, of one key or of every expired one. *)

Purge(t) ==
  /\ pc[t] = "purge"
  /\ LET expired == {k \in DOMAIN index : is_expired(index[k])} IN
     \/ expired = {} /\ Finish(t)
     \/ /\ expired # {}
        /\ doomed' = [doomed EXCEPT ![t] = expired]
        /\ Goto(t, "delete")
        /\ UNCHANGED << call, shot, unlinking >>
  /\ loaded' = TRUE
  /\ UNCHANGED << now, policy, index, clock, disk >>

Reload(t) ==
  /\ pc[t] = "delete"
  /\ ~loaded
  /\ Goto(t, "mkdir")
  /\ UNCHANGED << now, policy, memory, disk, work >>

\* Mutant: the file is deleted before the index that lists it is rewritten.
MutantDeleteFileFirst(t) ==
  /\ pc[t] = "delete"
  /\ loaded
  /\ \E k \in doomed[t] :
       \/ /\ k \in DOMAIN index
          /\ SaveIndex(t, Restricted(index, DOMAIN index \ {k}))
          /\ files' = [files EXCEPT ![k] = Absent]
          /\ doomed' = [doomed EXCEPT ![t] = @ \ {k}]
          /\ UNCHANGED unlinking
       \/ k \notin DOMAIN index /\ Finish(t) /\ UNCHANGED << loaded, index, files >>
  /\ UNCHANGED << now, policy, clock, dir, temps, cut >>

Delete(t) ==
  /\ pc[t] = "delete"
  /\ loaded
  /\ \E k \in doomed[t] :
       \/ /\ k \in DOMAIN index
          /\ SaveIndex(t, Restricted(index, DOMAIN index \ {k}))
          /\ doomed' = [doomed EXCEPT ![t] = @ \ {k}]
          /\ unlinking' = [unlinking EXCEPT ![t] = {k}]
       \/ k \notin DOMAIN index /\ doomed[t] = {k} /\ Finish(t) /\ UNCHANGED << loaded, index >>
       \/ /\ k \notin DOMAIN index /\ doomed[t] # {k}
          /\ doomed' = [doomed EXCEPT ![t] = @ \ {k}]
          /\ UNCHANGED << loaded, index, pc, call, shot, unlinking >>
  /\ UNCHANGED << now, policy, clock, disk >>

-----------------------------------------------------------------------------
(* clear, and clear_all as this cache sees it. *)

Wipe(t) ==
  /\ pc[t] = "wipe"
  /\ dir' = FALSE
  /\ files' = [f \in Files |-> Absent]
  /\ temps' = files'
  /\ cut' = {}
  /\ Goto(t, "reset")
  /\ UNCHANGED << now, policy, memory, work >>

Reset(t) ==
  /\ pc[t] = "reset"
  /\ loaded' = FALSE
  /\ index' = Empty
  /\ \/ call[t].op = "clear" /\ Goto(t, "mkdir") /\ UNCHANGED work
     \/ call[t].op = "clear_all" /\ Finish(t)
  /\ UNCHANGED << now, policy, clock, disk >>

Emptied(t) ==
  /\ pc[t] = "emptied"
  /\ loaded' = TRUE
  /\ index' = Empty
  /\ Finish(t)
  /\ UNCHANGED << now, policy, clock, disk >>

-----------------------------------------------------------------------------

PassTime ==
  /\ now < use.time
  /\ now' = now + 1
  /\ UNCHANGED << policy, memory, disk, pc, work >>

\* The process ends and the cache is opened again.  Restarting takes longer
\* than the ticks were ahead of the wall clock.  The temporary files that are
\* left are written anew before they are renamed, so they need no record.
Restart ==
  /\ now' = IF now > clock THEN now ELSE clock + 1
  /\ policy' \in use.policies
  /\ loaded' = FALSE /\ index' = Empty /\ clock' = 0
  /\ temps' = [f \in Files |-> Absent]
  /\ pc' = [t \in Tasks |-> "idle"]
  /\ call' = [t \in Tasks |-> NoCall]
  /\ shot' = [t \in Tasks |-> Empty]
  /\ doomed' = [t \in Tasks |-> {}]
  /\ unlinking' = [t \in Tasks |-> {}]
  /\ UNCHANGED << dir, files, cut >>

Work(t) ==
  \/ MakeDirs(t) \/ ReadIndex(t) \/ InstallIndex(t)
  \/ WriteTemp(t) \/ Rename(t) \/ RemoveTarget(t) \/ RenameAgain(t)
  \/ Insert(t) \/ Unlink(t)
  \/ Look(t) \/ ReadEntry(t) \/ Touch(t)
  \/ Purge(t) \/ Reload(t) \/ Delete(t)
  \/ Wipe(t) \/ Reset(t) \/ Emptied(t)

Next ==
  /\ \/ \E t \in Tasks :
          \/ Work(t)
          \/ \E k \in Keys, v \in Values, ttl \in Ttls : BeginSet(t, k, v, ttl)
          \/ \E k \in Keys, op \in {"get", "peek", "has"} : BeginRead(t, op, k)
          \/ \E k \in Keys : BeginDelete(t, k)
          \/ \E op \in {"keys", "clear", "clear_all"} : BeginOther(t, op)
     \/ Open \/ PassTime \/ Restart
  /\ UNCHANGED use

Spec == Init /\ [][Next]_vars

-----------------------------------------------------------------------------
(* Properties. *)

Idle == \A t \in Tasks : pc[t] = "idle"

\* Between operations nothing is left to be saved: index.json holds what is in
\* memory, so that the entries survive a restart.
IdleCacheIsSaved == Idle /\ loaded => SavedIndex = index

\* At every moment, and so after a crash at any moment, index.json only lists
\* entries whose files are there, but for one that write_atomic removed because
\* the rename over it failed.
SavedEntriesHaveFiles == \A k \in DOMAIN SavedIndex : files[k] # Absent \/ k \in cut

\* The comment on clear_all: open handles keep working, their next operation
\* recreates the directory.  A handle with an index in memory does not make its
\* directory again, so it must have it.  (Fails where a script's call overlaps.)
HandlesKeepWorking == Idle /\ loaded => dir

\* What the entries of an index are to its user: sizes and an order of use.
Recency(ix) ==
  [k \in DOMAIN ix |->
     [ size  |-> ix[k].size,
       older |-> {j \in DOMAIN ix : ix[j].last_access < ix[k].last_access} ]]

Lru == INSTANCE DurableLru WITH
         Sizes <- {SizeOf[v] : v \in Values},
         cache <- Recency(IF loaded THEN index ELSE SavedIndex),
         saved <- Recency(SavedIndex)

\* A script that awaits each call has a durable LRU cache: a set evicts the
\* least recently used entries, no more of them than the limits demand, and a
\* restart at any moment goes back to the last index that was saved.
ImplementsDurableLru == Lru!Spec
=============================================================================
