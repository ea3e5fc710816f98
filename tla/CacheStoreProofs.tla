--------------------------- MODULE CacheStoreProofs ---------------------------
(***************************************************************************)
(* Proofs about one cache of an extension, for every number of tasks, keys *)
(* and values.  Types, recency and eviction are for all interleavings; the *)
(* other results are about a script that awaits each call before the next, *)
(* for whom the cache implements DurableLru.                               *)
(***************************************************************************)
EXTENDS CacheStore, FiniteSetTheorems, TLAPS

(***************************************************************************)
(* Types.                                                                  *)
(***************************************************************************)

Label ==
  {"idle", "mkdir", "load", "install", "write", "rename", "replace", "again",
   "insert", "unlink", "look", "read", "touch", "purge", "delete", "wipe",
   "reset", "emptied"}

SetCall ==
  [ op : {"set"}, file : Files, key : Keys, value : Values,
    ttl : Nat \cup {Never} ]

ReadCall ==
  [op : {"get", "peek", "has"}, file : Files, key : Keys, binary : BOOLEAN]

OtherCall == [op : {"delete", "keys", "clear", "clear_all"}, file : Files]

Call == SetCall \cup ReadCall \cup OtherCall \cup {NoCall}

IsIndex(ix) == \E keys \in SUBSET Keys : ix \in [keys -> Meta]

\* What may be in the directory, or be written next to it.
Stored(contents) ==
  /\ contents = [f \in Files |-> contents[f]]
  /\ \A k \in Keys : contents[k] \in Values \cup {Absent}
  /\ contents[IndexFile] = Absent \/ IsIndex(contents[IndexFile])

MemoryTypes ==
  /\ now \in Nat /\ clock \in Nat
  /\ policy \in Policies
  /\ loaded \in BOOLEAN
  /\ IsIndex(index)
  /\ dir \in BOOLEAN

WorkTypes ==
  /\ pc \in [Tasks -> Label]
  /\ call \in [Tasks -> Call]
  /\ shot = [t \in Tasks |-> shot[t]] /\ \A t \in Tasks : IsIndex(shot[t])
  /\ doomed \in [Tasks -> SUBSET Keys]
  /\ unlinking \in [Tasks -> SUBSET Keys]

\* The application and its scripts stay what they are.
UseOK == use \in Uses

TypeOK == MemoryTypes /\ Stored(files) /\ Stored(temps) /\ WorkTypes

\* Which operation may be where, and what it carries there.
Where(op, label, file, chain, rest, copy) ==
  /\ label = "idle" => op = "none"
  /\ label # "idle" =>
       op \in {"set", "get", "peek", "has", "delete", "keys", "clear", "clear_all"}
  /\ label \in {"mkdir", "load", "install"} =>
       op # "clear_all" /\ (op = "delete" => chain # {})
  /\ label \in {"load", "install"} => op # "clear"
  /\ label = "delete" => chain # {} /\ op \notin {"clear", "clear_all"}
  /\ label \in {"look", "read", "touch"} => op \in {"get", "peek", "has"}
  /\ label = "insert" => op = "set"
  /\ label \in {"wipe", "reset"} => op \in {"clear", "clear_all"}
  /\ label \in {"write", "rename", "replace", "again"} =>
       op # "clear_all" /\ (file # IndexFile => op = "set")
  /\ label \in {"unlink", "purge"} => op \notin {"clear", "clear_all"}
  /\ label = "emptied" => op = "clear"
  /\ op = "clear" => file = IndexFile
  /\ label = "idle" \/ op = "clear" => copy = Empty /\ rest = {}
  /\ rest # {} =>
       \/ label = "unlink"
       \/ label \in {"write", "rename", "replace", "again"} /\ file = IndexFile

Knows(t) == Where(call[t].op, pc[t], call[t].file, doomed[t], unlinking[t], shot[t])

TasksKnow == \A t \in Tasks : Knows(t)

\* The index of an empty cache is an index.
LEMMA EmptyIsIndex == IsIndex(Empty) /\ DOMAIN Empty = {}
<1>1. Empty \in [{} -> Meta] /\ {} \in SUBSET Keys
  BY DEF Empty
<1>2. QED
  BY <1>1 DEF IsIndex, Empty

\* Indices are about keys, and none is taken for a missing file.
LEMMA IndexFacts ==
  ASSUME NEW ix, IsIndex(ix)
  PROVE  /\ DOMAIN ix \subseteq Keys
         /\ \A k \in DOMAIN ix : ix[k] \in Meta
         /\ ix # Absent
BY CacheAssumption DEF IsIndex

\* What is left of an index is one.
LEMMA RestrictedIsIndex ==
  ASSUME NEW ix, IsIndex(ix), NEW S, S \subseteq DOMAIN ix
  PROVE  IsIndex(Restricted(ix, S)) /\ DOMAIN Restricted(ix, S) = S
<1>1. S \in SUBSET Keys /\ \A k \in S : ix[k] \in Meta
  BY IndexFacts
<1>2. Restricted(ix, S) \in [S -> Meta]
  BY <1>1 DEF Restricted
<1>3. QED
  BY <1>1, <1>2 DEF IsIndex, Restricted

\* So is an index with one more entry, or a new one for a key it has.
LEMMA ExtendedIsIndex ==
  ASSUME NEW ix, IsIndex(ix), NEW k \in Keys, NEW m \in Meta,
         NEW jx, jx = [j \in DOMAIN ix \cup {k} |-> IF j = k THEN m ELSE ix[j]]
  PROVE  IsIndex(jx) /\ DOMAIN jx = DOMAIN ix \cup {k}
<1>1. DOMAIN ix \cup {k} \in SUBSET Keys /\ \A j \in DOMAIN ix : ix[j] \in Meta
  BY IndexFacts
<1>2. jx \in [DOMAIN ix \cup {k} -> Meta]
  BY <1>1
<1>3. QED
  BY <1>1, <1>2 DEF IsIndex

\* So is one whose entry was used.
LEMMA TouchedIsIndex ==
  ASSUME NEW ix, IsIndex(ix), NEW key, NEW tick \in Nat,
         NEW jx, jx = [k \in DOMAIN ix |->
                         IF k = key THEN [ix[k] EXCEPT !.last_access = tick] ELSE ix[k]]
  PROVE  IsIndex(jx) /\ DOMAIN jx = DOMAIN ix
<1>1. DOMAIN ix \in SUBSET Keys /\ \A j \in DOMAIN ix : ix[j] \in Meta
  BY IndexFacts
<1>2. ASSUME NEW m \in Meta PROVE [m EXCEPT !.last_access = tick] \in Meta
  BY DEF Meta
<1>3. jx \in [DOMAIN ix -> Meta]
  BY <1>1, <1>2
<1>4. QED
  BY <1>1, <1>3 DEF IsIndex

\* Only entries of the cache are evicted.
LEMMA EvictedAreEntries ==
  ASSUME NEW ix, NEW k PROVE collect_evictions(ix, k) \subseteq DOMAIN ix
<1> DEFINE first == OverCount(ix, k)
           rest  == Restricted(ix, DOMAIN ix \ first)
<1>1. first \subseteq DOMAIN ix
  BY DEF OverCount
<1>2. DOMAIN rest = DOMAIN ix \ first
  BY DEF Restricted
<1> HIDE DEF rest
<1>3. OverBytes(rest, k) \subseteq DOMAIN rest
  BY DEF OverBytes
<1>4. collect_evictions(ix, k) = first \cup OverBytes(rest, k)
  BY DEF collect_evictions, rest
<1>5. QED
  BY <1>1, <1>2, <1>3, <1>4

\* The entry that a set is about to insert.
LEMMA MetaOfType ==
  ASSUME TypeOK, NEW c \in SetCall PROVE MetaOf(c) \in Meta
<1>1. /\ now \in Nat /\ clock \in Nat /\ next_tick \in Nat
      /\ policy.default_ttl \in Nat \cup {Never}
  BY CacheAssumption DEF TypeOK, MemoryTypes, next_tick
<1>2. c.value \in Values /\ SizeOf[c.value] \in Nat /\ c.ttl \in Nat \cup {Never}
  BY CacheAssumption DEF SetCall
<1> DEFINE ttl == IF c.ttl # Never THEN c.ttl ELSE policy.default_ttl
<1>3. ttl \in Nat \cup {Never}
  BY <1>1, <1>2
<1> HIDE DEF ttl
<1>4. (IF ttl = Never THEN Never ELSE now + ttl) \in Nat \cup {Never}
  BY <1>1, <1>3
<1>5. MetaOf(c) = [ binary |-> c.value \in BinaryValues, size |-> SizeOf[c.value],
                    expires |-> IF ttl = Never THEN Never ELSE now + ttl,
                    last_access |-> next_tick ]
  BY DEF MetaOf, ttl
<1>6. QED
  BY <1>1, <1>2, <1>4, <1>5 DEF Meta

\* A call that goes on with the index file.
LEMMA Refiled ==
  ASSUME NEW c \in Call, c.op # "none", NEW f \in Files
  PROVE  /\ [c EXCEPT !.file = f] \in Call
         /\ [c EXCEPT !.file = f].op = c.op /\ [c EXCEPT !.file = f].file = f
<1>1. CASE c \in SetCall
  BY <1>1 DEF Call, SetCall
<1>2. CASE c \in ReadCall
  BY <1>2 DEF Call, ReadCall
<1>3. CASE c \in OtherCall
  BY <1>3 DEF Call, OtherCall
<1>4. QED
  BY <1>1, <1>2, <1>3 DEF Call, NoCall

\* What is known of the calls.
LEMMA CallFacts ==
  ASSUME NEW c \in Call
  PROVE  /\ c.op \in {"none", "set", "get", "peek", "has", "delete", "keys", "clear", "clear_all"}
         /\ c.op # "none" => c.file \in Files
         /\ c.op = "set" => c \in SetCall /\ c.key \in Keys /\ c.value \in Values
         /\ c.op \in {"get", "peek", "has"} => c \in ReadCall /\ c.key \in Keys
<1>1. CASE c \in SetCall
  BY <1>1 DEF SetCall
<1>2. CASE c \in ReadCall
  BY <1>2 DEF ReadCall
<1>3. CASE c \in OtherCall
  BY <1>3 DEF OtherCall
<1>4. CASE c = NoCall
  BY <1>4 DEF NoCall
<1>5. QED
  BY <1>1, <1>2, <1>3, <1>4 DEF Call

\* A step of t leaves the other tasks where they are.
Keeps(t, old, new) == new = [u \in Tasks |-> IF u = t THEN new[t] ELSE old[u]]

OnlyTask(t) ==
  /\ Keeps(t, pc, pc') /\ Keeps(t, call, call') /\ Keeps(t, shot, shot')
  /\ Keeps(t, doomed, doomed') /\ Keeps(t, unlinking, unlinking')

\* What is assigned to one task leaves the others alone, as does what is unchanged.
LEMMA KeepsOthers ==
  ASSUME NEW t \in Tasks, NEW old, old = [u \in Tasks |-> old[u]], NEW new,
         new = old \/ \E x : new = [old EXCEPT ![t] = x]
  PROVE  Keeps(t, old, new)
<1>1. CASE new = old
  BY <1>1 DEF Keeps
<1>2. ASSUME NEW x, new = [old EXCEPT ![t] = x] PROVE Keeps(t, old, new)
  <2>1. new = [u \in Tasks |-> IF u = t THEN x ELSE old[u]]
    BY <1>2
  <2>2. QED
    BY <2>1 DEF Keeps
<1>3. QED
  BY <1>1, <1>2

\* The types of what the tasks are at follow from those of the one that moved.
LEMMA OneTaskTypes ==
  ASSUME WorkTypes, TasksKnow, NEW t \in Tasks, OnlyTask(t),
         pc'[t] \in Label, call'[t] \in Call, IsIndex(shot'[t]),
         doomed'[t] \in SUBSET Keys, unlinking'[t] \in SUBSET Keys,
         Where(call'[t].op, pc'[t], call'[t].file, doomed'[t], unlinking'[t], shot'[t])
  PROVE  WorkTypes' /\ TasksKnow'
<1>1. WorkTypes'
  BY DEF WorkTypes, OnlyTask, Keeps
<1>2. TasksKnow'
  <2>1. ASSUME NEW u \in Tasks, u # t
        PROVE  pc'[u] = pc[u] /\ call'[u] = call[u] /\ doomed'[u] = doomed[u]
               /\ unlinking'[u] = unlinking[u] /\ shot'[u] = shot[u]
    BY <2>1 DEF OnlyTask, Keeps
  <2>2. ASSUME NEW u \in Tasks PROVE Knows(u)'
    BY <2>1 DEF TasksKnow, Knows
  <2>3. QED
    BY <2>2 DEF TasksKnow
<1>3. QED
  BY <1>1, <1>2

\* A task that only moves on, or that finishes, or that writes the index.
LEMMA MovesOn ==
  ASSUME WorkTypes, TasksKnow, NEW t \in Tasks, NEW label \in Label,
         Goto(t, label), UNCHANGED work,
         Where(call[t].op, label, call[t].file, doomed[t], unlinking[t], shot[t])
  PROVE  OnlyTask(t) /\ WorkTypes' /\ TasksKnow' /\ pc'[t] = label
<1>1. OnlyTask(t) /\ pc'[t] = label
  BY DEF WorkTypes, OnlyTask, Keeps, Goto, work
<1>2. QED
  BY <1>1, OneTaskTypes DEF WorkTypes, work

\* A task that finishes holds nothing any more and touches only what is its own.
LEMMA Finishes ==
  ASSUME WorkTypes, TasksKnow, NEW t \in Tasks, Finish(t)
  PROVE  OnlyTask(t) /\ WorkTypes' /\ TasksKnow' /\ pc'[t] = "idle" /\ call'[t] = NoCall
<1>1. /\ pc'[t] = "idle" /\ call'[t] = NoCall /\ shot'[t] = Empty
      /\ doomed'[t] = {} /\ unlinking'[t] = {}
  BY DEF WorkTypes, Finish, Goto
<1>2. OnlyTask(t)
  BY DEF WorkTypes, OnlyTask, Keeps, Finish, Goto
<1>3. Where(call'[t].op, pc'[t], call'[t].file, doomed'[t], unlinking'[t], shot'[t])
  BY <1>1 DEF Where, NoCall
<1>4. QED
  BY <1>1, <1>2, <1>3, OneTaskTypes, EmptyIsIndex DEF Label, Call

\* A task that saves an index is at the write of the index file, with that index.
LEMMA Saves ==
  ASSUME WorkTypes, TasksKnow, NEW t \in Tasks, NEW ix, IsIndex(ix), SaveIndex(t, ix),
         call[t].op \notin {"none", "clear", "clear_all"},
         Keeps(t, doomed, doomed'), Keeps(t, unlinking, unlinking'),
         doomed'[t] \in SUBSET Keys, unlinking'[t] \in SUBSET Keys
  PROVE  /\ OnlyTask(t) /\ WorkTypes' /\ TasksKnow'
         /\ pc'[t] = "write" /\ call'[t].op = call[t].op /\ call'[t].file = IndexFile
         /\ shot'[t] = ix
<1>1. pc'[t] = "write" /\ shot'[t] = ix /\ call'[t] = [call[t] EXCEPT !.file = IndexFile]
  BY DEF WorkTypes, SaveIndex, Goto
<1>2. OnlyTask(t)
  BY DEF WorkTypes, OnlyTask, Keeps, SaveIndex, Goto
<1>3. call[t] \in Call
  BY DEF WorkTypes
<1>4. IndexFile \in Files
  BY DEF Files
<1>5. call'[t] \in Call /\ call'[t].op = call[t].op /\ call'[t].file = IndexFile
  BY <1>1, <1>3, <1>4, Refiled
<1>6. call[t].op \in {"set", "get", "peek", "has", "delete", "keys"}
  BY <1>3, CallFacts
<1>7. Where(call'[t].op, pc'[t], call'[t].file, doomed'[t], unlinking'[t], shot'[t])
  BY <1>1, <1>5, <1>6 DEF Where
<1>8. QED
  BY <1>1, <1>2, <1>5, <1>7, OneTaskTypes DEF Label

\* Files that are missing or hold what their names say stay so.
LEMMA StoredAfter ==
  ASSUME NEW contents, Stored(contents), NEW f \in Files, NEW c,
         \/ c = Absent
         \/ f = IndexFile /\ IsIndex(c)
         \/ f # IndexFile /\ c \in Values
  PROVE  Stored([contents EXCEPT ![f] = c])
BY CacheAssumption DEF Stored, Files

\* An empty directory is a directory.
LEMMA NoneStored == Stored([f \in Files |-> Absent])
BY DEF Stored, Files

\* What a task writes belongs into the file it writes it to.
LEMMA ContentFits ==
  ASSUME TypeOK, TasksKnow, NEW t \in Tasks,
         pc[t] \in {"write", "rename", "replace", "again"}
  PROVE  /\ call[t].file \in Files
         /\ \/ call[t].file = IndexFile /\ IsIndex(Content(t))
            \/ call[t].file # IndexFile /\ Content(t) \in Values
         /\ Content(t) # Absent
<1>1. call[t] \in Call /\ IsIndex(shot[t]) /\ shot[t] # Absent
  BY IndexFacts DEF TypeOK, WorkTypes
<1>2. call[t].op # "none" /\ (call[t].file # IndexFile => call[t].op = "set")
  BY DEF TasksKnow, Knows, Where
<1>3. call[t].file \in Files /\ (call[t].file # IndexFile => call[t].value \in Values)
  BY <1>1, <1>2, CallFacts
<1>4. QED
  BY <1>1, <1>3, CacheAssumption DEF Content

\* The file a task writes is renamed.
LEMMA Moved ==
  ASSUME TypeOK, TasksKnow, NEW t \in Tasks, pc[t] \in {"rename", "again"}, MoveTemp(t)
  PROVE  /\ Stored(files)' /\ Stored(temps)' /\ OnlyTask(t) /\ WorkTypes' /\ TasksKnow'
         /\ pc'[t] = IF call[t].file # IndexFile THEN "insert"
                     ELSE IF call[t].op = "clear" THEN "emptied" ELSE "unlink"
<1> DEFINE f == call[t].file
           label == IF f # IndexFile THEN "insert"
                    ELSE IF call[t].op = "clear" THEN "emptied" ELSE "unlink"
<1>1. f \in Files
  BY ContentFits
<1>2. /\ files' = [files EXCEPT ![f] = temps[f]] /\ temps' = [temps EXCEPT ![f] = Absent]
      /\ temps[f] # Absent /\ UNCHANGED work /\ Goto(t, label)
  <2>1. Written(t) => Goto(t, label)
    BY DEF Written, Goto
  <2>2. QED
    BY <2>1 DEF MoveTemp
<1>3. \/ f = IndexFile /\ IsIndex(temps[f])
      \/ f # IndexFile /\ temps[f] \in Values
  <2>1. temps[f] # Absent
    BY <1>2
  <2> HIDE DEF f
  <2>2. QED
    BY <1>1, <2>1 DEF TypeOK, Stored, Files
<1>4. Stored(files)' /\ Stored(temps)'
  <2>1. Stored([files EXCEPT ![f] = temps[f]]) /\ Stored([temps EXCEPT ![f] = Absent])
    BY <1>1, <1>3, StoredAfter DEF TypeOK
  <2>2. QED
    BY <1>2, <2>1
<1>5. Where(call[t].op, label, call[t].file, doomed[t], unlinking[t], shot[t]) /\ label \in Label
  BY DEF TasksKnow, Knows, Where, Label
<1>6. QED
  BY <1>2, <1>4, <1>5, MovesOn DEF TypeOK

\* A step of a task that only moves on keeps its types if it may be where it goes.
LEMMA Moving ==
  ASSUME TypeOK, TasksKnow, NEW t \in Tasks, NEW label \in Label,
         Goto(t, label), UNCHANGED << work, temps, files, now, policy, clock >>,
         loaded' \in BOOLEAN, dir' \in BOOLEAN, index' = index \/ IsIndex(index'),
         Where(call[t].op, label, call[t].file, doomed[t], unlinking[t], shot[t])
  PROVE  TypeOK' /\ TasksKnow'
<1>1. WorkTypes' /\ TasksKnow'
  BY MovesOn DEF TypeOK
<1>2. MemoryTypes' /\ Stored(files)' /\ Stored(temps)'
  BY DEF TypeOK, MemoryTypes
<1>3. QED
  BY <1>1, <1>2 DEF TypeOK

\* Initially nothing runs and nothing is stored.
LEMMA InitTypes == Init => UseOK /\ TypeOK /\ TasksKnow
<1> SUFFICES ASSUME Init PROVE UseOK /\ TypeOK /\ TasksKnow
  OBVIOUS
<1>0. UseOK /\ policy \in Policies
  BY CacheAssumption DEF Init, UseOK, Usage
<1>1. MemoryTypes /\ Stored(files) /\ Stored(temps)
  BY <1>0, EmptyIsIndex, NoneStored DEF Init, MemoryTypes
<1>2. WorkTypes
  BY EmptyIsIndex DEF Init, WorkTypes, Label, Call
<1>3. TasksKnow
  BY DEF Init, TasksKnow, Knows, Where, NoCall
<1>4. QED
  BY <1>0, <1>1, <1>2, <1>3 DEF TypeOK

\* Loading and making directories keep the types.
LEMMA LoadTypes ==
  ASSUME TypeOK, TasksKnow, NEW t \in Tasks,
         MakeDirs(t) \/ ReadIndex(t) \/ InstallIndex(t)
  PROVE  TypeOK' /\ TasksKnow' /\ OnlyTask(t)
<1>0. WorkTypes /\ call[t] \in Call /\ call[t].op # "none" /\ IsIndex(shot[t]) /\ Knows(t)
      /\ pc[t] \in {"mkdir", "load", "install"}
  BY DEF TypeOK, WorkTypes, TasksKnow, Knows, Where, MakeDirs, ReadIndex, InstallIndex
<1>1. CASE MakeDirs(t)
  <2> DEFINE label == IF call[t].op = "clear" THEN "write" ELSE "load"
  <2>1. Goto(t, label) /\ pc[t] = "mkdir" /\ label \in Label
        /\ UNCHANGED << work, temps, files, now, policy, memory >> /\ dir' = TRUE
    BY <1>1 DEF MakeDirs, Label
  <2>2. Where(call[t].op, label, call[t].file, doomed[t], unlinking[t], shot[t])
    BY <1>0, <2>1 DEF Knows, Where
  <2> HIDE DEF label
  <2>3. loaded' \in BOOLEAN /\ dir' \in BOOLEAN /\ index' = index /\ clock' = clock
    BY <2>1 DEF TypeOK, MemoryTypes, memory
  <2>4. TypeOK' /\ TasksKnow'
    BY <2>1, <2>2, <2>3, Moving
  <2>5. OnlyTask(t)
    BY <2>1, <2>2, MovesOn DEF TypeOK
  <2>6. QED
    BY <2>4, <2>5
<1>2. CASE ReadIndex(t)
  <2>1. /\ pc' = [pc EXCEPT ![t] = "install"] /\ shot' = [shot EXCEPT ![t] = SavedIndex]
        /\ UNCHANGED << now, policy, memory, disk, call, doomed, unlinking >>
        /\ pc[t] = "load"
    BY <1>2 DEF ReadIndex, Goto
  <2>2. IsIndex(SavedIndex)
    BY EmptyIsIndex DEF SavedIndex, TypeOK, Stored
  <2>3. /\ pc'[t] = "install" /\ shot'[t] = SavedIndex /\ call'[t] = call[t]
        /\ doomed'[t] = doomed[t] /\ unlinking'[t] = unlinking[t]
    BY <1>0, <2>1 DEF WorkTypes
  <2>4. OnlyTask(t)
    BY <1>0, <2>1 DEF WorkTypes, OnlyTask, Keeps
  <2>5. Where(call'[t].op, pc'[t], call'[t].file, doomed'[t], unlinking'[t], shot'[t])
    BY <1>0, <2>1, <2>3 DEF Knows, Where
  <2>6. WorkTypes' /\ TasksKnow'
    BY <1>0, <2>2, <2>3, <2>4, <2>5, OneTaskTypes DEF WorkTypes, Label
  <2>7. MemoryTypes' /\ Stored(files)' /\ Stored(temps)'
    BY <2>1 DEF TypeOK, MemoryTypes, memory, disk
  <2>8. QED
    BY <2>4, <2>6, <2>7 DEF TypeOK
<1>3. CASE InstallIndex(t)
  <2> DEFINE label == IF doomed[t] # {} THEN "delete"
                      ELSE IF call[t].op = "set" THEN "write"
                      ELSE IF call[t].op = "keys" THEN "purge" ELSE "look"
  <2>1. /\ Goto(t, label) /\ pc[t] = "install" /\ label \in Label
        /\ UNCHANGED << work, disk, now, policy, clock >>
        /\ loaded' = TRUE /\ index' = shot[t]
    BY <1>3 DEF InstallIndex, Label
  <2>2. Where(call[t].op, label, call[t].file, doomed[t], unlinking[t], shot[t])
    <3>1. call[t].op \in {"none", "set", "get", "peek", "has", "delete", "keys", "clear", "clear_all"}
      BY <1>0, CallFacts
    <3>2. QED
      BY <1>0, <2>1, <3>1 DEF Knows, Where
  <2> HIDE DEF label
  <2>3. loaded' \in BOOLEAN /\ dir' \in BOOLEAN /\ IsIndex(index')
        /\ UNCHANGED << work, temps, files, now, policy, clock >>
    BY <1>0, <2>1 DEF TypeOK, MemoryTypes, disk
  <2>4. TypeOK' /\ TasksKnow'
    BY <2>1, <2>2, <2>3, Moving
  <2>5. OnlyTask(t)
    BY <2>1, <2>2, MovesOn DEF TypeOK
  <2>6. QED
    BY <2>4, <2>5
<1>4. QED
  BY <1>1, <1>2, <1>3

\* Writing and renaming a file keep the types.
LEMMA FileTypes ==
  ASSUME TypeOK, TasksKnow, NEW t \in Tasks,
         WriteTemp(t) \/ Rename(t) \/ RemoveTarget(t) \/ RenameAgain(t)
  PROVE  TypeOK' /\ TasksKnow' /\ OnlyTask(t)
<1> DEFINE f == call[t].file
<1>0. /\ WorkTypes /\ Knows(t) /\ UNCHANGED << now, policy, memory, dir >>
      /\ pc[t] \in {"write", "rename", "replace", "again"}
  BY DEF TypeOK, TasksKnow, WriteTemp, Rename, RemoveTarget, RenameAgain
<1>1. MemoryTypes'
  BY <1>0 DEF TypeOK, MemoryTypes, memory
<1>2. /\ f \in Files
      /\ \/ f = IndexFile /\ IsIndex(Content(t))
         \/ f # IndexFile /\ Content(t) \in Values
  BY <1>0, ContentFits
<1>3. CASE WriteTemp(t)
  <2>1. CASE Finish(t) /\ UNCHANGED temps
    BY <1>0, <1>1, <1>3, <2>1, Finishes DEF WriteTemp, TypeOK
  <2>2. CASE temps' = [temps EXCEPT ![f] = Content(t)] /\ Goto(t, "rename") /\ UNCHANGED work
    <3>1. Where(call[t].op, "rename", call[t].file, doomed[t], unlinking[t], shot[t]) /\ "rename" \in Label
      BY <1>0, <1>3 DEF WriteTemp, Knows, Where, Label
    <3>2. WorkTypes' /\ TasksKnow' /\ OnlyTask(t)
      BY <1>0, <2>2, <3>1, MovesOn
    <3>3. Stored([temps EXCEPT ![f] = Content(t)])
      BY <1>2, StoredAfter DEF TypeOK
    <3>4. Stored(temps)' /\ Stored(files)'
      BY <1>3, <2>2, <3>3 DEF WriteTemp, TypeOK
    <3>5. QED
      BY <1>1, <3>2, <3>4 DEF TypeOK
  <2>3. QED
    BY <1>3, <2>1, <2>2 DEF WriteTemp
<1>4. CASE Rename(t)
  <2>1. CASE MoveTemp(t)
    BY <1>1, <1>4, <2>1, Moved DEF Rename, TypeOK
  <2>2. CASE Goto(t, "replace") /\ UNCHANGED << files, temps, work >>
    <3>1. Where(call[t].op, "replace", call[t].file, doomed[t], unlinking[t], shot[t]) /\ "replace" \in Label
      BY <1>0, <1>4 DEF Rename, Knows, Where, Label
    <3>2. WorkTypes' /\ TasksKnow' /\ OnlyTask(t)
      BY <1>0, <2>2, <3>1, MovesOn
    <3>3. QED
      BY <1>1, <2>2, <3>2 DEF TypeOK
  <2>3. QED
    BY <1>4, <2>1, <2>2 DEF Rename
<1>5. CASE RemoveTarget(t)
  <2>1. /\ files' = [files EXCEPT ![f] = Absent] /\ Goto(t, "again") /\ UNCHANGED << temps, work >>
        /\ pc[t] = "replace"
    BY <1>5 DEF RemoveTarget
  <2>2. Where(call[t].op, "again", call[t].file, doomed[t], unlinking[t], shot[t]) /\ "again" \in Label
    BY <1>0, <2>1 DEF Knows, Where, Label
  <2>3. WorkTypes' /\ TasksKnow' /\ OnlyTask(t)
    BY <1>0, <2>1, <2>2, MovesOn
  <2>4. Stored([files EXCEPT ![f] = Absent])
    BY <1>2, StoredAfter DEF TypeOK
  <2>5. Stored(temps)' /\ Stored(files)'
    BY <2>1, <2>4 DEF TypeOK
  <2>6. QED
    BY <1>1, <2>3, <2>5 DEF TypeOK
<1>6. CASE RenameAgain(t)
  <2>1. CASE MoveTemp(t)
    BY <1>1, <1>6, <2>1, Moved DEF RenameAgain, TypeOK
  <2>2. CASE Finish(t) /\ UNCHANGED << files, temps >>
    BY <1>0, <1>1, <2>2, Finishes DEF TypeOK
  <2>3. QED
    BY <1>6, <2>1, <2>2 DEF RenameAgain
<1>7. QED
  BY <1>3, <1>4, <1>5, <1>6

\* Inserting an entry and deleting files keep the types.
LEMMA InsertTypes ==
  ASSUME TypeOK, TasksKnow, NEW t \in Tasks, Insert(t)
  PROVE  TypeOK' /\ TasksKnow' /\ OnlyTask(t)
<1> DEFINE k == call[t].key
           ix == [j \in DOMAIN index \cup {k} |-> IF j = k THEN MetaOf(call[t]) ELSE index[j]]
           evicted == collect_evictions(ix, k)
           kept == Restricted(ix, DOMAIN ix \ evicted)
<1>1. /\ SaveIndex(t, kept) /\ unlinking' = [unlinking EXCEPT ![t] = evicted]
      /\ clock' = next_tick /\ pc[t] = "insert"
      /\ UNCHANGED << now, policy, disk, doomed >>
  BY DEF Insert
<1>2. /\ WorkTypes /\ IsIndex(index) /\ Knows(t) /\ call[t] \in Call
      /\ next_tick \in Nat
  BY DEF TypeOK, MemoryTypes, WorkTypes, TasksKnow, next_tick
<1>3. call[t] \in SetCall /\ k \in Keys /\ call[t].op = "set"
  BY <1>1, <1>2, CallFacts DEF Knows, Where
<1>4. MetaOf(call[t]) \in Meta
  BY <1>3, MetaOfType
<1>5. IsIndex(ix) /\ DOMAIN ix \subseteq Keys
  BY <1>2, <1>3, <1>4, ExtendedIsIndex, IndexFacts
<1> HIDE DEF ix
<1>6. evicted \subseteq DOMAIN ix
  BY EvictedAreEntries
<1> HIDE DEF evicted
<1>7. IsIndex(kept)
  BY <1>5, RestrictedIsIndex
<1> HIDE DEF kept
<1>8. /\ Keeps(t, doomed, doomed') /\ Keeps(t, unlinking, unlinking')
      /\ doomed'[t] \in SUBSET Keys /\ unlinking'[t] \in SUBSET Keys
  BY <1>1, <1>2, <1>5, <1>6 DEF WorkTypes, Keeps
<1>9. WorkTypes' /\ TasksKnow' /\ OnlyTask(t)
  BY <1>1, <1>2, <1>3, <1>7, <1>8, Saves
<1>10. MemoryTypes' /\ Stored(files)' /\ Stored(temps)'
  BY <1>1, <1>2, <1>7 DEF TypeOK, MemoryTypes, SaveIndex, disk
<1>11. QED
  BY <1>9, <1>10 DEF TypeOK

\* Unlinking victims keeps the types: an entry's file goes, or the task finishes.
LEMMA UnlinkTypes ==
  ASSUME TypeOK, TasksKnow, NEW t \in Tasks, Unlink(t)
  PROVE  TypeOK' /\ TasksKnow' /\ OnlyTask(t)
<1>0. /\ WorkTypes /\ Knows(t) /\ UNCHANGED << now, policy, memory, dir, temps >>
      /\ pc[t] = "unlink"
  BY DEF TypeOK, TasksKnow, Unlink
<1>1. MemoryTypes' /\ Stored(temps)'
  BY <1>0 DEF TypeOK, MemoryTypes, memory
<1>2. ASSUME NEW k \in unlinking[t], files' = [files EXCEPT ![k] = Absent],
             unlinking' = [unlinking EXCEPT ![t] = @ \ {k}],
             UNCHANGED << pc, call, shot, doomed >>
      PROVE  TypeOK' /\ TasksKnow' /\ OnlyTask(t)
  <2>1. k \in Files
    BY <1>0 DEF WorkTypes, Files
  <2>2. Stored([files EXCEPT ![k] = Absent])
    BY <2>1, StoredAfter DEF TypeOK
  <2>3. unlinking'[t] \in SUBSET Keys /\ OnlyTask(t)
    BY <1>0, <1>2 DEF WorkTypes, OnlyTask, Keeps
  <2>4. Where(call'[t].op, pc'[t], call'[t].file, doomed'[t], unlinking'[t], shot'[t])
    <3>1. /\ pc'[t] = "unlink" /\ call'[t] = call[t] /\ doomed'[t] = doomed[t]
          /\ shot'[t] = shot[t]
      BY <1>0, <1>2
    <3>2. QED
      BY <1>0, <3>1 DEF Knows, Where
  <2>5. WorkTypes' /\ TasksKnow'
    BY <1>0, <1>2, <2>3, <2>4, OneTaskTypes DEF WorkTypes
  <2>6. QED
    BY <1>1, <1>2, <2>2, <2>3, <2>5 DEF TypeOK
<1>3. CASE unlinking[t] = {} /\ doomed[t] # {} /\ Goto(t, "delete") /\ UNCHANGED << files, work >>
  <2>1. Where(call[t].op, "delete", call[t].file, doomed[t], unlinking[t], shot[t]) /\ "delete" \in Label
    BY <1>0, <1>3 DEF Knows, Where, Label
  <2>2. WorkTypes' /\ TasksKnow' /\ OnlyTask(t)
    BY <1>0, <1>3, <2>1, MovesOn
  <2>3. QED
    BY <1>1, <1>3, <2>2 DEF TypeOK
<1>4. CASE Finish(t) /\ UNCHANGED files
  BY <1>0, <1>1, <1>4, Finishes DEF TypeOK
<1>5. QED
  BY <1>2, <1>3, <1>4 DEF Unlink

\* What a reader does with an entry that is of no use.
LEMMA GivingUp ==
  ASSUME WorkTypes, TasksKnow, NEW t \in Tasks, NEW k \in Keys, GiveUpOn(t, k),
         call[t].op \in {"get", "peek", "has"}, unlinking[t] = {}
  PROVE  WorkTypes' /\ TasksKnow' /\ OnlyTask(t)
<1>1. /\ pc'[t] = "delete" /\ doomed'[t] = {k} /\ call'[t] = call[t]
      /\ shot'[t] = shot[t] /\ unlinking'[t] = unlinking[t]
  BY DEF WorkTypes, GiveUpOn, Goto
<1>2. OnlyTask(t)
  BY DEF WorkTypes, OnlyTask, Keeps, GiveUpOn, Goto
<1>3. Where(call'[t].op, pc'[t], call'[t].file, doomed'[t], unlinking'[t], shot'[t])
  BY <1>1 DEF Where
<1>4. QED
  BY <1>1, <1>2, <1>3, OneTaskTypes DEF WorkTypes, Label

\* Looking at entries keeps the types.
LEMMA LookTypes ==
  ASSUME TypeOK, TasksKnow, NEW t \in Tasks, Look(t)
  PROVE  TypeOK' /\ TasksKnow' /\ OnlyTask(t)
<1> DEFINE k == call[t].key
<1>0. /\ WorkTypes /\ Knows(t) /\ loaded' = TRUE /\ UNCHANGED << now, policy, index, clock, disk >>
      /\ pc[t] = "look" /\ call[t] \in Call /\ IsIndex(index)
  BY DEF TypeOK, MemoryTypes, WorkTypes, TasksKnow, Look
<1>1. MemoryTypes' /\ Stored(files)' /\ Stored(temps)'
  BY <1>0 DEF TypeOK, MemoryTypes, disk
<1>2. /\ call[t].op \in {"get", "peek", "has"} /\ k \in Keys /\ call[t] \in ReadCall
      /\ unlinking[t] = {}
  BY <1>0, CallFacts DEF Knows, Where
<1>3. CASE Finish(t)
  BY <1>0, <1>1, <1>3, Finishes DEF TypeOK
<1>4. CASE GiveUpOn(t, k)
  BY <1>0, <1>1, <1>2, <1>4, GivingUp DEF TypeOK
<1>5. CASE /\ k \in DOMAIN index /\ call' = [call EXCEPT ![t].binary = index[k].binary]
           /\ Goto(t, "read") /\ UNCHANGED << shot, doomed, unlinking >>
  <2>1. index[k].binary \in BOOLEAN
    BY <1>0, <1>5, IndexFacts DEF Meta
  <2> DEFINE c == [call[t] EXCEPT !.binary = index[k].binary]
  <2>2. c \in ReadCall /\ c.op = call[t].op /\ c.file = call[t].file
    BY <1>2, <2>1 DEF ReadCall
  <2>3. call' = [call EXCEPT ![t] = c]
    BY <1>5
  <2> HIDE DEF c
  <2>4. /\ pc'[t] = "read" /\ call'[t] = c /\ doomed'[t] = doomed[t]
        /\ shot'[t] = shot[t] /\ unlinking'[t] = unlinking[t]
    BY <1>0, <1>5, <2>3 DEF WorkTypes, Goto
  <2>5. OnlyTask(t)
    BY <1>0, <1>5, <2>3 DEF WorkTypes, OnlyTask, Keeps, Goto
  <2>6. Where(call'[t].op, pc'[t], call'[t].file, doomed'[t], unlinking'[t], shot'[t])
    BY <1>0, <1>2, <2>2, <2>4 DEF Knows, Where
  <2>7. call'[t] \in Call
    BY <2>2, <2>4 DEF Call
  <2>8. WorkTypes' /\ TasksKnow'
    BY <1>0, <2>4, <2>5, <2>6, <2>7, OneTaskTypes DEF WorkTypes, Label
  <2>9. QED
    BY <1>1, <2>5, <2>8 DEF TypeOK
<1>6. QED
  BY <1>3, <1>4, <1>5 DEF Look

\* Reading an entry's file keeps the types.
LEMMA ReadTypes ==
  ASSUME TypeOK, TasksKnow, NEW t \in Tasks, ReadEntry(t)
  PROVE  TypeOK' /\ TasksKnow' /\ OnlyTask(t)
<1>0. /\ WorkTypes /\ Knows(t) /\ UNCHANGED << now, policy, memory, disk >>
      /\ pc[t] = "read" /\ call[t] \in Call
  BY DEF TypeOK, WorkTypes, TasksKnow, ReadEntry
<1>1. MemoryTypes' /\ Stored(files)' /\ Stored(temps)'
  BY <1>0 DEF TypeOK, MemoryTypes, disk, memory
<1>2. call[t].op \in {"get", "peek", "has"} /\ call[t].key \in Keys /\ unlinking[t] = {}
  BY <1>0, CallFacts DEF Knows, Where
<1>3. CASE Finish(t)
  BY <1>0, <1>1, <1>3, Finishes DEF TypeOK
<1>4. CASE GiveUpOn(t, call[t].key)
  BY <1>0, <1>1, <1>2, <1>4, GivingUp DEF TypeOK
<1>5. CASE Goto(t, "touch") /\ UNCHANGED work
  <2>1. Where(call[t].op, "touch", call[t].file, doomed[t], unlinking[t], shot[t]) /\ "touch" \in Label
    BY <1>0, <1>2 DEF Knows, Where, Label
  <2>2. WorkTypes' /\ TasksKnow' /\ OnlyTask(t)
    BY <1>0, <1>5, <2>1, MovesOn
  <2>3. QED
    BY <1>1, <2>2 DEF TypeOK
<1>6. QED
  BY <1>3, <1>4, <1>5 DEF ReadEntry

\* Updating the recency of an entry that was read keeps the types.
LEMMA TouchTypes ==
  ASSUME TypeOK, TasksKnow, NEW t \in Tasks, Touch(t)
  PROVE  TypeOK' /\ TasksKnow' /\ OnlyTask(t)
<1> DEFINE ix == [k \in DOMAIN index |->
                    IF k = call[t].key THEN [index[k] EXCEPT !.last_access = next_tick]
                    ELSE index[k]]
<1>1. /\ SaveIndex(t, ix) /\ clock' = next_tick /\ pc[t] = "touch"
      /\ UNCHANGED << now, policy, disk, doomed, unlinking >>
  BY DEF Touch
<1>2. /\ WorkTypes /\ IsIndex(index) /\ Knows(t) /\ call[t] \in Call /\ next_tick \in Nat
  BY DEF TypeOK, MemoryTypes, WorkTypes, TasksKnow, next_tick
<1>3. IsIndex(ix)
  BY <1>2, TouchedIsIndex
<1> HIDE DEF ix
<1>4. call[t].op \in {"get", "peek", "has"}
  BY <1>1, <1>2 DEF Knows, Where
<1>5. /\ Keeps(t, doomed, doomed') /\ Keeps(t, unlinking, unlinking')
      /\ doomed'[t] \in SUBSET Keys /\ unlinking'[t] \in SUBSET Keys
  BY <1>1, <1>2 DEF WorkTypes, Keeps
<1>6. WorkTypes' /\ TasksKnow' /\ OnlyTask(t)
  BY <1>1, <1>2, <1>3, <1>4, <1>5, Saves
<1>7. MemoryTypes' /\ Stored(files)' /\ Stored(temps)'
  BY <1>1, <1>2, <1>3 DEF TypeOK, MemoryTypes, SaveIndex, disk
<1>8. QED
  BY <1>6, <1>7 DEF TypeOK

\* Deleting entries keeps the types.
LEMMA DeleteTypes ==
  ASSUME TypeOK, TasksKnow, NEW t \in Tasks, Purge(t) \/ Reload(t) \/ Delete(t)
  PROVE  TypeOK' /\ TasksKnow' /\ OnlyTask(t)
<1>0. /\ WorkTypes /\ Knows(t) /\ UNCHANGED << now, policy, clock, disk >>
      /\ pc[t] \in {"purge", "delete"} /\ call[t] \in Call /\ IsIndex(index)
  BY DEF TypeOK, MemoryTypes, WorkTypes, TasksKnow, Purge, Reload, Delete, memory
<1>1. ASSUME loaded' \in BOOLEAN, IsIndex(index')
      PROVE  MemoryTypes' /\ Stored(files)' /\ Stored(temps)'
  BY <1>0, <1>1 DEF TypeOK, MemoryTypes, disk
<1>2. CASE Purge(t)
  <2> DEFINE expired == {k \in DOMAIN index : is_expired(index[k])}
  <2>1. /\ MemoryTypes' /\ Stored(files)' /\ Stored(temps)'
        /\ pc[t] = "purge"
    BY <1>0, <1>1, <1>2 DEF Purge
  <2>2. CASE Finish(t)
    BY <1>0, <2>1, <2>2, Finishes DEF TypeOK
  <2>3. CASE /\ expired # {} /\ doomed' = [doomed EXCEPT ![t] = expired]
             /\ Goto(t, "delete") /\ UNCHANGED << call, shot, unlinking >>
    <3>1. expired \in SUBSET Keys
      BY <1>0, IndexFacts
    <3> HIDE DEF expired
    <3>2. /\ pc'[t] = "delete" /\ doomed'[t] = expired /\ call'[t] = call[t]
          /\ shot'[t] = shot[t] /\ unlinking'[t] = unlinking[t]
      BY <1>0, <2>3 DEF WorkTypes, Goto
    <3>3. OnlyTask(t)
      BY <1>0, <2>3 DEF WorkTypes, OnlyTask, Keeps, Goto
    <3>4. Where(call'[t].op, pc'[t], call'[t].file, doomed'[t], unlinking'[t], shot'[t])
      BY <1>0, <2>1, <2>3, <3>2 DEF Knows, Where
    <3>5. WorkTypes' /\ TasksKnow'
      BY <1>0, <3>1, <3>2, <3>3, <3>4, OneTaskTypes DEF WorkTypes, Label
    <3>6. QED
      BY <2>1, <3>3, <3>5 DEF TypeOK
  <2>4. QED
    BY <1>2, <2>2, <2>3 DEF Purge
<1>3. CASE Reload(t)
  <2>1. Goto(t, "mkdir") /\ UNCHANGED << memory, work >> /\ pc[t] = "delete"
    BY <1>3 DEF Reload
  <2>2. Where(call[t].op, "mkdir", call[t].file, doomed[t], unlinking[t], shot[t]) /\ "mkdir" \in Label
    BY <1>0, <2>1 DEF Knows, Where, Label
  <2>3. WorkTypes' /\ TasksKnow' /\ OnlyTask(t)
    BY <1>0, <2>1, <2>2, MovesOn
  <2>4. MemoryTypes' /\ Stored(files)' /\ Stored(temps)'
    BY <1>1, <2>1 DEF memory, TypeOK, MemoryTypes
  <2>5. QED
    BY <2>3, <2>4 DEF TypeOK
<1>4. CASE Delete(t)
  <2>1. call[t].op \notin {"none", "clear", "clear_all"} /\ pc[t] = "delete"
    BY <1>0, <1>4 DEF Delete, Knows, Where
  <2>2. ASSUME NEW k \in doomed[t], k \in DOMAIN index,
               SaveIndex(t, Restricted(index, DOMAIN index \ {k})),
               doomed' = [doomed EXCEPT ![t] = @ \ {k}],
               unlinking' = [unlinking EXCEPT ![t] = {k}]
        PROVE  TypeOK' /\ TasksKnow' /\ OnlyTask(t)
    <3> DEFINE ix == Restricted(index, DOMAIN index \ {k})
    <3>1. IsIndex(ix)
      BY <1>0, RestrictedIsIndex
    <3>2. SaveIndex(t, ix)
      BY <2>2
    <3> HIDE DEF ix
    <3>3. /\ Keeps(t, doomed, doomed') /\ Keeps(t, unlinking, unlinking')
          /\ doomed'[t] \in SUBSET Keys /\ unlinking'[t] \in SUBSET Keys
      BY <1>0, <2>2 DEF WorkTypes, Keeps
    <3>4. WorkTypes' /\ TasksKnow' /\ OnlyTask(t)
      BY <1>0, <2>1, <3>1, <3>2, <3>3, Saves
    <3>5. MemoryTypes' /\ Stored(files)' /\ Stored(temps)'
      BY <1>1, <3>1, <3>2 DEF SaveIndex
    <3>6. QED
      BY <3>4, <3>5 DEF TypeOK
  <2>3. CASE Finish(t) /\ UNCHANGED << loaded, index >>
    <3>1. MemoryTypes' /\ Stored(files)' /\ Stored(temps)'
      BY <1>1, <2>3 DEF TypeOK, MemoryTypes
    <3>2. QED
      BY <1>0, <2>3, <3>1, Finishes DEF TypeOK
  <2>4. ASSUME NEW k \in doomed[t], doomed[t] # {k},
               doomed' = [doomed EXCEPT ![t] = @ \ {k}],
               UNCHANGED << loaded, index, pc, call, shot, unlinking >>
        PROVE  TypeOK' /\ TasksKnow' /\ OnlyTask(t)
    <3>1. MemoryTypes' /\ Stored(files)' /\ Stored(temps)'
      BY <1>1, <2>4 DEF TypeOK, MemoryTypes
    <3>2. /\ pc'[t] = pc[t] /\ doomed'[t] = doomed[t] \ {k} /\ call'[t] = call[t]
          /\ shot'[t] = shot[t] /\ unlinking'[t] = unlinking[t]
      BY <1>0, <2>4 DEF WorkTypes
    <3>3. OnlyTask(t)
      BY <1>0, <2>4 DEF WorkTypes, OnlyTask, Keeps
    <3>4. doomed[t] \ {k} # {}
      BY <2>4
    <3>5. Where(call'[t].op, pc'[t], call'[t].file, doomed'[t], unlinking'[t], shot'[t])
      BY <1>0, <2>1, <3>2, <3>4 DEF Knows, Where
    <3>6. WorkTypes' /\ TasksKnow'
      BY <1>0, <3>2, <3>3, <3>5, OneTaskTypes DEF WorkTypes
    <3>7. QED
      BY <3>1, <3>3, <3>6 DEF TypeOK
  <2>5. QED
    BY <1>4, <2>2, <2>3, <2>4 DEF Delete
<1>5. QED
  BY <1>2, <1>3, <1>4

\* Clearing keeps the types.
LEMMA ClearTypes ==
  ASSUME TypeOK, TasksKnow, NEW t \in Tasks, Wipe(t) \/ Reset(t) \/ Emptied(t)
  PROVE  TypeOK' /\ TasksKnow' /\ OnlyTask(t)
<1>0. /\ WorkTypes /\ Knows(t) /\ UNCHANGED << now, policy, clock >>
      /\ pc[t] \in {"wipe", "reset", "emptied"}
  BY DEF TypeOK, TasksKnow, Wipe, Reset, Emptied, memory
<1>1. CASE Wipe(t)
  <2>1. /\ dir' = FALSE /\ files' = [f \in Files |-> Absent] /\ temps' = files'
        /\ Goto(t, "reset") /\ UNCHANGED << memory, work >> /\ pc[t] = "wipe"
    BY <1>1 DEF Wipe
  <2>2. Where(call[t].op, "reset", call[t].file, doomed[t], unlinking[t], shot[t]) /\ "reset" \in Label
    BY <1>0, <2>1 DEF Knows, Where, Label
  <2>3. WorkTypes' /\ TasksKnow' /\ OnlyTask(t)
    BY <1>0, <2>1, <2>2, MovesOn
  <2>4. MemoryTypes'
    BY <1>0, <2>1 DEF TypeOK, MemoryTypes, memory
  <2>5. Stored(files)' /\ Stored(temps)'
    BY <2>1, NoneStored
  <2>6. QED
    BY <2>3, <2>4, <2>5 DEF TypeOK
<1>2. CASE Reset(t)
  <2>1. MemoryTypes' /\ Stored(files)' /\ Stored(temps)' /\ pc[t] = "reset"
    BY <1>0, <1>2, EmptyIsIndex DEF Reset, TypeOK, MemoryTypes, disk
  <2>2. CASE call[t].op = "clear" /\ Goto(t, "mkdir") /\ UNCHANGED work
    <3>1. Where(call[t].op, "mkdir", call[t].file, doomed[t], unlinking[t], shot[t]) /\ "mkdir" \in Label
      BY <1>0, <2>1, <2>2 DEF Knows, Where, Label
    <3>2. WorkTypes' /\ TasksKnow' /\ OnlyTask(t)
      BY <1>0, <2>2, <3>1, MovesOn
    <3>3. QED
      BY <2>1, <3>2 DEF TypeOK
  <2>3. CASE Finish(t)
    BY <1>0, <2>1, <2>3, Finishes DEF TypeOK
  <2>4. QED
    BY <1>2, <2>2, <2>3 DEF Reset
<1>3. CASE Emptied(t)
  <2>1. MemoryTypes' /\ Stored(files)' /\ Stored(temps)'
    BY <1>0, <1>3, EmptyIsIndex DEF Emptied, TypeOK, MemoryTypes, disk
  <2>2. QED
    BY <1>0, <1>3, <2>1, Finishes DEF TypeOK, Emptied
<1>4. QED
  BY <1>1, <1>2, <1>3

\* Beginning an operation keeps the types.
LEMMA Beginning ==
  ASSUME TypeOK, TasksKnow, NEW t \in Tasks, NEW c \in Call, NEW label \in Label,
         Begin(t, c, label), UNCHANGED << now, policy, memory, disk, shot, unlinking >>,
         Keeps(t, doomed, doomed'), doomed'[t] \in SUBSET Keys,
         Where(c.op, label, c.file, doomed'[t], unlinking'[t], shot'[t])
  PROVE  TypeOK' /\ TasksKnow' /\ OnlyTask(t) /\ pc'[t] = label /\ call'[t] = c /\ pc[t] = "idle"
<1>1. WorkTypes
  BY DEF TypeOK
<1>2. /\ pc'[t] = label /\ call'[t] = c /\ pc[t] = "idle"
      /\ shot'[t] = shot[t] /\ unlinking'[t] = unlinking[t]
  BY <1>1 DEF WorkTypes, Begin, Goto
<1>3. OnlyTask(t)
  BY <1>1 DEF WorkTypes, OnlyTask, Keeps, Begin, Goto
<1>4. WorkTypes' /\ TasksKnow'
  BY <1>1, <1>2, <1>3, OneTaskTypes DEF WorkTypes
<1>5. MemoryTypes' /\ Stored(files)' /\ Stored(temps)'
  BY DEF TypeOK, MemoryTypes, memory, disk
<1>6. QED
  BY <1>2, <1>3, <1>4, <1>5 DEF TypeOK

\* The calls of a script and of the application.
Begins(t) ==
  \/ \E k \in Keys, v \in Values, ttl \in Ttls : BeginSet(t, k, v, ttl)
  \/ \E k \in Keys, op \in {"get", "peek", "has"} : BeginRead(t, op, k)
  \/ \E k \in Keys : BeginDelete(t, k)
  \/ \E op \in {"keys", "clear", "clear_all"} : BeginOther(t, op)

\* A new operation knows what its first step needs.
LEMMA BeginTypes ==
  ASSUME TypeOK, TasksKnow, NEW t \in Tasks, Begins(t)
  PROVE  TypeOK' /\ TasksKnow' /\ OnlyTask(t)
<1>0. WorkTypes /\ Keeps(t, doomed, doomed) /\ doomed[t] \in SUBSET Keys /\ Knows(t)
  BY DEF TypeOK, WorkTypes, Keeps, TasksKnow
<1> DEFINE Fresh == unlinking[t] = {} /\ shot[t] = Empty
<1>a. pc[t] = "idle" => Fresh
  BY <1>0 DEF Knows, Where
<1>1. ASSUME NEW k \in Keys, NEW v \in Values, NEW ttl \in Ttls, BeginSet(t, k, v, ttl)
      PROVE  TypeOK' /\ TasksKnow' /\ OnlyTask(t)
  <2> DEFINE c == [op |-> "set", file |-> k, key |-> k, value |-> v, ttl |-> ttl]
             label == Entry("write")
  <2>1. /\ Begin(t, c, label) /\ UNCHANGED << now, policy, memory, disk, shot, unlinking >>
        /\ pc[t] = "idle" /\ doomed' = doomed /\ label \in {"write", "mkdir"}
    BY <1>1 DEF BeginSet, Begin, Entry
  <2>2. c \in Call /\ c.op = "set" /\ c.file # IndexFile
    BY CacheAssumption DEF Call, SetCall, Files
  <2> HIDE DEF c, label
  <2>3. label \in Label /\ Where(c.op, label, c.file, doomed[t], unlinking[t], shot[t])
    BY <1>a, <2>1, <2>2 DEF Label, Where
  <2>4. QED
    BY <1>0, <2>1, <2>2, <2>3, Beginning
<1>2. ASSUME NEW k \in Keys, NEW op \in {"get", "peek", "has"}, BeginRead(t, op, k)
      PROVE  TypeOK' /\ TasksKnow' /\ OnlyTask(t)
  <2> DEFINE c == [op |-> op, file |-> k, key |-> k, binary |-> FALSE]
             label == Entry("look")
  <2>1. /\ Begin(t, c, label) /\ UNCHANGED << now, policy, memory, disk, shot, unlinking >>
        /\ pc[t] = "idle" /\ doomed' = doomed /\ label \in {"look", "mkdir"}
    BY <1>2 DEF BeginRead, Begin, Entry
  <2>2. c \in Call /\ c.op = op
    BY DEF Call, ReadCall, Files
  <2> HIDE DEF c, label
  <2>3. label \in Label /\ Where(c.op, label, c.file, doomed[t], unlinking[t], shot[t])
    BY <1>a, <2>1, <2>2 DEF Label, Where
  <2>4. QED
    BY <1>0, <2>1, <2>2, <2>3, Beginning
<1>3. ASSUME NEW k \in Keys, BeginDelete(t, k)
      PROVE  TypeOK' /\ TasksKnow' /\ OnlyTask(t)
  <2> DEFINE c == [op |-> "delete", file |-> k]
  <2>1. /\ Begin(t, c, "delete") /\ UNCHANGED << now, policy, memory, disk, shot, unlinking >>
        /\ pc[t] = "idle" /\ doomed' = [doomed EXCEPT ![t] = {k}]
    BY <1>3 DEF BeginDelete, Begin
  <2>2. c \in Call /\ c.op = "delete"
    BY DEF Call, OtherCall, Files
  <2> HIDE DEF c
  <2>3. doomed'[t] = {k} /\ Keeps(t, doomed, doomed')
    BY <1>0, <2>1 DEF WorkTypes, Keeps
  <2>4. "delete" \in Label /\ Where(c.op, "delete", c.file, doomed'[t], unlinking'[t], shot'[t])
    BY <1>a, <2>1, <2>2, <2>3 DEF Label, Where
  <2>5. doomed'[t] \in SUBSET Keys
    BY <2>3
  <2>6. QED
    BY <2>1, <2>2, <2>3, <2>4, <2>5, Beginning
<1>4. ASSUME NEW op \in {"keys", "clear", "clear_all"}, BeginOther(t, op)
      PROVE  TypeOK' /\ TasksKnow' /\ OnlyTask(t)
  <2> DEFINE c == [op |-> op, file |-> IndexFile]
             label == IF op = "keys" THEN Entry("purge") ELSE "wipe"
  <2>1. /\ Begin(t, c, label) /\ UNCHANGED << now, policy, memory, disk, shot, unlinking >>
        /\ pc[t] = "idle" /\ doomed' = doomed
        /\ op = "keys" => label \in {"mkdir", "purge"}
        /\ op # "keys" => label = "wipe"
    BY <1>4 DEF BeginOther, Begin, Entry
  <2>2. c \in Call /\ c.op = op /\ c.file = IndexFile
    BY DEF Call, OtherCall, Files
  <2> HIDE DEF c, label
  <2>3. label \in Label /\ Where(c.op, label, c.file, doomed[t], unlinking[t], shot[t])
    BY <1>a, <2>1, <2>2 DEF Label, Where
  <2>4. QED
    BY <1>0, <2>1, <2>2, <2>3, Beginning
<1>5. QED
  BY <1>1, <1>2, <1>3, <1>4 DEF Begins

\* Every step is one of a task, or of the clock, the policy or the process.
LEMMA Steps ==
  ASSUME [Next]_vars
  PROVE  \/ \E t \in Tasks : Work(t) \/ Begins(t)
         \/ Open \/ PassTime \/ Restart \/ UNCHANGED vars
BY Zenon DEF Next, Begins

\* Every step of a task keeps the types, and leaves the other tasks alone.
LEMMA TaskTypes ==
  ASSUME TypeOK, TasksKnow, NEW t \in Tasks, Work(t) \/ Begins(t)
  PROVE  TypeOK' /\ TasksKnow' /\ OnlyTask(t)
BY LoadTypes, FileTypes, InsertTypes, UnlinkTypes, LookTypes, ReadTypes, TouchTypes,
   DeleteTypes, ClearTypes, BeginTypes DEF Work

\* So do time, a new policy and a restart.
LEMMA NextTypes ==
  UseOK /\ TypeOK /\ TasksKnow /\ [Next]_vars => UseOK' /\ TypeOK' /\ TasksKnow'
<1> SUFFICES ASSUME UseOK, TypeOK, TasksKnow, [Next]_vars PROVE UseOK' /\ TypeOK' /\ TasksKnow'
  OBVIOUS
<1>a. use.policies \subseteq Policies
  BY CacheAssumption DEF UseOK, Usage
<1>b. UseOK'
  BY DEF Next, vars, UseOK
<1>1. CASE \E t \in Tasks : Work(t) \/ Begins(t)
  BY <1>b, <1>1, TaskTypes
<1>2. CASE Open \/ PassTime \/ UNCHANGED vars
  <2>1. UNCHANGED << memory, disk, pc, work >> /\ now' \in Nat /\ policy' \in Policies
    BY <1>2, <1>a DEF Open, PassTime, vars, TypeOK, MemoryTypes
  <2>2. MemoryTypes' /\ Stored(files)' /\ Stored(temps)'
    BY <2>1 DEF TypeOK, MemoryTypes, memory, disk
  <2>3. WorkTypes' /\ TasksKnow'
    BY <2>1 DEF TypeOK, WorkTypes, work, TasksKnow, Knows
  <2>4. QED
    BY <1>b, <2>2, <2>3 DEF TypeOK
<1>3. CASE Restart
  <2>1. MemoryTypes' /\ Stored(files)' /\ Stored(temps)'
    <3>1. /\ now' \in Nat /\ clock' = 0 /\ policy' \in Policies /\ loaded' = FALSE
          /\ index' = Empty /\ UNCHANGED << dir, files >>
          /\ temps' = [f \in Files |-> Absent]
      BY <1>3, <1>a DEF Restart, TypeOK, MemoryTypes
    <3>2. Stored(files)' /\ Stored(temps)'
      BY <3>1, NoneStored DEF TypeOK
    <3>3. QED
      BY <3>1, <3>2, EmptyIsIndex DEF TypeOK, MemoryTypes
  <2>2. WorkTypes'
    BY <1>3, EmptyIsIndex DEF Restart, WorkTypes, Label, Call
  <2>3. TasksKnow'
    BY <1>3 DEF Restart, TasksKnow, Knows, Where, NoCall
  <2>4. QED
    BY <1>b, <2>1, <2>2, <2>3 DEF TypeOK
<1>4. QED
  BY <1>b, <1>1, <1>2, <1>3, Steps

\* The variables have their types and every operation is where it may be, however
\* operations interleave and wherever the process ends.
THEOREM CacheTypeCorrect == Spec => [](UseOK /\ TypeOK /\ TasksKnow)
BY InitTypes, NextTypes, PTL DEF Spec

-----------------------------------------------------------------------------

(* A script that awaits each call.                                         *)

\* One operation at a time.
Awaited ==
  \A t, u \in Tasks : pc[t] # "idle" /\ pc[u] # "idle" => t = u

Writing(t) == pc[t] \in {"write", "rename", "replace", "again"}

Saving(t) == Writing(t) /\ call[t].file = IndexFile

\* What one operation may rely on while it is the only one.
Relies(t) ==
  /\ pc[t] \in {"load", "install"} \/ Writing(t) \/ pc[t] = "emptied" => dir
  /\ pc[t] \in {"rename", "replace", "again"} => temps[call[t].file] = Content(t)
  /\ Saving(t) /\ call[t].op # "clear" => loaded /\ shot[t] = index
  /\ Saving(t) /\ call[t].op # "clear" => unlinking[t] \cap DOMAIN index = {}
  /\ call[t].op = "clear" /\ pc[t] \notin {"wipe", "reset"} => ~loaded
  /\ Writing(t) /\ call[t].file # IndexFile => loaded
  /\ pc[t] \in {"insert", "look", "read", "touch", "purge", "unlink"} => loaded
  /\ pc[t] = "install" => shot[t] = SavedIndex
  /\ pc[t] = "emptied" => SavedIndex = Empty
  /\ pc[t] = "reset" => SavedIndex = Empty
  /\ pc[t] = "unlink" => unlinking[t] \cap DOMAIN index = {}

\* The index in memory is saved, but while it is written or wiped.
Consistent ==
  loaded =>
    /\ dir \/ \E t \in Tasks : pc[t] = "reset"
    /\ SavedIndex = index \/ \E t \in Tasks : Saving(t) \/ pc[t] = "reset"

InTurn == Consistent /\ \A t \in Tasks : Relies(t)

\* The same as seen by the one task that may be at work.
ConsistentAt(t) ==
  loaded =>
    /\ dir \/ pc[t] = "reset"
    /\ SavedIndex = index \/ Saving(t) \/ pc[t] = "reset"

\* Nobody else is at work when a task takes a step.
Solo(t) == \A u \in Tasks \ {t} : pc[u] = "idle" /\ pc'[u] = "idle"

\* Awaited operations take their steps alone: before and after one, all others are idle.
LEMMA StepsAreSolo ==
  ASSUME TypeOK, TasksKnow, NEW t \in Tasks, Work(t) \/ Begins(t), Awaited, Awaited'
  PROVE  Solo(t)
<1>1. OnlyTask(t) /\ pc \in [Tasks -> Label] /\ pc' \in [Tasks -> Label]
  BY TaskTypes DEF TypeOK, WorkTypes
<1>2. ASSUME NEW u \in Tasks \ {t} PROVE pc'[u] = pc[u]
  BY <1>1 DEF OnlyTask, Keeps
<1>3. Work(t) => pc[t] # "idle"
  BY DEF Work, MakeDirs, ReadIndex, InstallIndex, WriteTemp, Rename, RemoveTarget,
         RenameAgain, Insert, Unlink, Look, ReadEntry, Touch, Purge, Reload, Delete,
         Wipe, Reset, Emptied
<1>4. Begins(t) => pc'[t] # "idle"
  BY <1>1 DEF Begins, BeginSet, BeginRead, BeginDelete, BeginOther, Begin, Entry, Goto
<1>5. QED
  BY <1>2, <1>3, <1>4 DEF Solo, Awaited

\* What the invariant says of the one task that may be at work, and back: a task
\* without an operation relies on nothing.
LEMMA SoloBefore ==
  ASSUME InTurn, NEW t \in Tasks, \A u \in Tasks \ {t} : pc[u] = "idle"
  PROVE  Relies(t) /\ ConsistentAt(t)
BY DEF InTurn, Consistent, ConsistentAt, Saving, Writing

\* If all others are idle after a step, only what its task relies on has to be shown.
LEMMA SoloAfter ==
  ASSUME TasksKnow', NEW t \in Tasks, \A u \in Tasks \ {t} : pc'[u] = "idle",
         Relies(t)', ConsistentAt(t)'
  PROVE  InTurn'
<1>1. ASSUME NEW u \in Tasks, pc'[u] = "idle" PROVE Relies(u)'
  BY <1>1 DEF TasksKnow, Knows, Where, Relies, Writing, Saving
<1>2. \A u \in Tasks : Relies(u)'
  BY <1>1
<1>3. Consistent'
  BY DEF Consistent, ConsistentAt
<1>4. QED
  BY <1>2, <1>3 DEF InTurn

\* A task that finishes leaves a saved index behind, or none in memory.
LEMMA FinishTurn ==
  ASSUME TypeOK, TasksKnow, NEW t \in Tasks, Finish(t),
         loaded' => dir' /\ SavedIndex' = index'
  PROVE  Relies(t)' /\ ConsistentAt(t)'
<1>1. pc'[t] = "idle" /\ TasksKnow'
  BY Finishes DEF TypeOK
<1>2. Relies(t)'
  BY <1>1 DEF TasksKnow, Knows, Where, Relies, Writing, Saving
<1>3. ConsistentAt(t)'
  BY DEF ConsistentAt
<1>4. QED
  BY <1>2, <1>3

\* What a task that only moves on still has.
LEMMA GotoFacts ==
  ASSUME TypeOK, NEW t \in Tasks, NEW label, Goto(t, label)
  PROVE  pc'[t] = label
BY DEF TypeOK, WorkTypes, Goto

\* The saved index changes only with the index file.
LEMMA SameFiles ==
  ASSUME files'[IndexFile] = files[IndexFile] PROVE SavedIndex' = SavedIndex
BY DEF SavedIndex

\* Loading installs what is saved.
LEMMA LoadTurn ==
  ASSUME TypeOK, TasksKnow, NEW t \in Tasks, Relies(t), ConsistentAt(t),
         MakeDirs(t) \/ ReadIndex(t) \/ InstallIndex(t)
  PROVE  Relies(t)' /\ ConsistentAt(t)'
<1>1. Knows(t) /\ WorkTypes /\ SavedIndex' = SavedIndex /\ UNCHANGED call
  BY SameFiles DEF TasksKnow, TypeOK, MakeDirs, ReadIndex, InstallIndex, disk, work
<1>2. CASE MakeDirs(t)
  <2>1. /\ pc[t] = "mkdir" /\ dir' = TRUE /\ UNCHANGED << memory, work >>
        /\ pc'[t] = IF call[t].op = "clear" THEN "write" ELSE "load"
    BY <1>2, GotoFacts DEF MakeDirs
  <2>2. QED
    BY <1>1, <2>1 DEF Knows, Where, Relies, ConsistentAt, Saving, Writing, memory, work
<1>3. CASE ReadIndex(t)
  <2>1. /\ pc[t] = "load" /\ pc'[t] = "install" /\ shot'[t] = SavedIndex
        /\ UNCHANGED << memory, dir >>
    BY <1>1, <1>3, GotoFacts DEF ReadIndex, WorkTypes, disk
  <2>2. QED
    BY <1>1, <2>1 DEF Knows, Where, Relies, ConsistentAt, Saving, Writing, memory
<1>4. CASE InstallIndex(t)
  <2>1. /\ pc[t] = "install" /\ loaded' = TRUE /\ index' = shot[t] /\ UNCHANGED << dir, work >>
        /\ pc'[t] \in {"delete", "write", "purge", "look"}
    BY <1>4, GotoFacts DEF InstallIndex, disk
  <2>2. QED
    BY <1>1, <2>1 DEF Knows, Where, Relies, ConsistentAt, Saving, Writing, work
<1>5. QED
  BY <1>2, <1>3, <1>4

\* Once the index is renamed it is the one in memory; other files do not matter.
LEMMA MoveTurn ==
  ASSUME TypeOK, TasksKnow, NEW t \in Tasks, Relies(t), ConsistentAt(t),
         pc[t] \in {"rename", "again"}, MoveTemp(t), UNCHANGED << memory, dir >>
  PROVE  Relies(t)' /\ ConsistentAt(t)'
<1> DEFINE f == call[t].file
<1>1. /\ f \in Files /\ Knows(t) /\ IsIndex(shot[t]) /\ shot[t] # Absent
      /\ DOMAIN files = Files
  BY ContentFits, IndexFacts DEF TasksKnow, TypeOK, WorkTypes, Stored
<1>2. /\ files' = [files EXCEPT ![f] = temps[f]] /\ UNCHANGED work
      /\ temps[f] = Content(t)
  BY DEF MoveTemp, Relies
<1>3. pc'[t] = IF f # IndexFile THEN "insert"
               ELSE IF call[t].op = "clear" THEN "emptied" ELSE "unlink"
  BY Moved
<1>4. CASE f = IndexFile
  <2>1. files'[IndexFile] = shot[t]
    BY <1>1, <1>2, <1>4 DEF Content
  <2>2. SavedIndex' = shot[t]
    BY <1>1, <2>1 DEF SavedIndex
  <2> HIDE DEF f
  <2>3. QED
    BY <1>1, <1>2, <1>3, <1>4, <2>2
       DEF f, Knows, Where, Relies, ConsistentAt, Saving, Writing, work, memory
<1>5. CASE f # IndexFile
  <2>1. files'[IndexFile] = files[IndexFile]
    BY <1>1, <1>2, <1>5
  <2>2. SavedIndex' = SavedIndex
    BY <2>1, SameFiles
  <2> HIDE DEF f
  <2>3. QED
    BY <1>1, <1>2, <1>3, <1>5, <2>2
       DEF f, Knows, Where, Relies, ConsistentAt, Saving, Writing, work, memory
<1>6. QED
  BY <1>4, <1>5

\* The steps of `write_atomic` lead from the written index to the saved one.
LEMMA FileTurn ==
  ASSUME TypeOK, TasksKnow, NEW t \in Tasks, Relies(t), ConsistentAt(t),
         WriteTemp(t) \/ Rename(t) \/ RemoveTarget(t) \/ RenameAgain(t)
  PROVE  Relies(t)' /\ ConsistentAt(t)'
<1> DEFINE f == call[t].file
<1>1. /\ Knows(t) /\ UNCHANGED << memory, dir >> /\ dir
      /\ pc[t] \in {"write", "rename", "replace", "again"}
  BY DEF TasksKnow, WriteTemp, Rename, RemoveTarget, RenameAgain, Relies, Writing
<1>2. f \in Files /\ Content(t) # Absent /\ DOMAIN temps = Files /\ DOMAIN files = Files
  BY <1>1, ContentFits DEF TypeOK, Stored
<1>3. CASE WriteTemp(t)
  <2>1. /\ temps' = [temps EXCEPT ![f] = Content(t)] /\ UNCHANGED << work, files >>
        /\ pc[t] = "write" /\ pc'[t] = "rename"
    BY <1>1, <1>3, GotoFacts DEF WriteTemp
  <2>2. temps'[f] = Content(t) /\ Content(t)' = Content(t)
    BY <1>2, <2>1 DEF Content, work
  <2>3. SavedIndex' = SavedIndex
    BY <2>1, SameFiles
  <2>4. QED
    BY <1>1, <2>1, <2>2, <2>3
       DEF Knows, Where, Relies, ConsistentAt, Saving, Writing, work, memory
<1>4. CASE Rename(t)
  <2>1. CASE MoveTemp(t)
    BY <1>1, <1>4, <2>1, MoveTurn DEF Rename
  <2>2. CASE Goto(t, "replace") /\ UNCHANGED << files, temps, work >>
    <3>1. /\ pc[t] = "rename" /\ pc'[t] = "replace" /\ Content(t)' = Content(t)
          /\ SavedIndex' = SavedIndex
      BY <1>4, <2>2, GotoFacts, SameFiles DEF Rename, Content, work
    <3>2. QED
      BY <1>1, <2>2, <3>1
         DEF Knows, Where, Relies, ConsistentAt, Saving, Writing, work, memory
  <2>3. QED
    BY <1>4, <2>1, <2>2 DEF Rename
<1>5. CASE RemoveTarget(t)
  <2>1. /\ files' = [files EXCEPT ![f] = Absent] /\ UNCHANGED << temps, work >>
        /\ pc[t] = "replace" /\ pc'[t] = "again"
    BY <1>5, GotoFacts DEF RemoveTarget
  <2>2. Content(t)' = Content(t)
    BY <2>1 DEF Content, work
  <2>3. f # IndexFile => SavedIndex' = SavedIndex
    BY <1>2, <2>1, SameFiles
  <2>4. QED
    BY <1>1, <2>1, <2>2, <2>3
       DEF Knows, Where, Relies, ConsistentAt, Saving, Writing, work, memory
<1>6. CASE RenameAgain(t)
  <2>1. MoveTemp(t) /\ pc[t] = "again"
    BY <1>2, <1>6 DEF RenameAgain, Relies
  <2>2. QED
    BY <1>1, <2>1, MoveTurn
<1>7. QED
  BY <1>3, <1>4, <1>5, <1>6

\* The step that is about to save an index has it in memory.
LEMMA SaveTurn ==
  ASSUME TypeOK, TasksKnow, NEW t \in Tasks, Relies(t), ConsistentAt(t),
         NEW ix, IsIndex(ix), SaveIndex(t, ix), UNCHANGED disk, loaded,
         pc[t] \in {"insert", "touch", "delete"},
         Keeps(t, doomed, doomed'), Keeps(t, unlinking, unlinking'),
         doomed'[t] \in SUBSET Keys, unlinking'[t] \in SUBSET Keys,
         unlinking'[t] \cap DOMAIN ix = {}
  PROVE  Relies(t)' /\ ConsistentAt(t)'
<1>1. WorkTypes /\ Knows(t) /\ dir /\ call[t].op \notin {"none", "clear", "clear_all"}
  BY DEF TypeOK, TasksKnow, Knows, Where, ConsistentAt
<1>2. /\ pc'[t] = "write" /\ call'[t].op = call[t].op /\ call'[t].file = IndexFile
      /\ shot'[t] = ix
  BY <1>1, Saves
<1>3. loaded' = TRUE /\ index' = ix /\ dir' = dir
  BY DEF SaveIndex, disk
<1>4. QED
  BY <1>1, <1>2, <1>3 DEF Relies, ConsistentAt, Saving, Writing

\* A set saves the index it installs in memory, without the evicted entries.
LEMMA InsertTurn ==
  ASSUME TypeOK, TasksKnow, NEW t \in Tasks, Relies(t), ConsistentAt(t), Insert(t)
  PROVE  Relies(t)' /\ ConsistentAt(t)'
<1> DEFINE k == call[t].key
           ix == [j \in DOMAIN index \cup {k} |-> IF j = k THEN MetaOf(call[t]) ELSE index[j]]
           evicted == collect_evictions(ix, k)
           kept == Restricted(ix, DOMAIN ix \ evicted)
<1>1. /\ SaveIndex(t, kept) /\ unlinking' = [unlinking EXCEPT ![t] = evicted]
      /\ pc[t] = "insert" /\ UNCHANGED << disk, doomed >>
  BY DEF Insert
<1>2. /\ WorkTypes /\ IsIndex(index) /\ Knows(t) /\ call[t] \in Call /\ loaded
  BY <1>1 DEF TypeOK, MemoryTypes, WorkTypes, TasksKnow, Relies
<1>3. call[t] \in SetCall /\ k \in Keys
  BY <1>1, <1>2, CallFacts DEF Knows, Where
<1>4. MetaOf(call[t]) \in Meta
  BY <1>3, MetaOfType
<1>5. IsIndex(ix) /\ DOMAIN ix \subseteq Keys
  BY <1>2, <1>3, <1>4, ExtendedIsIndex, IndexFacts
<1> HIDE DEF ix
<1>6. evicted \subseteq DOMAIN ix
  BY EvictedAreEntries
<1> HIDE DEF evicted
<1>7. IsIndex(kept) /\ DOMAIN kept = DOMAIN ix \ evicted
  BY <1>5, RestrictedIsIndex
<1> HIDE DEF kept
<1>8. /\ Keeps(t, doomed, doomed') /\ Keeps(t, unlinking, unlinking')
      /\ doomed'[t] \in SUBSET Keys /\ unlinking'[t] = evicted
  BY <1>1, <1>2 DEF WorkTypes, Keeps
<1>9. unlinking'[t] \in SUBSET Keys /\ unlinking'[t] \cap DOMAIN kept = {}
  BY <1>5, <1>6, <1>7, <1>8
<1>10. QED
  BY <1>1, <1>2, <1>7, <1>8, <1>9, SaveTurn

\* A get saves the index it installs in memory, with the new recency.
LEMMA TouchTurn ==
  ASSUME TypeOK, TasksKnow, NEW t \in Tasks, Relies(t), ConsistentAt(t), Touch(t)
  PROVE  Relies(t)' /\ ConsistentAt(t)'
<1> DEFINE ix == [k \in DOMAIN index |->
                    IF k = call[t].key THEN [index[k] EXCEPT !.last_access = next_tick]
                    ELSE index[k]]
<1>1. /\ SaveIndex(t, ix) /\ pc[t] = "touch" /\ UNCHANGED << disk, doomed, unlinking >>
  BY DEF Touch
<1>2. /\ WorkTypes /\ IsIndex(index) /\ Knows(t) /\ loaded /\ next_tick \in Nat
  BY <1>1 DEF TypeOK, MemoryTypes, WorkTypes, TasksKnow, next_tick, Relies
<1>3. IsIndex(ix)
  BY <1>2, TouchedIsIndex
<1> HIDE DEF ix
<1>4. unlinking'[t] = {}
  BY <1>1, <1>2 DEF Knows, Where
<1>5. /\ Keeps(t, doomed, doomed') /\ Keeps(t, unlinking, unlinking')
      /\ doomed'[t] \in SUBSET Keys
  BY <1>1, <1>2 DEF WorkTypes, Keeps
<1>6. unlinking'[t] \in SUBSET Keys /\ unlinking'[t] \cap DOMAIN ix = {}
  BY <1>4
<1>7. QED
  BY <1>1, <1>2, <1>3, <1>5, <1>6, SaveTurn

\* Unlinking victims leaves the index file alone.
LEMMA UnlinkTurn ==
  ASSUME TypeOK, TasksKnow, NEW t \in Tasks, Relies(t), ConsistentAt(t), Unlink(t)
  PROVE  Relies(t)' /\ ConsistentAt(t)'
<1>1. /\ WorkTypes /\ Knows(t) /\ UNCHANGED << memory, dir, temps >> /\ loaded
      /\ pc[t] = "unlink" /\ dir /\ SavedIndex = index
  BY DEF TypeOK, TasksKnow, Unlink, Relies, ConsistentAt, Saving, Writing
<1>2. ASSUME NEW k \in unlinking[t], files' = [files EXCEPT ![k] = Absent],
             unlinking' = [unlinking EXCEPT ![t] = @ \ {k}],
             UNCHANGED << pc, call, shot, doomed >>
      PROVE  Relies(t)' /\ ConsistentAt(t)'
  <2>1. k # IndexFile
    BY <1>1, CacheAssumption DEF WorkTypes
  <2>2. files'[IndexFile] = files[IndexFile]
    BY <1>2, <2>1 DEF TypeOK, Stored, Files
  <2>3. SavedIndex' = SavedIndex /\ unlinking'[t] = unlinking[t] \ {k}
    BY <1>1, <1>2, <2>2, SameFiles DEF WorkTypes
  <2>4. QED
    BY <1>1, <1>2, <2>3 DEF Knows, Where, Relies, ConsistentAt, Saving, Writing, memory
<1>3. CASE unlinking[t] = {} /\ doomed[t] # {} /\ Goto(t, "delete") /\ UNCHANGED << files, work >>
  <2>1. pc'[t] = "delete" /\ SavedIndex' = SavedIndex
    BY <1>3, GotoFacts, SameFiles
  <2>2. QED
    BY <1>1, <1>3, <2>1 DEF Knows, Where, Relies, ConsistentAt, Saving, Writing, memory, work
<1>4. CASE Finish(t) /\ UNCHANGED files
  <2>1. SavedIndex' = SavedIndex
    BY <1>4, SameFiles
  <2>2. QED
    BY <1>1, <1>4, <2>1, FinishTurn DEF memory
<1>5. QED
  BY <1>2, <1>3, <1>4 DEF Unlink

\* A task that gives up on an entry deletes it.
LEMMA GiveUpTurn ==
  ASSUME TypeOK, TasksKnow, NEW t \in Tasks, Relies(t), ConsistentAt(t),
         NEW k, GiveUpOn(t, k), UNCHANGED << index, disk >>, loaded, loaded',
         pc[t] \in {"look", "read"}
  PROVE  Relies(t)' /\ ConsistentAt(t)'
<1>1. /\ Knows(t) /\ pc'[t] = "delete" /\ UNCHANGED << call, shot, unlinking >>
      /\ SavedIndex' = SavedIndex
  BY GotoFacts, SameFiles DEF TasksKnow, GiveUpOn, disk
<1>2. QED
  BY <1>1 DEF Knows, Where, Relies, ConsistentAt, Saving, Writing, disk

\* Looking up and reading leave the index alone, or save it without the entry.
LEMMA LookTurn ==
  ASSUME TypeOK, TasksKnow, NEW t \in Tasks, Relies(t), ConsistentAt(t),
         Look(t) \/ ReadEntry(t)
  PROVE  Relies(t)' /\ ConsistentAt(t)'
<1>1. /\ Knows(t) /\ loaded /\ loaded' /\ UNCHANGED << index, disk >> /\ dir
      /\ pc[t] \in {"look", "read"} /\ SavedIndex = index /\ WorkTypes
  BY DEF TasksKnow, Look, ReadEntry, memory, Relies, ConsistentAt, Saving, Writing, TypeOK
<1>2. SavedIndex' = SavedIndex
  BY <1>1, SameFiles DEF disk
<1>3. CASE Finish(t)
  BY <1>1, <1>2, <1>3, FinishTurn DEF disk
<1>4. CASE GiveUpOn(t, call[t].key)
  BY <1>1, <1>4, GiveUpTurn
<1>5. ASSUME NEW b, call' = [call EXCEPT ![t].binary = b], Goto(t, "read"),
             UNCHANGED << shot, doomed, unlinking >>
      PROVE  Relies(t)' /\ ConsistentAt(t)'
  <2>1. pc'[t] = "read"
    BY <1>5, GotoFacts
  <2>2. call'[t].op = call[t].op
    <3>1. call'[t] = [call[t] EXCEPT !.binary = b]
      BY <1>1, <1>5 DEF WorkTypes
    <3>2. call[t] \in ReadCall
      BY <1>1, CallFacts DEF Knows, Where, WorkTypes
    <3>3. QED
      BY <3>1, <3>2 DEF ReadCall
  <2>3. QED
    BY <1>1, <1>2, <1>5, <2>1, <2>2
       DEF Knows, Where, Relies, ConsistentAt, Saving, Writing, disk
<1>6. CASE Goto(t, "touch") /\ UNCHANGED work
  <2>1. pc'[t] = "touch"
    BY <1>6, GotoFacts
  <2>2. QED
    BY <1>1, <1>2, <1>6, <2>1
       DEF Knows, Where, Relies, ConsistentAt, Saving, Writing, disk, work
<1>7. QED
  BY <1>3, <1>4, <1>5, <1>6 DEF Look, ReadEntry

\* Purging and deleting save the index they install, without the entries.
LEMMA DeleteTurn ==
  ASSUME TypeOK, TasksKnow, NEW t \in Tasks, Relies(t), ConsistentAt(t),
         Purge(t) \/ Reload(t) \/ Delete(t)
  PROVE  Relies(t)' /\ ConsistentAt(t)'
<1>1. /\ Knows(t) /\ UNCHANGED disk /\ WorkTypes /\ IsIndex(index)
      /\ pc[t] \in {"purge", "delete"} /\ (loaded => dir /\ SavedIndex = index)
  BY DEF TasksKnow, Purge, Reload, Delete, ConsistentAt, Saving, Writing, TypeOK, MemoryTypes
<1>2. SavedIndex' = SavedIndex
  BY <1>1, SameFiles DEF disk
<1>3. CASE Purge(t)
  <2>1. loaded /\ loaded' /\ UNCHANGED index /\ pc[t] = "purge"
    BY <1>3 DEF Purge, Relies
  <2>2. CASE Finish(t)
    BY <1>1, <1>2, <2>1, <2>2, FinishTurn DEF disk
  <2>3. CASE Goto(t, "delete") /\ UNCHANGED << call, shot, unlinking >>
    <3>1. pc'[t] = "delete"
      BY <2>3, GotoFacts
    <3>2. QED
      BY <1>1, <1>2, <2>1, <2>3, <3>1
         DEF Knows, Where, Relies, ConsistentAt, Saving, Writing, disk
  <2>4. QED
    BY <1>3, <2>2, <2>3 DEF Purge
<1>4. CASE Reload(t)
  <2>1. ~loaded /\ UNCHANGED << memory, work >> /\ pc[t] = "delete" /\ pc'[t] = "mkdir"
    BY <1>4, GotoFacts DEF Reload
  <2>2. QED
    BY <1>1, <2>1 DEF Knows, Where, Relies, ConsistentAt, Saving, Writing, memory, work
<1>5. CASE Delete(t)
  <2>1. loaded /\ pc[t] = "delete" /\ dir /\ SavedIndex = index
    BY <1>1, <1>5 DEF Delete
  <2>2. ASSUME NEW k \in doomed[t],
               SaveIndex(t, Restricted(index, DOMAIN index \ {k})),
               doomed' = [doomed EXCEPT ![t] = @ \ {k}],
               unlinking' = [unlinking EXCEPT ![t] = {k}]
        PROVE  Relies(t)' /\ ConsistentAt(t)'
    <3> DEFINE ix == Restricted(index, DOMAIN index \ {k})
    <3>1. IsIndex(ix) /\ DOMAIN ix = DOMAIN index \ {k}
      BY <1>1, RestrictedIsIndex
    <3>2. SaveIndex(t, ix)
      BY <2>2
    <3> HIDE DEF ix
    <3>3. /\ Keeps(t, doomed, doomed') /\ Keeps(t, unlinking, unlinking')
          /\ doomed'[t] \in SUBSET Keys /\ unlinking'[t] \in SUBSET Keys
          /\ unlinking'[t] = {k}
      BY <1>1, <2>2 DEF WorkTypes, Keeps
    <3>4. unlinking'[t] \cap DOMAIN ix = {}
      BY <3>1, <3>3
    <3>5. QED
      BY <1>1, <2>1, <3>1, <3>2, <3>3, <3>4, SaveTurn
  <2>3. CASE Finish(t) /\ UNCHANGED << loaded, index >>
    BY <1>1, <1>2, <2>1, <2>3, FinishTurn DEF disk
  <2>4. CASE UNCHANGED << loaded, index, pc, call, shot, unlinking >>
    BY <1>1, <1>2, <2>1, <2>4 DEF Knows, Where, Relies, ConsistentAt, Saving, Writing, disk
  <2>5. QED
    BY <1>5, <2>2, <2>3, <2>4 DEF Delete
<1>6. QED
  BY <1>3, <1>4, <1>5

\* Clearing removes the saved index before it empties the one in memory.
LEMMA ClearTurn ==
  ASSUME TypeOK, TasksKnow, NEW t \in Tasks, Relies(t), ConsistentAt(t),
         Wipe(t) \/ Reset(t) \/ Emptied(t)
  PROVE  Relies(t)' /\ ConsistentAt(t)'
<1>1. Knows(t)
  BY DEF TasksKnow
<1>2. CASE Wipe(t)
  <2>1. /\ files' = [f \in Files |-> Absent] /\ UNCHANGED << memory, work >>
        /\ pc[t] = "wipe" /\ pc'[t] = "reset"
    BY <1>2, GotoFacts DEF Wipe
  <2>2. SavedIndex' = Empty
    BY <2>1 DEF SavedIndex, Files
  <2>3. QED
    BY <1>1, <2>1, <2>2 DEF Knows, Where, Relies, ConsistentAt, Saving, Writing, memory, work
<1>3. CASE Reset(t)
  <2>1. loaded' = FALSE /\ pc[t] = "reset"
    BY <1>3 DEF Reset
  <2>2. CASE call[t].op = "clear" /\ Goto(t, "mkdir") /\ UNCHANGED work
    <3>1. pc'[t] = "mkdir"
      BY <2>2, GotoFacts
    <3>2. QED
      BY <1>1, <2>1, <2>2, <3>1 DEF Knows, Where, Relies, ConsistentAt, Saving, Writing, work
  <2>3. CASE Finish(t)
    BY <2>1, <2>3, FinishTurn
  <2>4. QED
    BY <1>3, <2>2, <2>3 DEF Reset
<1>4. CASE Emptied(t)
  <2>1. index' = Empty /\ UNCHANGED disk /\ pc[t] = "emptied" /\ Finish(t)
    BY <1>4 DEF Emptied
  <2>2. SavedIndex' = SavedIndex /\ dir' = dir
    BY <2>1, SameFiles DEF disk
  <2>3. QED
    BY <2>1, <2>2, FinishTurn DEF Relies
<1>5. QED
  BY <1>2, <1>3, <1>4

\* Beginning an operation changes neither index; only a loaded cache skips the load.
LEMMA BeginTurn ==
  ASSUME TypeOK, TasksKnow, NEW t \in Tasks, Relies(t), ConsistentAt(t), Begins(t)
  PROVE  Relies(t)' /\ ConsistentAt(t)'
<1> DEFINE start == {"write", "look", "purge"}
<1>1. /\ WorkTypes /\ Knows(t) /\ TasksKnow'
  BY BeginTypes DEF TypeOK, TasksKnow
<1>2. /\ pc[t] = "idle" /\ UNCHANGED << memory, disk, shot, unlinking >>
      /\ pc'[t] \in {"mkdir", "delete", "wipe"} \cup (IF loaded THEN start ELSE {})
      /\ pc'[t] = "write" => call'[t].file # IndexFile
      /\ call'[t].op = "clear" => pc'[t] = "wipe"
  <2>1. ASSUME NEW k \in Keys, NEW v \in Values, NEW ttl \in Ttls, BeginSet(t, k, v, ttl)
        PROVE  <1>2!:
    BY <1>1, <2>1, CacheAssumption DEF BeginSet, Begin, Goto, Entry, WorkTypes
  <2>2. ASSUME NEW k \in Keys, NEW op \in {"get", "peek", "has"}, BeginRead(t, op, k)
        PROVE  <1>2!:
    BY <1>1, <2>2 DEF BeginRead, Begin, Goto, Entry, WorkTypes
  <2>3. ASSUME NEW k \in Keys, BeginDelete(t, k)
        PROVE  <1>2!:
    BY <1>1, <2>3 DEF BeginDelete, Begin, Goto, WorkTypes
  <2>4. ASSUME NEW op \in {"keys", "clear", "clear_all"}, BeginOther(t, op)
        PROVE  <1>2!:
    BY <1>1, <2>4 DEF BeginOther, Begin, Goto, Entry, WorkTypes
  <2>5. QED
    BY <2>1, <2>2, <2>3, <2>4 DEF Begins
<1>3. SavedIndex' = SavedIndex /\ dir' = dir /\ index' = index /\ loaded' = loaded
  BY <1>2, SameFiles DEF disk, memory
<1>4. loaded => dir /\ SavedIndex = index
  BY <1>2 DEF ConsistentAt, Saving, Writing
<1>5. ConsistentAt(t)'
  BY <1>3, <1>4 DEF ConsistentAt
<1>6. Relies(t)'
  BY <1>2, <1>3, <1>4 DEF Relies, Saving, Writing
<1>7. QED
  BY <1>5, <1>6

\* Every step of a script that awaits each call keeps the index in order.
LEMMA NextInTurn ==
  UseOK /\ TypeOK /\ TasksKnow /\ Awaited /\ Awaited' /\ InTurn /\ [Next]_vars => InTurn'
<1> SUFFICES ASSUME UseOK, TypeOK, TasksKnow, Awaited, Awaited', InTurn, [Next]_vars
             PROVE  InTurn'
  OBVIOUS
<1>1. ASSUME NEW t \in Tasks, Work(t) \/ Begins(t) PROVE InTurn'
  <2>1. Solo(t) /\ TasksKnow'
    BY <1>1, StepsAreSolo, TaskTypes
  <2>2. Relies(t) /\ ConsistentAt(t)
    BY <2>1, SoloBefore DEF Solo
  <2>3. Relies(t)' /\ ConsistentAt(t)'
    BY <1>1, <2>2, LoadTurn, FileTurn, InsertTurn, TouchTurn, UnlinkTurn, LookTurn,
       DeleteTurn, ClearTurn, BeginTurn DEF Work
  <2>4. \A u \in Tasks \ {t} : pc'[u] = "idle"
    BY <2>1 DEF Solo
  <2>5. QED
    BY <2>1, <2>3, <2>4, SoloAfter
<1>2. CASE Open \/ PassTime \/ UNCHANGED vars
  <2>1. UNCHANGED << memory, disk, pc, work >>
    BY <1>2 DEF Open, PassTime, vars
  <2>2. UNCHANGED << SavedIndex >> /\ \A t \in Tasks : UNCHANGED << Content(t), Saving(t), Writing(t) >>
    BY <2>1 DEF SavedIndex, Content, Saving, Writing, disk, work
  <2>3. QED
    BY <2>1, <2>2 DEF InTurn, Consistent, Relies, memory, disk, work
<1>3. CASE Restart
  <2>1. loaded' = FALSE /\ \A t \in Tasks : pc'[t] = "idle"
    BY <1>3 DEF Restart
  <2>2. TasksKnow'
    BY NextTypes
  <2>3. \A t \in Tasks : Relies(t)'
    BY <2>1, <2>2 DEF TasksKnow, Knows, Where, Relies, Writing, Saving
  <2>4. QED
    BY <2>1, <2>3 DEF InTurn, Consistent
<1>4. QED
  BY <1>1, <1>2, <1>3, Steps

-----------------------------------------------------------------------------
(* What the index lists is there.                                          *)

HasFiles(ix) == \A k \in DOMAIN ix : files[k] # Absent \/ k \in cut

\* A set writes the file of its key, which is there once it inserts the entry.
SetsFirst(t) ==
  /\ pc[t] = "insert" => files[call[t].key] # Absent
  /\ call[t].op = "set" /\ call[t].file # IndexFile => call[t].file = call[t].key

\* The entries in memory and the saved ones have files; a wipe takes them all.
EntriesKept ==
  /\ \A t \in Tasks : SetsFirst(t)
  /\ loaded /\ (\A t \in Tasks : pc[t] # "reset") => HasFiles(index)
  /\ HasFiles(SavedIndex)

\* The same as seen by the one task that may be at work.
EntriesAt(t) ==
  /\ SetsFirst(t)
  /\ loaded /\ pc[t] # "reset" => HasFiles(index)
  /\ HasFiles(SavedIndex)

\* A step that writes no file and lists no more entries than before.
LEMMA NoFileStep ==
  ASSUME NEW t \in Tasks, EntriesAt(t), UNCHANGED << files, cut >>,
         pc'[t] # "insert",
         call'[t] = call[t] \/ call'[t].op # "set" \/ call'[t].file = IndexFile,
         loaded' /\ pc'[t] # "reset" =>
           \/ loaded /\ pc[t] # "reset" /\ DOMAIN index' \subseteq DOMAIN index
           \/ DOMAIN index' \subseteq DOMAIN SavedIndex
  PROVE  EntriesAt(t)'
<1>1. SavedIndex' = SavedIndex
  BY SameFiles
<1>2. HasFiles(SavedIndex)'
  BY <1>1 DEF EntriesAt, HasFiles
<1>3. loaded' /\ pc'[t] # "reset" => HasFiles(index)'
  BY DEF EntriesAt, HasFiles
<1>4. SetsFirst(t)'
  BY DEF EntriesAt, SetsFirst
<1>5. QED
  BY <1>2, <1>3, <1>4 DEF EntriesAt

\* A finished operation lists nothing by itself.
LEMMA FinishEntries ==
  ASSUME TypeOK, TasksKnow, NEW t \in Tasks, EntriesAt(t), UNCHANGED << files, cut >>, Finish(t),
         loaded' =>
           \/ loaded /\ pc[t] # "reset" /\ DOMAIN index' \subseteq DOMAIN index
           \/ DOMAIN index' \subseteq DOMAIN SavedIndex
  PROVE  EntriesAt(t)'
<1>1. pc'[t] = "idle" /\ call'[t].op # "set"
  BY Finishes DEF TypeOK, NoCall
<1>2. QED
  BY <1>1, NoFileStep

\* The steps that write no entry's file.
LEMMA QuietEntries ==
  ASSUME TypeOK, TasksKnow, NEW t \in Tasks, Relies(t), EntriesAt(t),
         \/ MakeDirs(t) \/ ReadIndex(t) \/ InstallIndex(t) \/ WriteTemp(t)
         \/ Look(t) \/ ReadEntry(t) \/ Purge(t) \/ Reload(t) \/ Reset(t) \/ Emptied(t)
  PROVE  EntriesAt(t)'
<1>1. WorkTypes /\ Knows(t) /\ UNCHANGED << files, cut >>
  BY DEF TypeOK, TasksKnow, MakeDirs, ReadIndex, InstallIndex, WriteTemp, Look, ReadEntry,
         Purge, Reload, Reset, Emptied, disk
<1>2. CASE MakeDirs(t) \/ ReadIndex(t)
  <2>1. /\ pc[t] \in {"mkdir", "load"} /\ pc'[t] \in {"write", "load", "install"}
        /\ call' = call /\ UNCHANGED memory
    BY <1>2, GotoFacts DEF MakeDirs, ReadIndex, work
  <2>2. QED
    BY <1>1, <2>1, NoFileStep DEF memory
<1>3. CASE InstallIndex(t)
  <2>1. /\ pc[t] = "install" /\ pc'[t] \in {"delete", "write", "purge", "look"}
        /\ call' = call /\ index' = shot[t]
    BY <1>3, GotoFacts DEF InstallIndex, work
  <2>2. index' = SavedIndex
    BY <2>1 DEF Relies
  <2>3. QED
    BY <1>1, <2>1, <2>2, NoFileStep
<1>4. CASE WriteTemp(t)
  <2>1. pc[t] = "write" /\ UNCHANGED memory
    BY <1>4 DEF WriteTemp
  <2>2. CASE Finish(t)
    BY <1>1, <2>1, <2>2, FinishEntries DEF memory
  <2>3. CASE Goto(t, "rename") /\ UNCHANGED work
    <3>1. pc'[t] = "rename" /\ call' = call
      BY <2>3, GotoFacts DEF work
    <3>2. QED
      BY <1>1, <2>1, <3>1, NoFileStep DEF memory
  <2>4. QED
    BY <1>4, <2>2, <2>3 DEF WriteTemp
<1>5. CASE Look(t) \/ ReadEntry(t) \/ Purge(t)
  <2>1. loaded /\ pc[t] \in {"look", "read", "purge"} /\ index' = index
    BY <1>5 DEF Look, ReadEntry, Purge, Relies, memory
  <2>2. CASE Finish(t)
    BY <1>1, <2>1, <2>2, FinishEntries
  <2>3. CASE Goto(t, "delete") /\ call' = call
    <3>1. pc'[t] = "delete"
      BY <2>3, GotoFacts
    <3>2. QED
      BY <1>1, <2>1, <2>3, <3>1, NoFileStep
  <2>4. CASE Goto(t, "touch") /\ UNCHANGED work
    <3>1. pc'[t] = "touch" /\ call' = call
      BY <2>4, GotoFacts DEF work
    <3>2. QED
      BY <1>1, <2>1, <3>1, NoFileStep
  <2>5. ASSUME pc[t] = "look", NEW b, call' = [call EXCEPT ![t].binary = b], Goto(t, "read")
        PROVE  EntriesAt(t)'
    <3>1. pc'[t] = "read"
      BY <2>5, GotoFacts
    <3>2. call'[t].op # "set"
      <4>1. call'[t] = [call[t] EXCEPT !.binary = b]
        BY <1>1, <2>5 DEF WorkTypes
      <4>2. call[t] \in ReadCall
        BY <1>1, <2>5, CallFacts DEF Knows, Where, WorkTypes
      <4>3. QED
        BY <4>1, <4>2 DEF ReadCall
    <3>3. QED
      BY <1>1, <2>1, <3>1, <3>2, NoFileStep
  <2>6. QED
    BY <1>5, <2>2, <2>3, <2>4, <2>5 DEF Look, ReadEntry, Purge, GiveUpOn
<1>6. CASE Reload(t)
  <2>1. ~loaded /\ UNCHANGED << memory, work >> /\ pc'[t] = "mkdir"
    BY <1>6, GotoFacts DEF Reload
  <2>2. QED
    BY <1>1, <2>1, NoFileStep DEF memory, work
<1>7. CASE Reset(t)
  <2>1. loaded' = FALSE
    BY <1>7 DEF Reset
  <2>2. CASE Finish(t)
    BY <1>1, <2>1, <2>2, FinishEntries
  <2>3. CASE Goto(t, "mkdir") /\ UNCHANGED work
    <3>1. pc'[t] = "mkdir" /\ call' = call
      BY <2>3, GotoFacts DEF work
    <3>2. QED
      BY <1>1, <2>1, <3>1, NoFileStep
  <2>4. QED
    BY <1>7, <2>2, <2>3 DEF Reset
<1>8. CASE Emptied(t)
  <2>1. Finish(t) /\ index' = Empty
    BY <1>8 DEF Emptied
  <2>2. QED
    BY <1>1, <2>1, FinishEntries, EmptyIsIndex
<1>9. QED
  BY <1>2, <1>3, <1>4, <1>5, <1>6, <1>7, <1>8

\* The steps that save an index list no entry but those in memory and, in a set,
\* the one whose file was written before.
LEMMA SaveEntries ==
  ASSUME TypeOK, TasksKnow, NEW t \in Tasks, Relies(t), EntriesAt(t),
         Insert(t) \/ Touch(t) \/ Delete(t)
  PROVE  EntriesAt(t)'
<1>1. WorkTypes /\ Knows(t) /\ IsIndex(index) /\ loaded /\ UNCHANGED disk /\ call[t] \in Call
      /\ pc[t] \in {"insert", "touch", "delete"}
  BY DEF TypeOK, MemoryTypes, WorkTypes, TasksKnow, Insert, Touch, Delete, Relies
<1>2. SavedIndex' = SavedIndex /\ files' = files /\ cut' = cut
  BY <1>1, SameFiles DEF disk
<1>3. ASSUME NEW ix, SaveIndex(t, ix), HasFiles(ix)
      PROVE  EntriesAt(t)'
  <2>1. pc'[t] = "write" /\ call'[t] = [call[t] EXCEPT !.file = IndexFile] /\ index' = ix
    BY <1>1, <1>3 DEF SaveIndex, Goto, WorkTypes
  <2>2. call[t].op # "none"
    BY <1>1 DEF Knows, Where
  <2>3. call'[t].file = IndexFile
    BY <1>1, <2>1, <2>2, Refiled DEF Files
  <2>4. HasFiles(SavedIndex)' /\ HasFiles(index)'
    BY <1>2, <1>3, <2>1 DEF EntriesAt, HasFiles
  <2>5. QED
    BY <2>1, <2>3, <2>4 DEF EntriesAt, SetsFirst
<1>4. HasFiles(index)
  BY <1>1 DEF EntriesAt
<1>5. CASE Insert(t)
  <2> DEFINE k == call[t].key
             ix == [j \in DOMAIN index \cup {k} |->
                      IF j = k THEN MetaOf(call[t]) ELSE index[j]]
             evicted == collect_evictions(ix, k)
  <2>1. SaveIndex(t, Restricted(ix, DOMAIN ix \ evicted)) /\ files[k] # Absent
    BY <1>5 DEF Insert, EntriesAt, SetsFirst
  <2>2. \A j \in DOMAIN ix : files[j] # Absent \/ j \in cut
    BY <1>4, <2>1 DEF HasFiles
  <2> HIDE DEF ix, evicted
  <2>3. HasFiles(Restricted(ix, DOMAIN ix \ evicted))
    BY <2>2 DEF HasFiles, Restricted
  <2>4. QED
    BY <1>3, <2>1, <2>3
<1>6. CASE Touch(t)
  <2> DEFINE ix == [k \in DOMAIN index |->
                      IF k = call[t].key THEN [index[k] EXCEPT !.last_access = next_tick]
                      ELSE index[k]]
  <2>1. SaveIndex(t, ix)
    BY <1>6 DEF Touch
  <2>2. HasFiles(ix)
    BY <1>4 DEF HasFiles
  <2> HIDE DEF ix
  <2>3. QED
    BY <1>3, <2>1, <2>2
<1>7. CASE Delete(t)
  <2>1. ASSUME NEW k, SaveIndex(t, Restricted(index, DOMAIN index \ {k}))
        PROVE  EntriesAt(t)'
    <3>1. HasFiles(Restricted(index, DOMAIN index \ {k}))
      BY <1>4 DEF HasFiles, Restricted
    <3>2. QED
      BY <1>3, <2>1, <3>1
  <2>2. CASE Finish(t) /\ UNCHANGED << loaded, index >>
    BY <1>1, <1>2, <2>2, FinishEntries
  <2>3. CASE UNCHANGED << loaded, index, pc, call, shot, unlinking >>
    <3>1. pc[t] = "delete"
      BY <1>7 DEF Delete
    <3>2. QED
      BY <1>1, <1>2, <2>3, <3>1, NoFileStep
  <2>4. QED
    BY <1>7, <2>1, <2>2, <2>3 DEF Delete
<1>8. QED
  BY <1>5, <1>6, <1>7

\* The steps that change files: a rename puts one in place, and what is deleted is
\* in no index any more.
LEMMA FileEntries ==
  ASSUME TypeOK, TasksKnow, NEW t \in Tasks, Relies(t), ConsistentAt(t), EntriesAt(t),
         Rename(t) \/ RemoveTarget(t) \/ RenameAgain(t) \/ Unlink(t) \/ Wipe(t)
  PROVE  EntriesAt(t)'
<1>1. WorkTypes /\ Knows(t) /\ IsIndex(index) /\ IsIndex(SavedIndex) /\ DOMAIN files = Files
  BY EmptyIsIndex DEF TypeOK, MemoryTypes, WorkTypes, TasksKnow, SavedIndex, Stored
<1>2. DOMAIN index \subseteq Keys /\ DOMAIN SavedIndex \subseteq Keys
  BY <1>1, IndexFacts
<1>3. ASSUME pc[t] \in {"rename", "again"}, MoveTemp(t), UNCHANGED memory PROVE EntriesAt(t)'
  <2> DEFINE f == call[t].file
  <2>1. f \in Files /\ Content(t) # Absent /\ temps[f] = Content(t)
    BY <1>3, ContentFits DEF Relies
  <2>2. MoveTemp(t) /\ UNCHANGED memory
    BY <1>3
  <2>3. files' = [files EXCEPT ![f] = Content(t)] /\ call' = call /\ cut' = cut \ {f}
    BY <2>1, <2>2 DEF MoveTemp, work
  <2>4. ASSUME NEW g \in Files, files[g] # Absent \/ g \in cut
        PROVE  files'[g] # Absent \/ g \in cut'
    BY <1>1, <2>1, <2>3, <2>4
  <2>5. loaded' => HasFiles(index)'
    BY <1>2, <1>3, <2>1, <2>2, <2>4 DEF EntriesAt, HasFiles, memory, Files
  <2>6. files'[f] # Absent
    BY <1>1, <2>1, <2>3
  <2>7. pc'[t] = IF f # IndexFile THEN "insert"
                 ELSE IF call[t].op = "clear" THEN "emptied" ELSE "unlink"
    BY <1>3, <2>1, <2>2, Moved
  <2>8. SetsFirst(t)'
    <3>1. f # IndexFile => f = call[t].key
      BY <1>1, <1>3, <2>1 DEF EntriesAt, SetsFirst, Knows, Where
    <3> HIDE DEF f
    <3>2. QED
      BY <2>3, <2>6, <2>7, <3>1 DEF EntriesAt, SetsFirst, f
  <2>9. HasFiles(SavedIndex)'
    <3>1. CASE f # IndexFile
      <4>1. SavedIndex' = SavedIndex
        BY <1>1, <2>1, <2>3, <3>1, SameFiles
      <4>2. QED
        BY <1>2, <2>4, <4>1 DEF EntriesAt, HasFiles, Files
    <3>2. CASE f = IndexFile
      <4>1. files'[IndexFile] = shot[t] /\ shot[t] # Absent
        BY <1>1, <2>1, <2>3, <3>2 DEF Content
      <4>2. SavedIndex' = shot[t]
        BY <4>1 DEF SavedIndex
      <4>3. CASE call[t].op = "clear"
        BY <1>1, <4>2, <4>3, EmptyIsIndex DEF HasFiles, Knows, Where
      <4>4. CASE call[t].op # "clear"
        <5>1. loaded /\ shot[t] = index
          BY <1>3, <2>1, <3>2, <4>4 DEF Relies, Saving, Writing
        <5>2. HasFiles(index)' /\ index' = index
          BY <2>2, <2>5, <5>1 DEF memory
        <5>3. QED
          BY <4>2, <5>1, <5>2 DEF HasFiles
      <4>5. QED
        BY <4>3, <4>4
    <3>3. QED
      BY <3>1, <3>2
  <2>10. QED
    BY <2>5, <2>8, <2>9 DEF EntriesAt
<1>4. CASE Rename(t) \/ RenameAgain(t)
  <2>1. pc[t] \in {"rename", "again"} /\ UNCHANGED memory
    BY <1>4 DEF Rename, RenameAgain
  <2>2. CASE Finish(t) /\ UNCHANGED << files, temps, cut >>
    BY <2>1, <2>2, FinishEntries DEF memory
  <2>3. CASE Goto(t, "replace") /\ UNCHANGED << files, temps, cut, work >>
    <3>1. pc'[t] = "replace" /\ call' = call
      BY <2>3, GotoFacts DEF work
    <3>2. QED
      BY <2>1, <2>3, <3>1, NoFileStep DEF memory
  <2>4. QED
    BY <1>3, <1>4, <2>1, <2>2, <2>3 DEF Rename, RenameAgain
<1>7. CASE RemoveTarget(t)
  <2> DEFINE f == call[t].file
  <2>1. /\ pc[t] = "replace" /\ pc'[t] = "again" /\ call' = call /\ UNCHANGED memory
        /\ files' = [files EXCEPT ![f] = Absent] /\ cut' = cut \cup {f}
    BY <1>7, GotoFacts DEF RemoveTarget, work
  <2>2. f \in Files
    BY <2>1, ContentFits
  <2>3. ASSUME NEW g \in Files, files[g] # Absent \/ g \in cut
        PROVE  files'[g] # Absent \/ g \in cut'
    BY <1>1, <2>1, <2>2, <2>3
  <2>4. loaded' => HasFiles(index)'
    BY <1>2, <2>1, <2>3 DEF EntriesAt, HasFiles, memory, Files
  <2>5. HasFiles(SavedIndex)'
    <3>1. CASE f # IndexFile
      <4>1. SavedIndex' = SavedIndex
        BY <1>1, <2>1, <2>2, <3>1, SameFiles
      <4>2. QED
        BY <1>2, <2>3, <4>1 DEF EntriesAt, HasFiles, Files
    <3>2. CASE f = IndexFile
      <4>1. SavedIndex' = Empty
        BY <1>1, <2>1, <3>2 DEF SavedIndex, Files
      <4>2. QED
        BY <4>1, EmptyIsIndex DEF HasFiles
    <3>3. QED
      BY <3>1, <3>2
  <2>6. SetsFirst(t)'
    BY <2>1 DEF EntriesAt, SetsFirst
  <2>7. QED
    BY <2>4, <2>5, <2>6 DEF EntriesAt
<1>5. CASE Unlink(t)
  <2>1. pc[t] = "unlink" /\ loaded /\ UNCHANGED memory /\ SavedIndex = index
        /\ unlinking[t] \cap DOMAIN index = {} /\ unlinking[t] \subseteq Keys
    BY <1>1, <1>5 DEF Unlink, Relies, ConsistentAt, Saving, Writing, WorkTypes
  <2>2. ASSUME NEW k \in unlinking[t], files' = [files EXCEPT ![k] = Absent],
               cut' = cut \ {k}, UNCHANGED << pc, call >>
        PROVE  EntriesAt(t)'
    <3>1. k # IndexFile /\ k \notin DOMAIN index
      BY <2>1, CacheAssumption
    <3>2. SavedIndex' = SavedIndex
      BY <1>1, <2>2, <3>1, SameFiles DEF Files
    <3>3. HasFiles(index)' /\ index' = index
      BY <1>1, <1>2, <2>1, <2>2, <3>1 DEF EntriesAt, HasFiles, memory, Files
    <3>4. HasFiles(SavedIndex)'
      BY <2>1, <3>2, <3>3 DEF HasFiles
    <3>5. SetsFirst(t)'
      BY <2>1, <2>2 DEF EntriesAt, SetsFirst
    <3>6. QED
      BY <3>3, <3>4, <3>5 DEF EntriesAt
  <2>3. CASE Goto(t, "delete") /\ UNCHANGED << files, cut, work >>
    <3>1. pc'[t] = "delete" /\ call' = call
      BY <2>3, GotoFacts DEF work
    <3>2. QED
      BY <2>1, <2>3, <3>1, NoFileStep DEF memory
  <2>4. CASE Finish(t) /\ UNCHANGED << files, cut >>
    BY <2>1, <2>4, FinishEntries DEF memory
  <2>5. QED
    BY <1>5, <2>2, <2>3, <2>4 DEF Unlink
<1>6. CASE Wipe(t)
  <2>1. files' = [f \in Files |-> Absent] /\ pc'[t] = "reset" /\ call' = call
    BY <1>6, GotoFacts DEF Wipe, work
  <2>2. SavedIndex' = Empty
    BY <2>1 DEF SavedIndex, Files
  <2>3. HasFiles(SavedIndex)'
    BY <2>2, EmptyIsIndex DEF HasFiles
  <2>4. QED
    BY <2>1, <2>3 DEF EntriesAt, SetsFirst
<1>8. QED
  BY <1>4, <1>5, <1>6, <1>7

\* Beginning an operation changes no file and no index.
LEMMA BeginEntries ==
  ASSUME TypeOK, TasksKnow, NEW t \in Tasks, EntriesAt(t), Begins(t)
  PROVE  EntriesAt(t)'
<1>1. WorkTypes
  BY DEF TypeOK
<1>2. /\ pc[t] = "idle" /\ UNCHANGED << memory, disk >>
      /\ pc'[t] \notin {"idle", "replace", "again", "insert", "reset"}
      /\ call'[t].op = "set" /\ call'[t].file # IndexFile => call'[t].file = call'[t].key
  <2>1. ASSUME NEW k \in Keys, NEW v \in Values, NEW ttl \in Ttls, BeginSet(t, k, v, ttl)
        PROVE  <1>2!:
    BY <1>1, <2>1 DEF BeginSet, Begin, Goto, Entry, WorkTypes
  <2>2. ASSUME NEW k \in Keys, NEW op \in {"get", "peek", "has"}, BeginRead(t, op, k)
        PROVE  <1>2!:
    BY <1>1, <2>2 DEF BeginRead, Begin, Goto, Entry, WorkTypes
  <2>3. ASSUME NEW k \in Keys, BeginDelete(t, k)
        PROVE  <1>2!:
    BY <1>1, <2>3 DEF BeginDelete, Begin, Goto, WorkTypes
  <2>4. ASSUME NEW op \in {"keys", "clear", "clear_all"}, BeginOther(t, op)
        PROVE  <1>2!:
    BY <1>1, <2>4 DEF BeginOther, Begin, Goto, Entry, WorkTypes
  <2>5. QED
    BY <2>1, <2>2, <2>3, <2>4 DEF Begins
<1>3. SavedIndex' = SavedIndex /\ files' = files /\ cut' = cut /\ index' = index
      /\ loaded' = loaded
  BY <1>2, SameFiles DEF disk, memory
<1>4. HasFiles(SavedIndex)' /\ (loaded => HasFiles(index)')
  BY <1>2, <1>3 DEF EntriesAt, HasFiles
<1>5. SetsFirst(t)'
  BY <1>2 DEF SetsFirst
<1>6. QED
  BY <1>3, <1>4, <1>5 DEF EntriesAt

\* Every step of a script that awaits each call keeps the files of the entries.
LEMMA NextEntries ==
  TypeOK /\ TasksKnow /\ Awaited /\ Awaited' /\ InTurn /\ EntriesKept /\ [Next]_vars
    => EntriesKept'
<1> SUFFICES ASSUME TypeOK, TasksKnow, Awaited, Awaited', InTurn, EntriesKept, [Next]_vars
             PROVE  EntriesKept'
  OBVIOUS
<1>1. ASSUME NEW t \in Tasks, Work(t) \/ Begins(t) PROVE EntriesKept'
  <2>1. Solo(t) /\ TasksKnow'
    BY <1>1, StepsAreSolo, TaskTypes
  <2>2. Relies(t) /\ ConsistentAt(t)
    BY <2>1, SoloBefore DEF Solo
  <2>3. EntriesAt(t)
    BY <2>1 DEF Solo, EntriesKept, EntriesAt
  <2>4. EntriesAt(t)'
    BY <1>1, <2>2, <2>3, QuietEntries, SaveEntries, FileEntries, BeginEntries DEF Work
  <2>5. \A u \in Tasks \ {t} : pc'[u] = "idle"
    BY <2>1 DEF Solo
  <2>6. \A u \in Tasks \ {t} : call'[u].op = "none"
    BY <2>1, <2>5 DEF TasksKnow, Knows, Where
  <2>7. \A u \in Tasks : SetsFirst(u)'
    BY <2>4, <2>5, <2>6 DEF EntriesAt, SetsFirst
  <2>8. QED
    BY <2>4, <2>7 DEF EntriesKept, EntriesAt
<1>2. CASE Open \/ PassTime \/ UNCHANGED vars
  <2>1. UNCHANGED << memory, disk, pc, work >>
    BY <1>2 DEF Open, PassTime, vars
  <2>2. SavedIndex' = SavedIndex
    BY <2>1, SameFiles DEF disk
  <2>3. QED
    BY <2>1, <2>2 DEF EntriesKept, SetsFirst, HasFiles, memory, disk, work
<1>3. CASE Restart
  <2>1. /\ loaded' = FALSE /\ UNCHANGED << files, cut >>
        /\ \A t \in Tasks : pc'[t] = "idle" /\ call'[t].op = "none"
    BY <1>3 DEF Restart, NoCall
  <2>2. HasFiles(SavedIndex)'
    <3>1. SavedIndex' = SavedIndex
      BY <2>1, SameFiles
    <3>2. QED
      BY <2>1, <3>1 DEF EntriesKept, HasFiles
  <2>3. QED
    BY <2>1, <2>2 DEF EntriesKept, SetsFirst
<1>4. QED
  BY <1>1, <1>2, <1>3, Steps

-----------------------------------------------------------------------------
(* What awaited calls keep.                                                *)

\* While each call is awaited before the next, the index is in order.
LEMMA KeptInTurn == Spec /\ []Awaited => [](UseOK /\ TypeOK /\ TasksKnow /\ InTurn)
<1>1. Init => InTurn
  BY DEF Init, InTurn, Consistent, Relies, Writing, Saving, NoCall
<1>2. QED
  BY <1>1, InitTypes, NextTypes, NextInTurn, PTL DEF Spec

\* A script that awaits each call finds nothing unsaved between calls: the entries
\* it then has are those that a restart brings back.
THEOREM IdleIndexIsSaved == Spec /\ []Awaited => []IdleCacheIsSaved
<1>1. InTurn => IdleCacheIsSaved
  BY DEF InTurn, Consistent, IdleCacheIsSaved, Idle, Saving, Writing
<1>2. QED
  BY <1>1, KeptInTurn, PTL

\* Wherever the process ends, if calls are awaited: index.json lists no entry without
\* a file, but for one that write_atomic removed because the rename over it failed.
THEOREM EntriesHaveFiles == Spec /\ []Awaited => []SavedEntriesHaveFiles
<1>1. Init => EntriesKept
  BY EmptyIsIndex
     DEF Init, EntriesKept, SetsFirst, HasFiles, NoCall, SavedIndex, Files
<1>2. EntriesKept => SavedEntriesHaveFiles
  BY DEF EntriesKept, HasFiles, SavedEntriesHaveFiles
<1>3. Spec /\ []Awaited => []EntriesKept
  BY <1>1, KeptInTurn, NextEntries, PTL DEF Spec
<1>4. QED
  BY <1>2, <1>3, PTL

\* One task awaits each of its calls: the script of the runs.
THEOREM OneTaskSaves ==
  ASSUME NEW t, Tasks = {t}
  PROVE  Spec => []IdleCacheIsSaved
<1>1. Awaited
  BY DEF Awaited
<1>2. Spec => []Awaited
  BY <1>1, PTL
<1>3. QED
  BY <1>2, IdleIndexIsSaved, PTL

-----------------------------------------------------------------------------
(* Recency.                                                                *)

StoredSizes == {SizeOf[v] : v \in Values}

\* Finitely many entries, all used before tick and no two at once.
Timely(ix, tick) ==
  /\ IsFiniteSet(DOMAIN ix)
  /\ \A k \in DOMAIN ix : ix[k].last_access < tick /\ ix[k].size \in StoredSizes
  /\ \A j, k \in DOMAIN ix : ix[j].last_access = ix[k].last_access => j = k

\* So is every copy of the index there is, in memory, on disk and on its way there.
TicksDiffer ==
  /\ Timely(index, next_tick)
  /\ files[IndexFile] # Absent => Timely(files[IndexFile], next_tick)
  /\ temps[IndexFile] # Absent => Timely(temps[IndexFile], next_tick)
  /\ \A t \in Tasks : Timely(shot[t], next_tick)

\* The comment on last_access: ticks grow strictly, so that the order in which
\* entries of a cache were used is never in doubt, in memory and on disk.
RecencyIsTotal ==
  \A ix \in {index, SavedIndex} : \A j, k \in DOMAIN ix :
    ix[j].last_access = ix[k].last_access => j = k

\* An empty index is timely.
LEMMA EmptyIsTimely == ASSUME NEW n PROVE Timely(Empty, n)
BY EmptyIsIndex, FS_EmptySet DEF Timely

\* What was used before a tick was used before a later one.
LEMMA TimelyLater ==
  ASSUME NEW ix, IsIndex(ix), NEW m \in Nat, NEW n \in Nat, m <= n, Timely(ix, m)
  PROVE  Timely(ix, n)
<1>1. ASSUME NEW k \in DOMAIN ix PROVE ix[k].last_access \in Nat
  BY IndexFacts DEF Meta
<1>2. QED
  BY <1>1 DEF Timely

\* Dropping entries leaves the others timely.
LEMMA RestrictedIsTimely ==
  ASSUME NEW ix, NEW n, Timely(ix, n), NEW S, S \subseteq DOMAIN ix
  PROVE  Timely(Restricted(ix, S), n)
<1>1. IsFiniteSet(S)
  BY FS_Subset DEF Timely
<1>2. DOMAIN Restricted(ix, S) = S /\ \A k \in S : Restricted(ix, S)[k] = ix[k]
  BY DEF Restricted
<1>3. QED
  BY <1>1, <1>2 DEF Timely

\* An entry with the next tick is newer than all others.
LEMMA ExtendedIsTimely ==
  ASSUME NEW ix, IsIndex(ix), NEW n \in Nat, Timely(ix, n), NEW k,
         NEW jx, DOMAIN jx = DOMAIN ix \cup {k},
         \A j \in DOMAIN ix \ {k} : jx[j] = ix[j],
         jx[k].last_access = n, jx[k].size \in StoredSizes
  PROVE  Timely(jx, n + 1)
<1>1. IsFiniteSet(DOMAIN jx)
  BY FS_AddElement DEF Timely
<1>2. ASSUME NEW j \in DOMAIN ix
      PROVE  ix[j].last_access \in Nat /\ ix[j].last_access < n /\ ix[j].size \in StoredSizes
  BY IndexFacts DEF Meta, Timely
<1>3. ASSUME NEW j \in DOMAIN jx
      PROVE  jx[j].last_access < n + 1 /\ jx[j].size \in StoredSizes
  BY <1>2
<1>4. ASSUME NEW i \in DOMAIN jx, NEW j \in DOMAIN jx,
             jx[i].last_access = jx[j].last_access
      PROVE  i = j
  BY <1>2, <1>4 DEF Timely
<1>5. QED
  BY <1>1, <1>3, <1>4 DEF Timely

\* So is one that is used again.
LEMMA TouchedIsTimely ==
  ASSUME NEW ix, IsIndex(ix), NEW n \in Nat, Timely(ix, n), NEW key,
         NEW jx, jx = [k \in DOMAIN ix |->
                         IF k = key THEN [ix[k] EXCEPT !.last_access = n] ELSE ix[k]]
  PROVE  Timely(jx, n + 1)
<1>1. IsFiniteSet(DOMAIN jx)
  BY DEF Timely
<1>2. ASSUME NEW j \in DOMAIN ix
      PROVE  ix[j].last_access \in Nat /\ ix[j].last_access < n /\ ix[j].size \in StoredSizes
  BY IndexFacts DEF Meta, Timely
<1>3. ASSUME NEW j \in DOMAIN ix
      PROVE  /\ jx[j].size = ix[j].size
             /\ jx[j].last_access = IF j = key THEN n ELSE ix[j].last_access
  BY IndexFacts DEF Meta
<1>4. DOMAIN jx = DOMAIN ix
  OBVIOUS
<1>5. ASSUME NEW j \in DOMAIN ix
      PROVE  jx[j].last_access < n + 1 /\ jx[j].size \in StoredSizes
  BY <1>2, <1>3
<1>6. ASSUME NEW i \in DOMAIN ix, NEW j \in DOMAIN ix,
             jx[i].last_access = jx[j].last_access
      PROVE  i = j
  BY <1>2, <1>3, <1>6 DEF Timely
<1>7. QED
  BY <1>1, <1>4, <1>5, <1>6 DEF Timely

\* The ticks are numbers; what is handed out makes the next one greater.
LEMMA TickFacts ==
  ASSUME TypeOK PROVE next_tick \in Nat /\ next_tick >= now /\ next_tick > clock
BY DEF TypeOK, MemoryTypes, next_tick

\* A tick taken is new, and the next one is newer.
LEMMA TickTaken ==
  ASSUME TypeOK, clock' = next_tick, now' = now PROVE next_tick' = next_tick + 1
BY DEF TypeOK, MemoryTypes, next_tick

\* One of the copies of the index, or an empty one.
Copy(ix) ==
  \/ ix = Empty \/ ix = index
  \/ ix # Absent /\ ix \in {files[IndexFile], temps[IndexFile]}
  \/ \E t \in Tasks : ix = shot[t]

\* They are timely.
LEMMA CopiesAreTimely ==
  ASSUME TypeOK, TicksDiffer PROVE \A ix : Copy(ix) => IsIndex(ix) /\ Timely(ix, next_tick)
BY EmptyIsTimely, EmptyIsIndex
   DEF Copy, TicksDiffer, TypeOK, Stored, MemoryTypes, WorkTypes

\* A load of the index returns a copy of it.
LEMMA SavedIsCopy == Copy(SavedIndex)
BY DEF Copy, SavedIndex

\* What a step makes of the copies.
LEMMA TicksAfter ==
  ASSUME TypeOK, TypeOK', TicksDiffer, next_tick <= next_tick',
         Timely(index', next_tick'),
         files'[IndexFile] # Absent =>
           Copy(files'[IndexFile]) \/ Timely(files'[IndexFile], next_tick'),
         temps'[IndexFile] # Absent =>
           Copy(temps'[IndexFile]) \/ Timely(temps'[IndexFile], next_tick'),
         \A t \in Tasks : Copy(shot'[t]) \/ Timely(shot'[t], next_tick')
  PROVE  TicksDiffer'
<1>1. next_tick \in Nat /\ next_tick' \in Nat
  BY DEF TypeOK, MemoryTypes, next_tick
<1>2. ASSUME NEW ix, Copy(ix) PROVE Timely(ix, next_tick')
  BY <1>1, <1>2, CopiesAreTimely, TimelyLater
<1>3. QED
  BY <1>2 DEF TicksDiffer

\* A step of a task that only passes copies on.
LEMMA PassingOn ==
  ASSUME TypeOK, TypeOK', TicksDiffer, UNCHANGED << now, clock >>,
         NEW t \in Tasks, OnlyTask(t), Copy(index'), Copy(shot'[t]),
         files'[IndexFile] # Absent => Copy(files'[IndexFile]),
         temps'[IndexFile] # Absent => Copy(temps'[IndexFile])
  PROVE  TicksDiffer'
<1>1. next_tick' = next_tick /\ next_tick \in Nat
  BY DEF TypeOK, MemoryTypes, next_tick
<1>2. Timely(index', next_tick')
  BY <1>1, CopiesAreTimely
<1>3. ASSUME NEW u \in Tasks PROVE Copy(shot'[u])
  BY DEF OnlyTask, Keeps, Copy
<1>4. QED
  BY <1>1, <1>2, <1>3, TicksAfter

\* A step of a task that saves an index writes nothing else.
LEMMA SavingTicks ==
  ASSUME TypeOK, TypeOK', TicksDiffer, NEW t \in Tasks, OnlyTask(t), NEW ix, SaveIndex(t, ix),
         next_tick <= next_tick', Timely(ix, next_tick'), UNCHANGED disk
  PROVE  TicksDiffer'
<1>1. index' = ix /\ shot'[t] = ix /\ UNCHANGED << files, temps >>
  BY DEF SaveIndex, TypeOK, WorkTypes, disk
<1>2. ASSUME NEW u \in Tasks, u # t PROVE Copy(shot'[u])
  BY <1>2 DEF OnlyTask, Keeps, Copy
<1>3. /\ files'[IndexFile] # Absent => Copy(files'[IndexFile])
      /\ temps'[IndexFile] # Absent => Copy(temps'[IndexFile])
  BY <1>1 DEF Copy
<1>4. QED
  BY <1>1, <1>2, <1>3, TicksAfter

\* The entry a set puts into the index carries the tick it takes.
LEMMA InsertTicks ==
  ASSUME TypeOK, TasksKnow, TypeOK', TicksDiffer, NEW t \in Tasks, OnlyTask(t), Insert(t)
  PROVE  TicksDiffer'
<1> DEFINE k == call[t].key
           ix == [j \in DOMAIN index \cup {k} |-> IF j = k THEN MetaOf(call[t]) ELSE index[j]]
           kept == Restricted(ix, DOMAIN ix \ collect_evictions(ix, k))
<1>1. /\ SaveIndex(t, kept) /\ pc[t] = "insert" /\ UNCHANGED disk
      /\ clock' = next_tick /\ now' = now
  BY DEF Insert
<1>2. next_tick \in Nat /\ next_tick' = next_tick + 1
  BY <1>1, TickFacts, TickTaken
<1>3. /\ call[t] \in SetCall /\ call[t].value \in Values
      /\ IsIndex(index) /\ Timely(index, next_tick)
  <2>1. call[t] \in Call /\ Knows(t)
    BY DEF TypeOK, WorkTypes, TasksKnow
  <2>2. QED
    BY <1>1, <2>1, CallFacts DEF Knows, Where, TypeOK, MemoryTypes, TicksDiffer
<1>4. /\ MetaOf(call[t]) \in Meta /\ MetaOf(call[t]).last_access = next_tick
      /\ MetaOf(call[t]).size \in StoredSizes
  BY <1>3, MetaOfType DEF MetaOf, StoredSizes
<1>5. Timely(ix, next_tick')
  <2>1. /\ DOMAIN ix = DOMAIN index \cup {k} /\ ix[k] = MetaOf(call[t])
        /\ \A j \in DOMAIN index \ {k} : ix[j] = index[j]
    OBVIOUS
  <2> HIDE DEF ix, k
  <2>2. ix[k].last_access = next_tick /\ ix[k].size \in StoredSizes
    BY <1>4, <2>1
  <2>3. QED
    BY <1>2, <1>3, <2>1, <2>2, ExtendedIsTimely
<1> HIDE DEF ix
<1>6. Timely(kept, next_tick')
  BY <1>5, RestrictedIsTimely
<1> HIDE DEF kept
<1>7. next_tick <= next_tick'
  BY <1>2
<1>8. QED
  BY <1>1, <1>6, <1>7, SavingTicks

\* So does the entry a get was for.
LEMMA TouchTicks ==
  ASSUME TypeOK, TypeOK', TicksDiffer, NEW t \in Tasks, OnlyTask(t), Touch(t)
  PROVE  TicksDiffer'
<1> DEFINE ix == [k \in DOMAIN index |->
                    IF k = call[t].key THEN [index[k] EXCEPT !.last_access = next_tick]
                    ELSE index[k]]
<1>1. SaveIndex(t, ix) /\ UNCHANGED disk /\ clock' = next_tick /\ now' = now
  BY DEF Touch
<1>2. next_tick \in Nat /\ next_tick' = next_tick + 1
  BY <1>1, TickFacts, TickTaken
<1>3. IsIndex(index) /\ Timely(index, next_tick)
  BY DEF TypeOK, MemoryTypes, TicksDiffer
<1>4. Timely(ix, next_tick')
  BY <1>2, <1>3, TouchedIsTimely
<1> HIDE DEF ix
<1>5. next_tick <= next_tick'
  BY <1>2
<1>6. QED
  BY <1>1, <1>4, <1>5, SavingTicks

\* Deleting an entry takes no tick, loading and writing an index neither.
LEMMA DeleteTicks ==
  ASSUME TypeOK, TypeOK', TicksDiffer, NEW t \in Tasks, OnlyTask(t), Delete(t)
  PROVE  TicksDiffer'
<1>1. UNCHANGED << now, clock, disk >>
  BY DEF Delete
<1>2. next_tick' = next_tick /\ next_tick \in Nat
  BY <1>1, TickFacts DEF next_tick
<1>3. ASSUME NEW k, SaveIndex(t, Restricted(index, DOMAIN index \ {k})) PROVE TicksDiffer'
  <2>1. Timely(Restricted(index, DOMAIN index \ {k}), next_tick')
    BY <1>2, RestrictedIsTimely DEF TicksDiffer
  <2>2. next_tick <= next_tick'
    BY <1>2
  <2>3. QED
    BY <1>1, <1>3, <2>1, <2>2, SavingTicks
<1>4. CASE UNCHANGED index /\ (Finish(t) \/ UNCHANGED shot)
  <2>1. Copy(index') /\ Copy(shot'[t])
    BY <1>4 DEF Copy, Finish, TypeOK, WorkTypes
  <2>2. QED
    BY <1>1, <2>1, PassingOn DEF Copy, disk
<1>5. QED
  BY <1>3, <1>4 DEF Delete

\* What is moved, written or removed is a copy of the index or none.
LEMMA FileTicks ==
  ASSUME TypeOK, TasksKnow, TypeOK', TicksDiffer, NEW t \in Tasks, OnlyTask(t),
         WriteTemp(t) \/ Rename(t) \/ RemoveTarget(t) \/ RenameAgain(t)
  PROVE  TicksDiffer'
<1> DEFINE f == call[t].file
<1>1. /\ UNCHANGED << now, memory >> /\ (Finish(t) \/ UNCHANGED work)
      /\ pc[t] \in {"write", "rename", "replace", "again"}
  BY DEF WriteTemp, Rename, RemoveTarget, RenameAgain, MoveTemp
<1>2. f \in Files /\ DOMAIN files = Files /\ DOMAIN temps = Files
  BY <1>1, ContentFits DEF TypeOK, Stored
<1>3. Copy(index') /\ Copy(shot'[t]) /\ UNCHANGED << now, clock >>
  BY <1>1 DEF Copy, Finish, TypeOK, WorkTypes, memory, work
<1>4. /\ \/ files' = files \/ files' = [files EXCEPT ![f] = Absent]
         \/ files' = [files EXCEPT ![f] = temps[f]]
      /\ \/ temps' = temps \/ temps' = [temps EXCEPT ![f] = Absent]
         \/ temps' = [temps EXCEPT ![f] = Content(t)]
  BY DEF WriteTemp, Rename, RemoveTarget, RenameAgain, MoveTemp
<1>5. files'[IndexFile] # Absent => Copy(files'[IndexFile])
  BY <1>2, <1>4 DEF Copy, Files
<1>6. f = IndexFile => Content(t) = shot[t]
  BY DEF Content
<1>7. temps'[IndexFile] # Absent => Copy(temps'[IndexFile])
  BY <1>2, <1>4, <1>6 DEF Copy, Files
<1>8. QED
  BY <1>3, <1>5, <1>7, PassingOn

\* Loading, reading and clearing pass copies on.
LEMMA QuietTicks ==
  ASSUME TypeOK, TasksKnow, TypeOK', TicksDiffer, NEW t \in Tasks, OnlyTask(t),
         \/ MakeDirs(t) \/ ReadIndex(t) \/ InstallIndex(t) \/ Unlink(t) \/ Look(t)
         \/ ReadEntry(t) \/ Purge(t) \/ Reload(t) \/ Wipe(t) \/ Reset(t) \/ Emptied(t)
         \/ Begins(t)
  PROVE  TicksDiffer'
<1>1. UNCHANGED << now, clock >>
  BY DEF MakeDirs, ReadIndex, InstallIndex, Unlink, Look, ReadEntry, Purge, Reload, Wipe,
         Reset, Emptied, Begins, BeginSet, BeginRead, BeginDelete, BeginOther, memory
<1>2. index' \in {index, shot[t], Empty}
  BY DEF MakeDirs, ReadIndex, InstallIndex, Unlink, Look, ReadEntry, Purge, Reload, Wipe,
         Reset, Emptied, Begins, BeginSet, BeginRead, BeginDelete, BeginOther, memory
<1>3. shot' = shot \/ shot' = [shot EXCEPT ![t] = SavedIndex] \/ shot' = [shot EXCEPT ![t] = Empty]
  BY DEF MakeDirs, ReadIndex, InstallIndex, Unlink, Look, ReadEntry, Purge, Reload, Wipe,
         Reset, Emptied, Begins, BeginSet, BeginRead, BeginDelete, BeginOther, work, Finish,
         GiveUpOn
<1>4. \/ UNCHANGED << files, temps >>
      \/ files' = [g \in Files |-> Absent] /\ temps' = files'
      \/ temps' = temps /\ \E k \in unlinking[t] : files' = [files EXCEPT ![k] = Absent]
  BY DEF MakeDirs, ReadIndex, InstallIndex, Unlink, Look, ReadEntry, Purge, Reload, Wipe,
         Reset, Emptied, Begins, BeginSet, BeginRead, BeginDelete, BeginOther, disk
<1>5. Copy(index')
  BY <1>2 DEF Copy
<1>6. Copy(shot'[t])
  BY <1>3, SavedIsCopy DEF Copy, TypeOK, WorkTypes
<1>7. /\ files'[IndexFile] # Absent => Copy(files'[IndexFile])
      /\ temps'[IndexFile] # Absent => Copy(temps'[IndexFile])
  <2>1. unlinking[t] \subseteq Files /\ files = [g \in Files |-> files[g]] /\ IndexFile \in Files
    BY DEF TypeOK, WorkTypes, Stored, Files
  <2>2. QED
    BY <1>4, <2>1 DEF Copy
<1>8. QED
  BY <1>1, <1>5, <1>6, <1>7, PassingOn

\* A restart starts the ticks after the last one handed out.
LEMMA RestartTicks ==
  ASSUME TypeOK, TypeOK', TicksDiffer, Restart \/ Open \/ PassTime \/ UNCHANGED vars
  PROVE  TicksDiffer'
<1>1. CASE Restart
  <2>1. /\ index' = Empty /\ UNCHANGED files /\ temps' = [f \in Files |-> Absent]
        /\ \A t \in Tasks : shot'[t] = Empty
    BY <1>1 DEF Restart
  <2>2. next_tick <= next_tick'
    BY <1>1 DEF Restart, TypeOK, MemoryTypes, next_tick
  <2>3. /\ Copy(Empty) /\ temps'[IndexFile] = Absent
        /\ files'[IndexFile] # Absent => Copy(files'[IndexFile])
    BY <2>1 DEF Copy, Files
  <2>4. QED
    BY <2>1, <2>2, <2>3, EmptyIsTimely, TicksAfter
<1>2. CASE Open \/ PassTime \/ UNCHANGED vars
  <2>1. UNCHANGED << index, shot, files, temps, clock >> /\ now <= now'
    BY <1>2 DEF Open, PassTime, vars, memory, disk, work, TypeOK, MemoryTypes
  <2>2. next_tick <= next_tick' /\ next_tick \in Nat /\ next_tick' \in Nat
    BY <2>1 DEF TypeOK, MemoryTypes, next_tick
  <2>3. Timely(index', next_tick')
    BY <2>1, <2>2, TimelyLater DEF TicksDiffer, TypeOK, MemoryTypes
  <2>4. /\ files'[IndexFile] # Absent => Copy(files'[IndexFile])
        /\ temps'[IndexFile] # Absent => Copy(temps'[IndexFile])
        /\ \A t \in Tasks : Copy(shot'[t])
    BY <2>1 DEF Copy
  <2>5. QED
    BY <2>2, <2>3, <2>4, TicksAfter
<1>3. QED
  BY <1>1, <1>2

\* Nothing brings two entries of the same recency together.
LEMMA NextTicks == UseOK /\ TypeOK /\ TasksKnow /\ TicksDiffer /\ [Next]_vars => TicksDiffer'
<1> SUFFICES ASSUME UseOK, TypeOK, TasksKnow, TicksDiffer, [Next]_vars PROVE TicksDiffer'
  OBVIOUS
<1>1. TypeOK'
  BY NextTypes
<1>2. ASSUME NEW t \in Tasks, Work(t) \/ Begins(t) PROVE TicksDiffer'
  <2>1. OnlyTask(t)
    BY <1>2, TaskTypes
  <2>2. QED
    BY <1>1, <1>2, <2>1, QuietTicks, FileTicks, InsertTicks, TouchTicks, DeleteTicks DEF Work
<1>3. QED
  BY <1>1, <1>2, RestartTicks, Steps

\* Nothing was used before the first use.
LEMMA InitTicks == Init => TicksDiffer
BY EmptyIsTimely DEF Init, TicksDiffer, Files

\* The recency of entries is a total order, however operations interleave and
\* whenever the process is killed.
THEOREM TicksGrow == Spec => [](TicksDiffer /\ RecencyIsTotal)
<1>1. TypeOK /\ TicksDiffer => RecencyIsTotal
  BY CopiesAreTimely, SavedIsCopy DEF RecencyIsTotal, Timely, Copy
<1>2. QED
  BY <1>1, InitTicks, NextTicks, CacheTypeCorrect, PTL DEF Spec

-----------------------------------------------------------------------------
(* Eviction.                                                               *)

\* k was used last in an index in which no two entries were used at once.
LastUsed(ix, k) ==
  /\ IsIndex(ix) /\ IsFiniteSet(DOMAIN ix) /\ k \in DOMAIN ix
  /\ \A j \in DOMAIN ix \ {k} : ix[j].last_access < ix[k].last_access
  /\ \A i, j \in DOMAIN ix : ix[i].last_access = ix[j].last_access => i = j

\* All other entries were used before those of keys.
UsedLast(ix, keys) ==
  \A j \in keys, i \in DOMAIN ix \ keys : ix[i].last_access < ix[j].last_access

\* Among some entries one was used first.
LEMMA OldestExists ==
  ASSUME NEW ix, IsIndex(ix), NEW S, S \subseteq DOMAIN ix, S # {}
  PROVE  \E m \in S : \A j \in S : ix[m].last_access <= ix[j].last_access
<1> DEFINE T == {ix[j].last_access : j \in S}
<1>1. \A j \in S : ix[j].last_access \in Nat
  BY IndexFacts DEF Meta
<1> DEFINE R == {p \in Nat \X Nat : p[1] < p[2]}
<1>2. T \subseteq Nat /\ T # {} /\ IsWellFoundedOn(R, Nat)
  BY <1>1, NatLessThanWellFounded DEF OpToRel
<1> HIDE DEF T, R
<1>3. PICK x \in T : \A y \in T : <<y, x>> \notin R
  BY <1>2, WFMin
<1>4. ASSUME NEW y \in T PROVE x <= y
  <2>1. x \in Nat /\ y \in Nat /\ <<y, x>> \notin R
    BY <1>2, <1>3
  <2>2. ~(y < x)
    BY <2>1 DEF R
  <2>3. QED
    BY <2>1, <2>2
<1>5. QED
  BY <1>4 DEF T

\* W weighs sets of entries: what is left weighs what is not taken away.
Weighs(ix, W) ==
  /\ \A S \in SUBSET DOMAIN ix : W[S] \in Nat
  /\ \A S \in SUBSET DOMAIN ix, T \in SUBSET DOMAIN ix :
       T \subseteq S => W[S \ T] = W[S] - W[T]

\* The entries from which on the entries of an index but keep outweigh a limit.
Outweighing(ix, keep, W, limit) ==
  {j \in DOMAIN ix \ {keep} : W[DOMAIN ix] - W[OlderThan(ix, j, keep)] > limit}

\* The oldest entries go as long as the rest outweighs a limit.  Then the entry
\* just used is left, what is left was used last, it meets the limit unless it is
\* that entry alone, and no more of the last entries would have met it.
LEMMA LimitEvicts ==
  ASSUME NEW ix, NEW k, LastUsed(ix, k), NEW W, Weighs(ix, W), NEW limit \in Nat,
         NEW kept, kept = DOMAIN ix \ Outweighing(ix, k, W, limit)
  PROVE  /\ k \in kept /\ kept \subseteq DOMAIN ix
         /\ UsedLast(ix, kept)
         /\ W[kept] <= limit \/ kept = {k}
         /\ \A more \in SUBSET DOMAIN ix :
              UsedLast(ix, more) /\ W[more] <= limit => more \subseteq kept
<1> DEFINE D == DOMAIN ix
           older(j) == OlderThan(ix, j, k)
           over == Outweighing(ix, k, W, limit)
<1>0. /\ \A S \in SUBSET D : W[S] \in Nat
      /\ \A S \in SUBSET D, T \in SUBSET D : T \subseteq S => W[S \ T] = W[S] - W[T]
      /\ over = {j \in D \ {k} : W[D] - W[older(j)] > limit}
  BY DEF Weighs, Outweighing
<1> HIDE DEF over
<1>1. \A j \in D : ix[j].last_access \in Nat /\ older(j) \in SUBSET D
  BY IndexFacts DEF LastUsed, Meta, OlderThan
<1>2. ASSUME NEW S \in SUBSET D, NEW T \in SUBSET D, T \subseteq S
      PROVE  W[T] <= W[S] /\ W[T] \in Nat /\ W[S] \in Nat
  <2>1. W[S \ T] = W[S] - W[T] /\ W[S \ T] \in Nat /\ W[S] \in Nat /\ W[T] \in Nat
    BY <1>0, <1>2
  <2>2. QED
    BY <2>1
<1>3. k \in kept /\ kept \subseteq D /\ kept = D \ over
  BY <1>0 DEF LastUsed, over
<1>4. ASSUME NEW j \in kept, NEW i \in D \ kept
      PROVE  ix[i].last_access < ix[j].last_access
  <2>1. i \in over /\ i # k
    BY <1>0, <1>3
  <2>2. CASE j = k
    BY <2>1, <2>2 DEF LastUsed
  <2>3. CASE j # k
    <3>1. SUFFICES ASSUME ix[j].last_access <= ix[i].last_access PROVE FALSE
      BY <1>1
    <3>2. older(j) \subseteq older(i)
      BY <1>1, <3>1, IndexFacts DEF OlderThan
    <3>3. W[older(j)] <= W[older(i)] /\ W[older(j)] \in Nat /\ W[older(i)] \in Nat
      BY <1>1, <1>2, <3>2
    <3>4. W[D] - W[older(i)] > limit /\ W[D] \in Nat
      BY <1>0, <2>1
    <3>5. W[D] - W[older(j)] > limit
      BY <3>3, <3>4
    <3>6. QED
      BY <1>0, <1>3, <2>3, <3>5
  <2>4. QED
    BY <2>2, <2>3
<1>5. ASSUME kept # {k} PROVE W[kept] <= limit
  <2> DEFINE others == kept \ {k}
  <2>0. others \subseteq DOMAIN ix /\ others # {} /\ IsIndex(ix)
    BY <1>3, <1>5 DEF LastUsed
  <2>1. PICK m \in others : \A j \in others : ix[m].last_access <= ix[j].last_access
    <3> HIDE DEF others
    <3>1. QED
      BY <2>0, OldestExists
  <2>2. kept \subseteq D \ older(m)
    BY <1>1, <2>1 DEF OlderThan
  <2>3. /\ W[kept] <= W[D \ older(m)] /\ W[D \ older(m)] = W[D] - W[older(m)]
        /\ W[kept] \in Nat /\ W[D] \in Nat /\ W[older(m)] \in Nat
    BY <1>0, <1>1, <1>2, <2>2
  <2>4. ~(W[D] - W[older(m)] > limit)
    BY <1>0, <1>3, <2>1
  <2>5. QED
    BY <2>3, <2>4
<1>6. ASSUME NEW more \in SUBSET D, UsedLast(ix, more), W[more] <= limit, NEW j \in more
      PROVE  j \in kept
  <2>1. SUFFICES ASSUME j \in over PROVE FALSE
    BY <1>3
  <2>2. W[D] - W[older(j)] > limit /\ j # k /\ j \in D
    BY <1>0, <2>1
  <2>3. D \ older(j) \subseteq more
    <3>1. SUFFICES ASSUME NEW i \in D, i \notin more PROVE i \in older(j)
      OBVIOUS
    <3>2. ix[i].last_access < ix[j].last_access
      BY <1>6, <3>1 DEF UsedLast
    <3>3. i # k
      BY <1>1, <2>2, <3>2 DEF LastUsed
    <3>4. QED
      BY <3>2, <3>3 DEF OlderThan
  <2>4. /\ W[D \ older(j)] <= W[more] /\ W[D \ older(j)] = W[D] - W[older(j)]
        /\ W[more] \in Nat /\ W[D] \in Nat /\ W[older(j)] \in Nat
    BY <1>0, <1>1, <1>2, <2>3
  <2>5. QED
    BY <1>6, <2>2, <2>4
<1>7. UsedLast(ix, kept)
  BY <1>4 DEF UsedLast
<1>8. QED
  BY <1>3, <1>5, <1>6, <1>7

\* Its bytes, each with the key it is under.
BytesOf(ix, keys) == UNION {{k} \X (1..ix[k].size) : k \in keys}

\* Every byte belongs to one entry.
LEMMA BytesFacts ==
  ASSUME NEW ix, NEW S, NEW T, T \subseteq S
  PROVE  /\ BytesOf(ix, S) = BytesOf(ix, T) \cup BytesOf(ix, S \ T)
         /\ BytesOf(ix, T) \cap BytesOf(ix, S \ T) = {}
<1>1. ASSUME NEW U, NEW b \in BytesOf(ix, U)
      PROVE  b[1] \in U /\ b \in {b[1]} \X (1..ix[b[1]].size)
  BY DEF BytesOf
<1>2. ASSUME NEW U, NEW b, b[1] \in U, b \in {b[1]} \X (1..ix[b[1]].size)
      PROVE  b \in BytesOf(ix, U)
  BY <1>2 DEF BytesOf
<1>3. ASSUME NEW b PROVE b \in BytesOf(ix, S) <=> b \in BytesOf(ix, T) \/ b \in BytesOf(ix, S \ T)
  BY <1>1, <1>2
<1>4. ASSUME NEW b PROVE ~(b \in BytesOf(ix, T) /\ b \in BytesOf(ix, S \ T))
  BY <1>1
<1>5. QED
  BY <1>3, <1>4

\* Finitely many entries have finitely many bytes.
LEMMA BytesAreFinite ==
  ASSUME NEW ix, IsIndex(ix), NEW S, S \subseteq DOMAIN ix, IsFiniteSet(S)
  PROVE  IsFiniteSet(BytesOf(ix, S))
<1> DEFINE of(k) == {k} \X (1..ix[k].size)
           all == {of(k) : k \in S}
           f == [k \in S |-> of(k)]
<1>1. \A k \in S : ix[k].size \in Nat
  BY IndexFacts DEF Meta
<1>2. ASSUME NEW k \in S PROVE IsFiniteSet(of(k))
  <2>1. 1 \in Int /\ ix[k].size \in Int
    BY <1>1
  <2>2. IsFiniteSet({k}) /\ IsFiniteSet(1..ix[k].size)
    BY <2>1, FS_Singleton, FS_Interval
  <2>3. QED
    BY <2>2, FS_Product
<1> HIDE DEF of
<1>3. f \in Surjection(S, all)
  BY DEF Surjection
<1>4. IsFiniteSet(all)
  BY <1>3, FS_Surjection
<1>5. IsFiniteSet(UNION all)
  BY <1>2, <1>4, FS_UNION
<1>6. QED
  BY <1>5 DEF BytesOf, of

\* The sizes of what is left are the sizes of all without those of the others.
LEMMA SizesAdd ==
  ASSUME NEW ix, IsIndex(ix), NEW S, S \subseteq DOMAIN ix, IsFiniteSet(S),
         NEW T, T \subseteq S
  PROVE  /\ TotalSize(ix, S \ T) = TotalSize(ix, S) - TotalSize(ix, T)
         /\ TotalSize(ix, S) \in Nat
<1> DEFINE A == BytesOf(ix, T)
           B == BytesOf(ix, S \ T)
<1>1. IsFiniteSet(T) /\ IsFiniteSet(S \ T)
  BY FS_Subset
<1>2. IsFiniteSet(A) /\ IsFiniteSet(B)
  BY <1>1, BytesAreFinite
<1>3. BytesOf(ix, S) = A \cup B /\ A \cap B = {}
  BY BytesFacts
<1> HIDE DEF A, B
<1>4. /\ Cardinality(BytesOf(ix, S)) = Cardinality(A) + Cardinality(B)
      /\ Cardinality(A) \in Nat /\ Cardinality(B) \in Nat
  <2>1. Cardinality(A \cup B) = Cardinality(A) + Cardinality(B) - Cardinality({})
    BY <1>2, <1>3, FS_Union
  <2>2. Cardinality(A) \in Nat /\ Cardinality(B) \in Nat /\ Cardinality({}) = 0
    BY <1>2, FS_EmptySet, FS_CardinalityType
  <2>3. QED
    BY <1>3, <2>1, <2>2
<1>5. QED
  BY <1>4 DEF A, B, TotalSize, BytesOf

\* Restricting an index changes no sizes.
LEMMA SizesOfRestricted ==
  ASSUME NEW ix, NEW S, NEW T, T \subseteq S
  PROVE  TotalSize(Restricted(ix, S), T) = TotalSize(ix, T)
<1>1. \A k \in T : Restricted(ix, S)[k] = ix[k]
  BY DEF Restricted
<1>2. QED
  BY <1>1 DEF TotalSize

\* The limits keep keys.
WithinCount(keys) ==
  policy.max_entries = NoLimit \/ Cardinality(keys) <= policy.max_entries

WithinBytes(ix, keys) ==
  policy.max_bytes = NoLimit \/ TotalSize(ix, keys) <= policy.max_bytes

\* What the limit on entries takes.
LEMMA CountEvicts ==
  ASSUME policy \in Policies, NEW ix, NEW k, LastUsed(ix, k),
         NEW kept, kept = DOMAIN ix \ OverCount(ix, k)
  PROVE  /\ k \in kept /\ kept \subseteq DOMAIN ix
         /\ UsedLast(ix, kept)
         /\ WithinCount(kept) \/ kept = {k}
         /\ \A more \in SUBSET DOMAIN ix :
              UsedLast(ix, more) /\ WithinCount(more) => more \subseteq kept
<1> DEFINE limit == policy.max_entries
<1>1. limit \in Nat \/ limit = NoLimit
  BY CacheAssumption
<1>2. CASE limit = NoLimit
  BY <1>2 DEF OverCount, UsedLast, WithinCount, LastUsed
<1>3. CASE limit \in Nat
  <2> DEFINE D == DOMAIN ix
             W == [S \in SUBSET D |-> Cardinality(S)]
             over == OverCount(ix, k)
  <2>1. ASSUME NEW S \in SUBSET D PROVE IsFiniteSet(S) /\ W[S] \in Nat /\ W[S] = Cardinality(S)
    BY FS_Subset, FS_CardinalityType DEF LastUsed
  <2>2. ASSUME NEW S \in SUBSET D, NEW T \in SUBSET D, T \subseteq S
        PROVE  W[S \ T] = W[S] - W[T]
    <3>1. S \cap T = T /\ S \ T \in SUBSET D
      BY <2>2
    <3>2. Cardinality(S \ T) = Cardinality(S) - Cardinality(S \cap T)
      BY <2>1, FS_Difference
    <3>3. QED
      BY <2>1, <3>1, <3>2
  <2>3. limit # NoLimit
    BY <1>3, CacheAssumption
  <2>4. \A j \in D \ {k} : OlderThan(ix, j, k) \in SUBSET D
    BY DEF OlderThan
  <2>5. over = {j \in D \ {k} : Cardinality(OlderThan(ix, j, k)) < Cardinality(D) - limit}
    BY <2>3 DEF OverCount
  <2>6. D \in SUBSET D
    OBVIOUS
  <2> HIDE DEF W, over
  <2>7. ASSUME NEW j \in D \ {k}
        PROVE  /\ Cardinality(OlderThan(ix, j, k)) < Cardinality(D) - limit
                    <=> W[D] - W[OlderThan(ix, j, k)] > limit
    <3>1. /\ W[D] \in Nat /\ W[D] = Cardinality(D)
          /\ W[OlderThan(ix, j, k)] \in Nat
          /\ W[OlderThan(ix, j, k)] = Cardinality(OlderThan(ix, j, k))
      BY <2>1, <2>4, <2>6
    <3>2. QED
      BY <1>3, <3>1
  <2>8. over = {j \in D \ {k} : W[D] - W[OlderThan(ix, j, k)] > limit}
    BY <2>5, <2>7
  <2>9. kept = D \ Outweighing(ix, k, W, limit)
    BY <2>8 DEF over, Outweighing
  <2>10. Weighs(ix, W)
    BY <2>1, <2>2 DEF Weighs
  <2> HIDE DEF limit
  <2>11. /\ k \in kept /\ kept \subseteq D /\ UsedLast(ix, kept)
         /\ W[kept] <= limit \/ kept = {k}
         /\ \A more \in SUBSET D : UsedLast(ix, more) /\ W[more] <= limit => more \subseteq kept
    BY <1>3, <2>9, <2>10, LimitEvicts
  <2>12. \A S \in SUBSET D : WithinCount(S) <=> W[S] <= limit
    BY <2>1, <2>3 DEF WithinCount, limit
  <2>13. QED
    BY <2>11, <2>12
<1>4. QED
  BY <1>1, <1>2, <1>3

\* What the limit on bytes takes.
LEMMA BytesEvicts ==
  ASSUME policy \in Policies, NEW ix, NEW k, LastUsed(ix, k),
         NEW kept, kept = DOMAIN ix \ OverBytes(ix, k)
  PROVE  /\ k \in kept /\ kept \subseteq DOMAIN ix
         /\ UsedLast(ix, kept)
         /\ WithinBytes(ix, kept) \/ kept = {k}
         /\ \A more \in SUBSET DOMAIN ix :
              UsedLast(ix, more) /\ WithinBytes(ix, more) => more \subseteq kept
<1> DEFINE limit == policy.max_bytes
<1>1. limit \in Nat \/ limit = NoLimit
  BY CacheAssumption
<1>2. CASE limit = NoLimit
  BY <1>2 DEF OverBytes, UsedLast, WithinBytes, LastUsed
<1>3. CASE limit \in Nat
  <2> DEFINE D == DOMAIN ix
             W == [S \in SUBSET D |-> TotalSize(ix, S)]
             over == OverBytes(ix, k)
  <2>1. ASSUME NEW S \in SUBSET D, NEW T \in SUBSET S
        PROVE  /\ TotalSize(ix, S \ T) = TotalSize(ix, S) - TotalSize(ix, T)
               /\ TotalSize(ix, S) \in Nat
    <3>1. IsFiniteSet(S)
      BY FS_Subset DEF LastUsed
    <3>2. QED
      BY <3>1, SizesAdd DEF LastUsed
  <2>2. limit # NoLimit
    BY <1>3, CacheAssumption
  <2>3. over = {j \in D \ {k} : TotalSize(ix, D) - TotalSize(ix, OlderThan(ix, j, k)) > limit}
    BY <2>2 DEF OverBytes
  <2>4. ASSUME NEW S \in SUBSET D PROVE W[S] = TotalSize(ix, S) /\ W[S] \in Nat
    <3>1. {} \in SUBSET S
      OBVIOUS
    <3>2. QED
      BY <2>1, <3>1
  <2>5. ASSUME NEW S \in SUBSET D, NEW T \in SUBSET D, T \subseteq S
        PROVE  W[S \ T] = W[S] - W[T]
    <3>1. S \ T \in SUBSET D /\ T \in SUBSET S
      BY <2>5
    <3>2. QED
      BY <2>1, <2>4, <3>1
  <2> HIDE DEF W, over
  <2>6. \A j \in D \ {k} : OlderThan(ix, j, k) \in SUBSET D
    BY DEF OlderThan
  <2>7. D \in SUBSET D
    OBVIOUS
  <2>8. over = {j \in D \ {k} : W[D] - W[OlderThan(ix, j, k)] > limit}
    BY <2>3, <2>4, <2>6, <2>7
  <2>9. kept = D \ Outweighing(ix, k, W, limit) /\ Weighs(ix, W)
    BY <2>4, <2>5, <2>8 DEF over, Outweighing, Weighs
  <2> HIDE DEF limit
  <2>10. /\ k \in kept /\ kept \subseteq D /\ UsedLast(ix, kept)
         /\ W[kept] <= limit \/ kept = {k}
         /\ \A more \in SUBSET D : UsedLast(ix, more) /\ W[more] <= limit => more \subseteq kept
    BY <1>3, <2>9, LimitEvicts
  <2>11. \A S \in SUBSET D : WithinBytes(ix, S) <=> W[S] <= limit
    BY <2>2, <2>4 DEF WithinBytes, limit
  <2>12. QED
    BY <2>10, <2>11
<1>4. QED
  BY <1>1, <1>2, <1>3

\* What both take, one after the other.
LEMMA Evicts ==
  ASSUME policy \in Policies, NEW ix, NEW k, LastUsed(ix, k),
         NEW kept, kept = DOMAIN ix \ collect_evictions(ix, k)
  PROVE  /\ k \in kept /\ kept \subseteq DOMAIN ix
         /\ UsedLast(ix, kept)
         /\ (WithinCount(kept) /\ WithinBytes(ix, kept)) \/ kept = {k}
         /\ \A more \in SUBSET DOMAIN ix :
              UsedLast(ix, more) /\ WithinCount(more) /\ WithinBytes(ix, more)
                => more \subseteq kept
<1> DEFINE D == DOMAIN ix
           S == D \ OverCount(ix, k)
           rest == Restricted(ix, S)
<1>1. /\ k \in S /\ S \subseteq D /\ UsedLast(ix, S)
      /\ WithinCount(S) \/ S = {k}
      /\ \A more \in SUBSET D : UsedLast(ix, more) /\ WithinCount(more) => more \subseteq S
  BY CountEvicts
<1>2. kept = S \ OverBytes(rest, k)
  BY DEF collect_evictions
<1> HIDE DEF S
<1>3. /\ IsIndex(rest) /\ DOMAIN rest = S /\ IsFiniteSet(S)
      /\ \A j \in S : rest[j] = ix[j]
  BY <1>1, RestrictedIsIndex, FS_Subset DEF LastUsed, Restricted
<1>4. \A T \in SUBSET S : TotalSize(rest, T) = TotalSize(ix, T)
  BY SizesOfRestricted
<1> HIDE DEF rest
<1>5. LastUsed(rest, k)
  BY <1>1, <1>3 DEF LastUsed
<1>6. /\ k \in kept /\ kept \subseteq S /\ UsedLast(rest, kept)
      /\ WithinBytes(rest, kept) \/ kept = {k}
      /\ \A more \in SUBSET S :
           UsedLast(rest, more) /\ WithinBytes(rest, more) => more \subseteq kept
  BY <1>2, <1>3, <1>5, BytesEvicts
<1>7. UsedLast(ix, kept)
  <2>1. ASSUME NEW j \in kept, NEW i \in D \ kept
        PROVE  ix[i].last_access < ix[j].last_access
    <3>1. CASE i \in S
      BY <1>3, <1>6, <3>1 DEF UsedLast
    <3>2. CASE i \notin S
      BY <1>1, <1>6, <3>2 DEF UsedLast
    <3>3. QED
      BY <3>1, <3>2
  <2>2. QED
    BY <2>1 DEF UsedLast
<1>8. (WithinCount(kept) /\ WithinBytes(ix, kept)) \/ kept = {k}
  <2>1. SUFFICES ASSUME kept # {k} PROVE WithinCount(kept) /\ WithinBytes(ix, kept)
    OBVIOUS
  <2>2. WithinCount(S) /\ WithinBytes(ix, kept)
    BY <1>1, <1>4, <1>6, <2>1 DEF WithinBytes
  <2>3. /\ Cardinality(kept) <= Cardinality(S)
        /\ Cardinality(kept) \in Nat /\ Cardinality(S) \in Nat
    BY <1>3, <1>6, FS_Subset, FS_CardinalityType
  <2>4. policy.max_entries \in Nat \/ policy.max_entries = NoLimit
    BY CacheAssumption
  <2>5. QED
    BY <2>2, <2>3, <2>4 DEF WithinCount
<1>9. ASSUME NEW more \in SUBSET D, UsedLast(ix, more), WithinCount(more), WithinBytes(ix, more)
      PROVE  more \subseteq kept
  <2>1. more \in SUBSET S
    BY <1>1, <1>9
  <2>2. UsedLast(rest, more)
    BY <1>1, <1>3, <1>9, <2>1 DEF UsedLast
  <2>3. WithinBytes(rest, more)
    BY <1>4, <1>9, <2>1 DEF WithinBytes
  <2>4. QED
    BY <1>6, <2>1, <2>2, <2>3
<1>10. QED
  BY <1>1, <1>6, <1>7, <1>8, <1>9

-----------------------------------------------------------------------------
(* The cache implements DurableLru.                                        *)

\* What its user sees of an index.
LEMMA RecencyFacts ==
  ASSUME NEW ix
  PROVE  /\ DOMAIN Recency(ix) = DOMAIN ix
         /\ \A k \in DOMAIN ix :
              /\ Recency(ix)[k].size = ix[k].size
              /\ Recency(ix)[k].older =
                   {j \in DOMAIN ix : ix[j].last_access < ix[k].last_access}
BY DEF Recency

\* An empty index is an empty cache.
LEMMA EmptyRecency == Recency(Empty) = Lru!Empty
BY DEF Recency, Empty, Lru!Empty

\* What is left of an index is what is left of the cache.
LEMMA OnlyRecency ==
  ASSUME NEW ix, NEW S, S \subseteq DOMAIN ix
  PROVE  Recency(Restricted(ix, S)) = Lru!Only(Recency(ix), S)
<1> DEFINE rx == Restricted(ix, S)
<1>1. DOMAIN rx = S /\ \A k \in S : rx[k] = ix[k]
  BY DEF Restricted
<1> HIDE DEF rx
<1> DEFINE older(k) == {j \in S : rx[j].last_access < rx[k].last_access}
           left(k) == [ size |-> Recency(ix)[k].size, older |-> Recency(ix)[k].older \cap S ]
<1>2. Recency(rx) = [k \in S |-> [size |-> rx[k].size, older |-> older(k)]]
  BY <1>1 DEF Recency
<1>3. ASSUME NEW k \in S PROVE [size |-> rx[k].size, older |-> older(k)] = left(k)
  <2>1. older(k) = Recency(ix)[k].older \cap S /\ rx[k].size = Recency(ix)[k].size
    BY <1>1, RecencyFacts
  <2>2. QED
    BY <2>1
<1>4. Recency(rx) = [k \in S |-> left(k)]
  <2> HIDE DEF older, left
  <2>1. QED
    BY <1>2, <1>3
<1>5. QED
  BY <1>4 DEF Lru!Only, rx

\* An entry that is used is the last one used.
LEMMA UsedRecency ==
  ASSUME NEW ix, IsIndex(ix), NEW jx, NEW k, NEW n \in Nat, Timely(ix, n),
         DOMAIN jx = DOMAIN ix \cup {k},
         \A j \in DOMAIN ix \ {k} : jx[j] = ix[j],
         jx[k].last_access = n
  PROVE  Recency(jx) = Lru!Used(Recency(ix), k, jx[k].size)
<1> DEFINE D == DOMAIN ix
           older(j) == {i \in D \cup {k} : jx[i].last_access < jx[j].last_access}
           used(j) == IF j = k THEN [size |-> jx[k].size, older |-> D \ {k}]
                      ELSE [ size |-> Recency(ix)[j].size,
                             older |-> Recency(ix)[j].older \ {k} ]
<1>1. \A j \in D : ix[j].last_access \in Nat /\ ix[j].last_access < n
  BY IndexFacts DEF Meta, Timely
<1>2. older(k) = D \ {k}
  BY <1>1
<1>3. ASSUME NEW j \in D, j # k
      PROVE  older(j) = Recency(ix)[j].older \ {k} /\ jx[j].size = Recency(ix)[j].size
  BY <1>1, <1>3, RecencyFacts
<1>4. ASSUME NEW j \in D \cup {k} PROVE [size |-> jx[j].size, older |-> older(j)] = used(j)
  BY <1>2, <1>3
<1>5. Recency(jx) = [j \in D \cup {k} |-> [size |-> jx[j].size, older |-> older(j)]]
  BY DEF Recency
<1> HIDE DEF older
<1>6. Recency(jx) = [j \in D \cup {k} |-> used(j)]
  <2> HIDE DEF used
  <2>1. QED
    BY <1>4, <1>5
<1>7. DOMAIN Recency(ix) = D
  BY RecencyFacts
<1>8. QED
  BY <1>6, <1>7 DEF Lru!Used

\* The limits are the same.
LEMMA FitsRecency ==
  ASSUME NEW ix, NEW S, S \subseteq DOMAIN ix
  PROVE  Lru!Fits(Recency(ix), S) <=> WithinCount(S) /\ WithinBytes(ix, S)
<1>1. \A k \in S : Recency(ix)[k].size = ix[k].size
  BY RecencyFacts
<1>2. Lru!Bytes(Recency(ix), S) = BytesOf(ix, S)
  BY <1>1 DEF Lru!Bytes, BytesOf
<1>3. TotalSize(ix, S) = Cardinality(BytesOf(ix, S))
  BY DEF TotalSize, BytesOf
<1>4. Lru!Fits(Recency(ix), S) <=>
        /\ Lru!Below(Cardinality(S), policy.max_entries)
        /\ Lru!Below(Cardinality(BytesOf(ix, S)), policy.max_bytes)
  <2>1. \A T : Lru!Cardinality(T) = Cardinality(T)
    BY DEF Lru!Cardinality, Cardinality
  <2>2. QED
    BY <1>2, <2>1 DEF Lru!Fits
<1>5. WithinCount(S) <=> Lru!Below(Cardinality(S), policy.max_entries)
  BY DEF Lru!Below, WithinCount
<1>6. WithinBytes(ix, S) <=> Lru!Below(Cardinality(BytesOf(ix, S)), policy.max_bytes)
  BY <1>3 DEF Lru!Below, WithinBytes
<1>7. QED
  BY <1>4, <1>5, <1>6

\* So are the newest entries.
LEMMA NewestRecency ==
  ASSUME NEW ix, NEW S, S \subseteq DOMAIN ix
  PROVE  Lru!Newest(Recency(ix), S) <=> UsedLast(ix, S)
BY RecencyFacts DEF Lru!Newest, UsedLast

\* What a set does to an index is what a put does to the cache.
LEMMA PutRecency ==
  ASSUME policy \in Policies, NEW ix, NEW jx, NEW k, NEW n, LastUsed(jx, k),
         Recency(jx) = Lru!Used(Recency(ix), k, n)
  PROVE  Lru!IsPut(Recency(ix), k, n,
                   Recency(Restricted(jx, DOMAIN jx \ collect_evictions(jx, k))))
<1> DEFINE kept == DOMAIN jx \ collect_evictions(jx, k)
           full == Recency(jx)
<1>1. /\ k \in kept /\ kept \subseteq DOMAIN jx /\ UsedLast(jx, kept)
      /\ (WithinCount(kept) /\ WithinBytes(jx, kept)) \/ kept = {k}
      /\ \A more \in SUBSET DOMAIN jx :
           UsedLast(jx, more) /\ WithinCount(more) /\ WithinBytes(jx, more)
             => more \subseteq kept
  BY Evicts
<1> HIDE DEF kept
<1>2. DOMAIN full = DOMAIN jx
  BY RecencyFacts
<1> HIDE DEF full
<1>3. \A S \in SUBSET DOMAIN full :
        /\ Lru!Newest(full, S) <=> UsedLast(jx, S)
        /\ Lru!Fits(full, S) <=> WithinCount(S) /\ WithinBytes(jx, S)
  BY <1>2, FitsRecency, NewestRecency DEF full
<1>4. Recency(Restricted(jx, kept)) = Lru!Only(full, kept)
  BY <1>1, OnlyRecency DEF full
<1>5. /\ kept \in SUBSET DOMAIN full /\ k \in kept /\ Lru!Newest(full, kept)
      /\ Lru!Fits(full, kept) \/ kept = {k}
      /\ \A more \in SUBSET DOMAIN full :
           Lru!Newest(full, more) /\ Lru!Fits(full, more) => more \subseteq kept
  BY <1>1, <1>2, <1>3
<1>6. full = Lru!Used(Recency(ix), k, n)
  BY DEF full
<1>7. DOMAIN Lru!Only(full, kept) = kept
  BY DEF Lru!Only
<1>8. QED
  BY <1>4, <1>5, <1>6, <1>7 DEF kept, Lru!IsPut

\* The index a user of the cache would find.
Current == IF loaded THEN index ELSE SavedIndex

ImplementsStep == [Lru!Next]_<< Recency(Current), Recency(SavedIndex), policy >>

\* A step that changes neither index is none of the abstract cache.
LEMMA Unseen ==
  ASSUME Current' = Current, SavedIndex' = SavedIndex, policy' = policy
  PROVE  ImplementsStep
<1>1. UNCHANGED << Recency(Current), Recency(SavedIndex), policy >>
  BY DEF Recency
<1>2. QED
  BY <1>1 DEF ImplementsStep

\* One that brings the index to disk saves the cache.
LEMMA SeenSave ==
  ASSUME Current' = Current, SavedIndex' = Current, policy' = policy
  PROVE  ImplementsStep
<1>1. Lru!Save
  BY DEF Lru!Save, Current, Recency
<1>2. QED
  BY <1>1 DEF ImplementsStep, Lru!Next

\* One that removes it from disk, and maybe from memory, wipes it.
LEMMA SeenWipe ==
  ASSUME Current' \in {Current, Empty}, SavedIndex' = Empty, policy' = policy
  PROVE  ImplementsStep
<1>1. Recency(SavedIndex)' = Lru!Empty
  BY EmptyRecency DEF Recency
<1>2. Recency(Current)' \in {Recency(Current), Lru!Empty}
  BY EmptyRecency DEF Recency
<1>3. Lru!Wipe
  BY <1>1, <1>2 DEF Lru!Wipe, Current
<1>4. QED
  BY <1>3 DEF ImplementsStep, Lru!Next

\* One after which only what is saved is left falls back to that.
LEMMA SeenFallBack ==
  ASSUME Current' = SavedIndex, SavedIndex' = SavedIndex, policy' \in Policies
  PROVE  ImplementsStep
<1>1. Lru!FallBack
  BY DEF Lru!FallBack, Current, Recency
<1>2. QED
  BY <1>1 DEF ImplementsStep, Lru!Next

\* So is a new policy.
LEMMA SeenOpen ==
  ASSUME Current' = Current, SavedIndex' = SavedIndex, policy' \in Policies
  PROVE  ImplementsStep
<1>1. Lru!Open
  BY DEF Lru!Open, Current, Recency
<1>2. QED
  BY <1>1 DEF ImplementsStep, Lru!Next

\* An index without one of its entries is a cache that dropped it.
LEMMA SeenDrop ==
  ASSUME NEW k \in Keys, Current' = Restricted(Current, DOMAIN Current \ {k}),
         SavedIndex' = SavedIndex, policy' = policy
  PROVE  ImplementsStep
<1>1. Recency(Current)' = Lru!Only(Recency(Current), DOMAIN Recency(Current) \ {k})
  <2>1. Recency(Current)' = Recency(Restricted(Current, DOMAIN Current \ {k}))
    BY DEF Recency
  <2>2. QED
    BY <2>1, OnlyRecency, RecencyFacts
<1>2. Recency(SavedIndex)' = Recency(SavedIndex)
  BY DEF Recency
<1>3. Lru!Drop(k)
  BY <1>1, <1>2 DEF Lru!Drop, Current
<1>4. QED
  BY <1>3 DEF ImplementsStep, Lru!Next

\* One with a new tick for an entry is a cache that was asked for it.
LEMMA SeenTouch ==
  ASSUME NEW k \in DOMAIN Current,
         Recency(Current)' = Lru!Used(Recency(Current), k, Recency(Current)[k].size),
         SavedIndex' = SavedIndex, policy' = policy
  PROVE  ImplementsStep
<1>1. Recency(SavedIndex)' = Recency(SavedIndex)
  BY DEF Recency
<1>2. Lru!Touch(k) /\ k \in DOMAIN Recency(Current)
  BY <1>1, RecencyFacts DEF Lru!Touch, Current
<1>3. QED
  BY <1>2 DEF ImplementsStep, Lru!Next, Current

\* One with an entry more, after the evictions, is a cache that took it in.
LEMMA SeenPut ==
  ASSUME policy \in Policies, NEW k \in Keys, NEW jx, LastUsed(jx, k),
         jx[k].size \in StoredSizes,
         Recency(jx) = Lru!Used(Recency(Current), k, jx[k].size),
         Current' = Restricted(jx, DOMAIN jx \ collect_evictions(jx, k)),
         SavedIndex' = SavedIndex, policy' = policy
  PROVE  ImplementsStep
<1> DEFINE n == jx[k].size
<1>1. Recency(SavedIndex)' = Recency(SavedIndex)
  BY DEF Recency
<1>2. Recency(Current)' = Recency(Restricted(jx, DOMAIN jx \ collect_evictions(jx, k)))
  BY DEF Recency
<1>3. Lru!IsPut(Recency(Current), k, n, Recency(Current)')
  BY <1>2, PutRecency
<1> HIDE DEF n
<1>4. Lru!Put(k, n)
  BY <1>1, <1>3 DEF Lru!Put, Current
<1>5. n \in {SizeOf[v] : v \in Values}
  BY DEF n, StoredSizes
<1>6. QED
  BY <1>4, <1>5 DEF ImplementsStep, Lru!Next

\* A load leaves the cache as it was; so do the files of entries and what is read.
LEMMA QuietSteps ==
  ASSUME TypeOK, TasksKnow, NEW t \in Tasks, Relies(t), ConsistentAt(t),
         \/ MakeDirs(t) \/ ReadIndex(t) \/ InstallIndex(t) \/ WriteTemp(t) \/ Unlink(t)
         \/ Look(t) \/ ReadEntry(t) \/ Purge(t) \/ Reload(t) \/ Begins(t)
  PROVE  ImplementsStep
<1>1. policy' = policy
  BY DEF MakeDirs, ReadIndex, InstallIndex, WriteTemp, Unlink, Look, ReadEntry, Purge, Reload,
         Begins, BeginSet, BeginRead, BeginDelete, BeginOther
<1>2. files'[IndexFile] = files[IndexFile]
  <2>1. CASE Unlink(t)
    <3>1. /\ IndexFile \notin unlinking[t]
          /\ files' = files \/ \E k \in unlinking[t] : files' = [files EXCEPT ![k] = Absent]
      BY <2>1, CacheAssumption DEF Unlink, TypeOK, WorkTypes
    <3>2. QED
      BY <3>1 DEF TypeOK, Stored, Files
  <2>2. CASE ~Unlink(t)
    BY <2>2 DEF MakeDirs, ReadIndex, InstallIndex, WriteTemp, Look, ReadEntry, Purge, Reload,
                Begins, BeginSet, BeginRead, BeginDelete, BeginOther, disk
  <2>3. QED
    BY <2>1, <2>2
<1>3. SavedIndex' = SavedIndex
  BY <1>2, SameFiles
<1>4. \/ UNCHANGED << loaded, index >>
      \/ loaded' = TRUE /\ index' = index /\ pc[t] \in {"look", "purge"}
      \/ loaded' = TRUE /\ index' = shot[t] /\ pc[t] = "install"
  BY DEF MakeDirs, ReadIndex, InstallIndex, WriteTemp, Unlink, Look, ReadEntry, Purge, Reload,
         Begins, BeginSet, BeginRead, BeginDelete, BeginOther, memory
<1>5. Current' = Current
  BY <1>3, <1>4 DEF Current, Relies, ConsistentAt, Saving, Writing
<1>6. QED
  BY <1>1, <1>3, <1>5, Unseen

\* The rename of the index saves the cache, or finds it wiped.
LEMMA MoveSaves ==
  ASSUME TypeOK, TasksKnow, NEW t \in Tasks, Relies(t), ConsistentAt(t),
         pc[t] \in {"rename", "again"}, MoveTemp(t), UNCHANGED << policy, memory >>
  PROVE  ImplementsStep
<1> DEFINE f == call[t].file
<1>1. /\ f \in Files /\ Knows(t) /\ IsIndex(shot[t]) /\ shot[t] # Absent
      /\ DOMAIN files = Files
  BY ContentFits, IndexFacts DEF TasksKnow, TypeOK, WorkTypes, Stored
<1>2. files' = [files EXCEPT ![f] = temps[f]] /\ temps[f] = Content(t)
  BY DEF MoveTemp, Relies
<1>3. loaded' = loaded /\ index' = index
  BY DEF memory
<1>4. CASE f = IndexFile
  <2>1. files'[IndexFile] = shot[t]
    BY <1>1, <1>2, <1>4 DEF Content
  <2>2. SavedIndex' = shot[t]
    BY <1>1, <2>1 DEF SavedIndex
  <2>3. CASE call[t].op = "clear"
    <3>1. shot[t] = Empty /\ ~loaded
      BY <1>1, <2>3 DEF Knows, Where, Relies
    <3>2. Current' = Empty
      BY <1>3, <2>2, <3>1 DEF Current
    <3>3. QED
      BY <2>2, <3>1, <3>2, SeenWipe
  <2>4. CASE call[t].op # "clear"
    <3>1. loaded /\ shot[t] = index
      BY <1>4, <2>4 DEF Relies, Saving, Writing
    <3>2. Current' = Current /\ SavedIndex' = Current
      BY <1>3, <2>2, <3>1 DEF Current
    <3>3. QED
      BY <3>2, SeenSave
  <2>5. QED
    BY <2>3, <2>4
<1>5. CASE f # IndexFile
  <2>1. files'[IndexFile] = files[IndexFile]
    BY <1>1, <1>2, <1>5
  <2>2. SavedIndex' = SavedIndex
    BY <2>1, SameFiles
  <2>3. QED
    BY <1>3, <2>2, Unseen DEF Current
<1>6. QED
  BY <1>4, <1>5

\* What write_atomic does to the index file saves the cache or wipes it.
LEMMA FileSteps ==
  ASSUME TypeOK, TasksKnow, NEW t \in Tasks, Relies(t), ConsistentAt(t),
         Rename(t) \/ RemoveTarget(t) \/ RenameAgain(t)
  PROVE  ImplementsStep
<1>1. UNCHANGED << policy, memory >> /\ loaded' = loaded /\ index' = index
  BY DEF Rename, RemoveTarget, RenameAgain, memory
<1>2. CASE MoveTemp(t) /\ pc[t] \in {"rename", "again"}
  BY <1>1, <1>2, MoveSaves
<1>3. CASE RemoveTarget(t)
  <2>1. /\ files' = [files EXCEPT ![call[t].file] = Absent]
        /\ files = [f \in Files |-> files[f]] /\ IndexFile \in Files
    BY <1>3 DEF RemoveTarget, TypeOK, Stored, Files
  <2>2. CASE call[t].file = IndexFile
    <3>1. SavedIndex' = Empty
      BY <2>1, <2>2 DEF SavedIndex
    <3>2. Current' \in {Current, Empty}
      BY <1>1, <3>1 DEF Current
    <3>3. QED
      BY <1>1, <3>1, <3>2, SeenWipe
  <2>3. CASE call[t].file # IndexFile
    <3>1. SavedIndex' = SavedIndex
      BY <2>1, <2>3, SameFiles
    <3>2. QED
      BY <1>1, <3>1, Unseen DEF Current
  <2>4. QED
    BY <2>2, <2>3
<1>4. CASE UNCHANGED files
  <2>1. SavedIndex' = SavedIndex
    BY <1>4, SameFiles
  <2>2. QED
    BY <1>1, <2>1, Unseen DEF Current
<1>5. QED
  BY <1>2, <1>3, <1>4 DEF Rename, RenameAgain

\* The index a set makes before it evicts: with its entry as the last one used.
LEMMA InsertFacts ==
  ASSUME TypeOK, TasksKnow, TicksDiffer, NEW t \in Tasks, Insert(t),
         NEW k, k = call[t].key
  PROVE  \E jx :
           /\ LastUsed(jx, k) /\ k \in Keys /\ jx[k].size \in StoredSizes
           /\ Recency(jx) = Lru!Used(Recency(index), k, jx[k].size)
           /\ index' = Restricted(jx, DOMAIN jx \ collect_evictions(jx, k))
<1> DEFINE jx == [j \in DOMAIN index \cup {k} |-> IF j = k THEN MetaOf(call[t]) ELSE index[j]]
<1>1. pc[t] = "insert" /\ index' = Restricted(jx, DOMAIN jx \ collect_evictions(jx, k))
  BY DEF Insert, SaveIndex
<1>2. /\ call[t] \in SetCall /\ k \in Keys /\ call[t].value \in Values
      /\ IsIndex(index) /\ Timely(index, next_tick) /\ next_tick \in Nat
  <2>1. call[t] \in Call /\ Knows(t)
    BY DEF TypeOK, WorkTypes, TasksKnow
  <2>2. QED
    BY <1>1, <2>1, CallFacts, TickFacts DEF Knows, Where, TypeOK, MemoryTypes, TicksDiffer
<1>3. /\ MetaOf(call[t]) \in Meta /\ MetaOf(call[t]).last_access = next_tick
      /\ MetaOf(call[t]).size \in StoredSizes
  BY <1>2, MetaOfType DEF MetaOf, StoredSizes
<1>4. IsIndex(jx) /\ DOMAIN jx = DOMAIN index \cup {k}
  BY <1>2, <1>3, ExtendedIsIndex
<1>5. /\ jx[k].last_access = next_tick /\ jx[k].size \in StoredSizes
      /\ \A j \in DOMAIN index \ {k} : jx[j] = index[j]
  BY <1>3
<1> HIDE DEF jx
<1>6. Timely(jx, next_tick + 1)
  BY <1>2, <1>4, <1>5, ExtendedIsTimely
<1>7. LastUsed(jx, k)
  <2>1. \A j \in DOMAIN jx \ {k} : jx[j].last_access < jx[k].last_access
    BY <1>2, <1>4, <1>5 DEF Timely
  <2>2. QED
    BY <1>4, <1>6, <2>1 DEF LastUsed, Timely
<1>8. Recency(jx) = Lru!Used(Recency(index), k, jx[k].size)
  BY <1>2, <1>4, <1>5, UsedRecency
<1>9. QED
  BY <1>1, <1>2, <1>5, <1>7, <1>8

\* A set puts its entry into the cache.
LEMMA InsertPuts ==
  ASSUME TypeOK, TasksKnow, TicksDiffer, NEW t \in Tasks, Relies(t), Insert(t)
  PROVE  ImplementsStep
<1>1. PICK k : k = call[t].key
  OBVIOUS
<1>2. PICK jx :
        /\ LastUsed(jx, k) /\ k \in Keys /\ jx[k].size \in StoredSizes
        /\ Recency(jx) = Lru!Used(Recency(index), k, jx[k].size)
        /\ index' = Restricted(jx, DOMAIN jx \ collect_evictions(jx, k))
  BY <1>1, InsertFacts
<1>3. /\ policy \in Policies /\ policy' = policy /\ SavedIndex' = SavedIndex
      /\ loaded /\ loaded'
  BY SameFiles DEF Insert, SaveIndex, disk, Relies, TypeOK, MemoryTypes
<1>4. Current = index /\ Current' = index'
  BY <1>3 DEF Current
<1>5. /\ Recency(jx) = Lru!Used(Recency(Current), k, jx[k].size)
      /\ Current' = Restricted(jx, DOMAIN jx \ collect_evictions(jx, k))
  BY <1>2, <1>4
<1>6. QED
  BY <1>2, <1>3, <1>5, SeenPut

\* A get uses its entry, if it is still there.
LEMMA TouchUses ==
  ASSUME TypeOK, TasksKnow, TicksDiffer, NEW t \in Tasks, Relies(t), Touch(t)
  PROVE  ImplementsStep
<1> DEFINE k == call[t].key
           jx == [j \in DOMAIN index |->
                    IF j = k THEN [index[j] EXCEPT !.last_access = next_tick] ELSE index[j]]
<1>1. SaveIndex(t, jx) /\ pc[t] = "touch" /\ UNCHANGED << policy, disk >>
  BY DEF Touch
<1>2. loaded /\ loaded' = TRUE /\ SavedIndex' = SavedIndex /\ index' = jx
  BY <1>1, SameFiles DEF SaveIndex, disk, Relies
<1>3. IsIndex(index) /\ Timely(index, next_tick) /\ next_tick \in Nat
  BY TickFacts DEF TypeOK, MemoryTypes, TicksDiffer
<1>4. index = [j \in DOMAIN index |-> index[j]]
  BY DEF TypeOK, MemoryTypes, IsIndex
<1>5. CASE k \notin DOMAIN index
  <2>1. jx = index
    BY <1>4, <1>5
  <2> HIDE DEF jx
  <2>2. Current' = Current
    BY <1>2, <2>1 DEF Current
  <2>3. QED
    BY <1>1, <1>2, <2>2, Unseen
<1>6. CASE k \in DOMAIN index
  <2>1. DOMAIN jx = DOMAIN index /\ \A j \in DOMAIN index \ {k} : jx[j] = index[j]
    OBVIOUS
  <2>2. jx[k].last_access = next_tick /\ jx[k].size = index[k].size
    <3>1. index[k] \in Meta /\ jx[k] = [index[k] EXCEPT !.last_access = next_tick]
      BY <1>3, <1>6, IndexFacts
    <3>2. QED
      BY <3>1 DEF Meta
  <2> HIDE DEF jx, k
  <2>3. DOMAIN jx = DOMAIN index \cup {k}
    BY <1>6, <2>1
  <2>4. Recency(jx) = Lru!Used(Recency(index), k, jx[k].size)
    BY <1>3, <2>1, <2>2, <2>3, UsedRecency
  <2>5. Recency(index)[k].size = jx[k].size
    BY <1>6, <2>2, RecencyFacts
  <2>6. Current = index /\ Current' = jx
    BY <1>2 DEF Current
  <2>7. /\ k \in DOMAIN Current
        /\ Recency(Current)' = Lru!Used(Recency(Current), k, Recency(Current)[k].size)
    <3>1. Recency(Current)' = Recency(jx)
      BY <2>6 DEF Recency
    <3>2. QED
      BY <1>6, <2>4, <2>5, <2>6, <3>1
  <2>8. QED
    BY <1>1, <1>2, <2>7, SeenTouch
<1>7. QED
  BY <1>5, <1>6

\* A delete drops its entry, if it is still there.
LEMMA DeleteDrops ==
  ASSUME TypeOK, TasksKnow, NEW t \in Tasks, Delete(t)
  PROVE  ImplementsStep
<1>1. UNCHANGED << policy, disk >> /\ loaded /\ SavedIndex' = SavedIndex
      /\ doomed[t] \subseteq Keys
  BY SameFiles DEF Delete, disk, TypeOK, WorkTypes
<1>2. ASSUME NEW k \in doomed[t], SaveIndex(t, Restricted(index, DOMAIN index \ {k}))
      PROVE  ImplementsStep
  <2>1. Current = index /\ Current' = Restricted(index, DOMAIN index \ {k})
    BY <1>1, <1>2 DEF SaveIndex, Current
  <2>2. k \in Keys /\ Current' = Restricted(Current, DOMAIN Current \ {k})
    BY <1>1, <2>1
  <2>3. QED
    BY <1>1, <2>2, SeenDrop
<1>3. CASE UNCHANGED << loaded, index >>
  BY <1>1, <1>3, Unseen DEF Current
<1>4. QED
  BY <1>2, <1>3 DEF Delete

\* Clearing wipes the cache and falls back to what is left.
LEMMA ClearSteps ==
  ASSUME TypeOK, TasksKnow, NEW t \in Tasks, Relies(t), Wipe(t) \/ Reset(t) \/ Emptied(t)
  PROVE  ImplementsStep
<1>1. policy' = policy /\ policy \in Policies
  BY DEF Wipe, Reset, Emptied, TypeOK, MemoryTypes
<1>2. CASE Wipe(t)
  <2>1. SavedIndex' = Empty /\ loaded' = loaded /\ index' = index
    BY <1>2 DEF Wipe, SavedIndex, Files, memory
  <2>2. Current' \in {Current, Empty}
    BY <2>1 DEF Current
  <2>3. QED
    BY <1>1, <2>1, <2>2, SeenWipe
<1>3. CASE Reset(t)
  <2>1. loaded' = FALSE /\ SavedIndex' = SavedIndex
    BY <1>3, SameFiles DEF Reset, disk
  <2>2. QED
    BY <1>1, <2>1, SeenFallBack DEF Current
<1>4. CASE Emptied(t)
  <2>1. loaded' = TRUE /\ index' = Empty /\ SavedIndex' = SavedIndex /\ SavedIndex = Empty
    BY <1>4, SameFiles DEF Emptied, disk, Relies
  <2>2. QED
    BY <1>1, <2>1, SeenFallBack DEF Current
<1>5. QED
  BY <1>2, <1>3, <1>4

\* Every step of a script that awaits each call is one of the abstract cache, or none.
LEMMA NextImplements ==
  UseOK /\ TypeOK /\ TasksKnow /\ TicksDiffer /\ Awaited /\ Awaited' /\ InTurn /\ [Next]_vars
    => ImplementsStep
<1> SUFFICES ASSUME UseOK, TypeOK, TasksKnow, TicksDiffer, Awaited, Awaited', InTurn, [Next]_vars
             PROVE  ImplementsStep
  OBVIOUS
<1>1. ASSUME NEW t \in Tasks, Work(t) \/ Begins(t) PROVE ImplementsStep
  <2>1. Solo(t)
    BY <1>1, StepsAreSolo
  <2>2. Relies(t) /\ ConsistentAt(t)
    BY <2>1, SoloBefore DEF Solo
  <2>3. QED
    BY <1>1, <2>2, QuietSteps, FileSteps, InsertPuts, TouchUses, DeleteDrops, ClearSteps
       DEF Work
<1>2. CASE Restart
  <2>1. loaded' = FALSE /\ SavedIndex' = SavedIndex /\ policy' \in Policies
    BY <1>2, SameFiles, CacheAssumption DEF Restart, UseOK, Usage
  <2>2. QED
    BY <2>1, SeenFallBack DEF Current
<1>3. CASE Open
  <2>1. UNCHANGED << loaded, index >> /\ SavedIndex' = SavedIndex /\ policy' \in Policies
    BY <1>3, SameFiles, CacheAssumption DEF Open, memory, disk, UseOK, Usage
  <2>2. QED
    BY <2>1, SeenOpen DEF Current
<1>4. CASE PassTime \/ UNCHANGED vars
  <2>1. UNCHANGED << loaded, index, policy >> /\ SavedIndex' = SavedIndex
    BY <1>4, SameFiles DEF PassTime, vars, memory, disk
  <2>2. QED
    BY <2>1, Unseen DEF Current
<1>5. QED
  BY <1>1, <1>2, <1>3, <1>4, Steps

\* Before the first call both caches are empty.
LEMMA InitImplements == Init => Lru!Init
<1>1. Init => SavedIndex = Empty /\ (IF loaded THEN index ELSE SavedIndex) = Empty
  BY DEF Init, SavedIndex, Files
<1>2. QED
  BY <1>1, InitTypes, EmptyRecency DEF TypeOK, MemoryTypes, Lru!Init

\* However calls overlap, a set evicts the least recently used of the entries that
\* are in memory, and no more of them than the limits demand.
THEOREM SetsEvictTheOldest ==
  Spec => [][\A t \in Tasks :
               Insert(t) => \E n \in StoredSizes :
                              Lru!IsPut(Recency(index), call[t].key, n, Recency(index)')]_vars
<1> DEFINE Evicting ==
             \A t \in Tasks :
               Insert(t) => \E n \in StoredSizes :
                              Lru!IsPut(Recency(index), call[t].key, n, Recency(index)')
<1>1. TypeOK /\ TasksKnow /\ TicksDiffer => Evicting
  <2> SUFFICES ASSUME TypeOK, TasksKnow, TicksDiffer, NEW t \in Tasks, Insert(t)
               PROVE  \E n \in StoredSizes :
                        Lru!IsPut(Recency(index), call[t].key, n, Recency(index)')
    OBVIOUS
  <2>1. PICK k : k = call[t].key
    OBVIOUS
  <2>2. PICK jx :
          /\ LastUsed(jx, k) /\ k \in Keys /\ jx[k].size \in StoredSizes
          /\ Recency(jx) = Lru!Used(Recency(index), k, jx[k].size)
          /\ index' = Restricted(jx, DOMAIN jx \ collect_evictions(jx, k))
    BY <2>1, InsertFacts
  <2>3. Recency(index)' = Recency(Restricted(jx, DOMAIN jx \ collect_evictions(jx, k)))
    BY <2>2 DEF Recency
  <2>4. policy \in Policies
    BY DEF TypeOK, MemoryTypes
  <2>5. Lru!IsPut(Recency(index), k, jx[k].size, Recency(index)')
    BY <2>2, <2>3, <2>4, PutRecency
  <2>6. QED
    BY <2>1, <2>2, <2>5
<1>2. QED
  BY <1>1, CacheTypeCorrect, TicksGrow, PTL DEF Spec

\* The comments on the cache: a script that awaits each call has a durable LRU
\* cache.  A set evicts the least recently used entries, no more of them than the
\* limits demand, and a restart at any moment goes back to the last saved index.
THEOREM CacheIsDurableLru == Spec /\ []Awaited => ImplementsDurableLru
<1>1. UseOK /\ TypeOK /\ TasksKnow /\ TicksDiffer /\ Awaited /\ Awaited' /\ InTurn
      /\ [Next]_vars
        => [Lru!Next]_<< Recency(IF loaded THEN index ELSE SavedIndex),
                         Recency(SavedIndex), policy >>
  BY NextImplements DEF ImplementsStep, Current
<1>2. QED
  BY <1>1, InitImplements, KeptInTurn, TicksGrow, PTL
     DEF Spec, ImplementsDurableLru, Lru!Spec

\* One task awaits each of its calls, as the one of the runs does.
THEOREM OneTaskIsDurableLru ==
  ASSUME NEW t, Tasks = {t}
  PROVE  Spec => ImplementsDurableLru
<1>1. Awaited
  BY DEF Awaited
<1>2. Spec => []Awaited
  BY <1>1, PTL
<1>3. QED
  BY <1>2, CacheIsDurableLru, PTL
=============================================================================
