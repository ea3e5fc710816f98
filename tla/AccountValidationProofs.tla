----------------------- MODULE AccountValidationProofs -----------------------
(***************************************************************************)
(* The safety of AccountValidation, for all accounts, credentials and      *)
(* concurrent calls.                                                       *)
(***************************************************************************)
EXTENDS AccountValidation, FiniteSetTheorems, TLAPS

\* A list each of whose accounts is replaced by one is a list of accounts.
LEMMA Rewritten ==
  ASSUME NEW store \in Seq(Account), NEW new,
         new = [i \in DOMAIN store |-> new[i]],
         \A i \in DOMAIN store : new[i] \in Account
  PROVE  new \in Seq(Account) /\ DOMAIN new = DOMAIN store
<1>1. DOMAIN store = 1..Len(store) /\ Len(store) \in Nat
  OBVIOUS
<1>2. new \in [1..Len(store) -> Account]
  BY <1>1
<1>3. QED
  BY <1>1, <1>2

\* Merging into an account keeps its domain, and its credentials unless it brings others.
LEMMA MergedIntoType ==
  ASSUME NEW acc \in Account, NEW new \in Account
  PROVE  /\ MergedInto(acc, new) \in Account
         /\ MergedInto(acc, new).domain = acc.domain
         /\ MergedInto(acc, new).creds = IF new.creds = None THEN acc.creds ELSE new.creds
BY DEF MergedInto, Or, Account

\* Merging an account of a domain that is in the list rewrites the accounts of that domain.
LEMMA MergeRewrites ==
  ASSUME NEW store \in Seq(Account), NEW new \in Account, Of(store, new.domain) # {}
  PROVE  LET m == MergeAuth(store, new) IN
         /\ DOMAIN m = DOMAIN store
         /\ \A i \in DOMAIN store :
              /\ m[i].domain = store[i].domain
              /\ m[i].creds = store[i].creds \/ (new.creds # None /\ m[i].creds = new.creds)
              /\ store[i].domain # new.domain => m[i].creds = store[i].creds
<1>1. MergeAuth(store, new) =
        [i \in DOMAIN store |->
           IF store[i].domain = new.domain THEN MergedInto(store[i], new) ELSE store[i]]
  BY DEF MergeAuth
<1>2. \A i \in DOMAIN store : store[i] \in Account
  OBVIOUS
<1>3. QED
  BY <1>1, <1>2, MergedIntoType

\* Merging an account of another domain appends it.
LEMMA MergeAppends ==
  ASSUME NEW store \in Seq(Account), NEW new \in Account, Of(store, new.domain) = {},
         NEW m, m = MergeAuth(store, new)
  PROVE  /\ m \in Seq(Account) /\ Len(store) + 1 \in DOMAIN m /\ m[Len(store) + 1] = new
         /\ DOMAIN store \subseteq DOMAIN m /\ \A i \in DOMAIN store : m[i] = store[i]
         /\ \A i \in DOMAIN m : i \in DOMAIN store \/ i = Len(store) + 1
<1>1. m = Append(store, new)
  BY DEF MergeAuth
<1>2. /\ DOMAIN m = 1..(Len(store) + 1) /\ DOMAIN store = 1..Len(store) /\ Len(store) \in Nat
      /\ m[Len(store) + 1] = new /\ \A i \in DOMAIN store : m[i] = store[i]
      /\ m \in Seq(Account)
  BY <1>1
<1>3. QED
  BY <1>2

\* Merging gives a list of accounts.
LEMMA MergeAuthType ==
  ASSUME NEW store \in Seq(Account), NEW new \in Account
  PROVE  MergeAuth(store, new) \in Seq(Account)
<1>1. CASE Of(store, new.domain) = {}
  BY <1>1 DEF MergeAuth
<1>2. CASE Of(store, new.domain) # {}
  <2> DEFINE m == MergeAuth(store, new)
  <2>1. m = [i \in DOMAIN store |->
               IF store[i].domain = new.domain THEN MergedInto(store[i], new) ELSE store[i]]
    BY <1>2 DEF MergeAuth
  <2>2. \A i \in DOMAIN store : store[i] \in Account
    OBVIOUS
  <2>3. \A i \in DOMAIN store : m[i] \in Account
    BY <2>1, <2>2, MergedIntoType
  <2>4. m = [i \in DOMAIN store |-> m[i]]
    BY <2>1
  <2> HIDE DEF m
  <2>5. m \in Seq(Account)
    BY <2>3, <2>4, Rewritten
  <2>6. QED
    BY <2>5 DEF m
<1>3. QED
  BY <1>1, <1>2

\* Invalidating a domain takes the credentials of its accounts.
LEMMA InvalidateType ==
  ASSUME NEW store \in Seq(Account), NEW d \in Domains, NEW m, m = Invalidate(store, d)
  PROVE  /\ m \in Seq(Account) /\ DOMAIN m = DOMAIN store
         /\ \A i \in DOMAIN store :
              /\ m[i].domain = store[i].domain
              /\ m[i].creds = IF store[i].domain = d THEN None ELSE store[i].creds
<1>1. m = [i \in DOMAIN store |->
             IF store[i].domain = d THEN [store[i] EXCEPT !.creds = None] ELSE store[i]]
  BY DEF Invalidate
<1>2. \A i \in DOMAIN store : store[i] \in Account
  OBVIOUS
<1>3. \A i \in DOMAIN store :
        /\ m[i] \in Account
        /\ m[i].domain = store[i].domain
        /\ m[i].creds = IF store[i].domain = d THEN None ELSE store[i].creds
  BY <1>1, <1>2 DEF Account
<1>4. m = [i \in DOMAIN store |-> m[i]]
  BY <1>1
<1>5. QED
  BY <1>3, <1>4, Rewritten

\* What the metadata declares leaves all credentials, and adds none.
LEMMA MergeDeclaredType ==
  ASSUME use \in Uses, NEW store \in Seq(Account), NEW auths \in Declarations,
         NEW m \in MergeDeclared(store, auths)
  PROVE  /\ m \in Seq(Account) /\ DOMAIN store \subseteq DOMAIN m
         /\ \A i \in DOMAIN store : m[i].domain = store[i].domain /\ m[i].creds = store[i].creds
         /\ \A i \in DOMAIN m \ DOMAIN store : m[i].creds = None
<1>1. use.auths \subseteq Auths /\ use.domains \subseteq Domains
  BY AccountAssumption DEF Usage
<1>2. DOMAIN auths \subseteq Domains /\ \A d \in DOMAIN auths : Declared(d, auths[d]) \in Account
  BY <1>1 DEF Declarations, Declared, Account
<1> DEFINE merged == [i \in DOMAIN store |->
                        LET d == store[i].domain
                        IN IF d \in DOMAIN auths THEN MergedInto(store[i], Declared(d, auths[d]))
                           ELSE store[i]]
           missing == {d \in DOMAIN auths : Of(store, d) = {}}
           Added(order) == [i \in DOMAIN order |-> Declared(order[i], auths[order[i]])]
<1>3. PICK order \in SetToSeqs(missing) : m = merged \o Added(order)
  BY DEF MergeDeclared
<1>4. /\ merged \in Seq(Account) /\ DOMAIN merged = DOMAIN store
      /\ \A i \in DOMAIN store : merged[i].domain = store[i].domain /\ merged[i].creds = store[i].creds
  <2>1. \A i \in DOMAIN store : store[i] \in Account
    OBVIOUS
  <2>2. \A i \in DOMAIN store :
          /\ merged[i] \in Account
          /\ merged[i].domain = store[i].domain /\ merged[i].creds = store[i].creds
    BY <1>2, <2>1, MergedIntoType DEF Declared
  <2>3. merged = [i \in DOMAIN store |-> merged[i]]
    OBVIOUS
  <2> HIDE DEF merged
  <2>4. QED
    BY <2>2, <2>3, Rewritten
<1>5. Added(order) \in Seq(Account) /\ \A i \in DOMAIN Added(order) : Added(order)[i].creds = None
  <2>1. Cardinality(missing) \in Nat
    BY <1>2, AccountAssumption, FS_Subset, FS_CardinalityType
  <2>2. order \in [1..Cardinality(missing) -> missing]
    BY DEF SetToSeqs
  <2>3. \A i \in 1..Cardinality(missing) :
          Declared(order[i], auths[order[i]]) \in Account
            /\ Declared(order[i], auths[order[i]]).creds = None
    BY <1>2, <2>2 DEF Declared
  <2>4. Added(order) \in [1..Cardinality(missing) -> Account]
    BY <2>2, <2>3
  <2>5. \A i \in 1..Cardinality(missing) : Added(order)[i].creds = None
    BY <2>2, <2>3
  <2> HIDE DEF Added, missing
  <2>6. DOMAIN Added(order) = 1..Cardinality(missing)
    BY <2>4
  <2>7. QED
    BY <2>1, <2>4, <2>5, <2>6
<1>6. ASSUME NEW a \in Seq(Account), NEW b \in Seq(Account)
      PROVE  /\ a \o b \in Seq(Account) /\ DOMAIN a \subseteq DOMAIN (a \o b)
             /\ \A i \in DOMAIN a : (a \o b)[i] = a[i]
             /\ \A i \in DOMAIN (a \o b) \ DOMAIN a : i - Len(a) \in DOMAIN b /\ (a \o b)[i] = b[i - Len(a)]
  <2>1. /\ a \o b \in Seq(Account) /\ Len(a) \in Nat /\ Len(b) \in Nat
        /\ Len(a \o b) = Len(a) + Len(b)
        /\ DOMAIN a = 1..Len(a) /\ DOMAIN b = 1..Len(b) /\ DOMAIN (a \o b) = 1..Len(a \o b)
    OBVIOUS
  <2>2. \A i \in 1..Len(a) + Len(b) :
          (a \o b)[i] = IF i <= Len(a) THEN a[i] ELSE b[i - Len(a)]
    OBVIOUS
  <2>3. QED
    BY <2>1, <2>2
<1> HIDE DEF merged, Added
<1>7. QED
  BY <1>3, <1>4, <1>5, <1>6

-----------------------------------------------------------------------------
(* Types.  A validation waits in the channel of the JS thread once, and only *)
(* while it waits.                                                           *)

\* Who is where, and the JS thread answers each validation once.
ChannelWaits ==
  /\ \A v \in Validations : pc[v] \in {"idle", "send", "wait", "finish"}
  /\ \A e \in Editors : pc[e] \in {"idle", "persist"}
  /\ \A i, j \in 1..Len(tasks) : tasks[i] = tasks[j] => i = j
  /\ \A i \in 1..Len(tasks) : pc[tasks[i]] = "wait"

\* Initially the accounts are those the metadata declare.
LEMMA InitTypes == Init => TypeOK /\ ChannelWaits
<1> SUFFICES ASSUME Init PROVE TypeOK /\ ChannelWaits
  OBVIOUS
<1>1. << >> \in Seq(Account)
  OBVIOUS
<1>2. accounts \in Seq(Account)
  BY <1>1, MergeDeclaredType DEF Init
<1>3. QED
  BY <1>1, <1>2 DEF Init, TypeOK, ChannelWaits

\* The head of the channel is the validation the thread takes next.
LEMMA HeadWaits ==
  ASSUME TypeOK, ChannelWaits, tasks # << >>
  PROVE  /\ Head(tasks) \in Validations /\ pc[Head(tasks)] = "wait"
         /\ Tail(tasks) \in Seq(Validations)
         /\ \A i, j \in 1..Len(Tail(tasks)) : Tail(tasks)[i] = Tail(tasks)[j] => i = j
         /\ \A i \in 1..Len(Tail(tasks)) :
              Tail(tasks)[i] # Head(tasks) /\ pc[Tail(tasks)[i]] = "wait"
<1>1. tasks \in Seq(Validations) /\ Len(tasks) \in Nat /\ Len(tasks) > 0
  BY DEF TypeOK
<1>2. /\ Head(tasks) = tasks[1]
      /\ Tail(tasks) \in Seq(Validations) /\ Len(Tail(tasks)) = Len(tasks) - 1
      /\ \A i \in 1..Len(Tail(tasks)) : Tail(tasks)[i] = tasks[i + 1]
  BY <1>1
<1>3. \A i \in 1..Len(Tail(tasks)) : i + 1 \in 1..Len(tasks) /\ i + 1 # 1
  BY <1>1, <1>2
<1>4. 1 \in 1..Len(tasks) /\ tasks[1] \in Validations
  BY <1>1
<1>5. QED
  BY <1>2, <1>3, <1>4 DEF ChannelWaits

\* The credentials of a set of accounts are credentials of domains.
LEMMA LoginsType == \A accs \in SUBSET Account : Logins(accs) \subseteq Domains \X Creds
BY DEF Logins, Account

\* Steps of validations, of the JS thread, of editors and of the process keep
\* the types.
LEMMA NextTypes == TypeOK /\ ChannelWaits /\ [Next]_vars => TypeOK' /\ ChannelWaits'
<1> SUFFICES ASSUME TypeOK, ChannelWaits, [Next]_vars PROVE TypeOK' /\ ChannelWaits'
  OBVIOUS
<1>0. /\ \A v \in Validations : v \notin Editors
      /\ use.auths \subseteq Auths /\ use.profiles \subseteq Profiles /\ use.creds \subseteq Creds
      /\ use.validations \subseteq Validations /\ use.editors \subseteq Editors
      /\ use.domains \subseteq Domains
      /\ Given \subseteq Account
  <2>1. use \in Usage
    BY AccountAssumption DEF TypeOK
  <2>2. QED
    BY <2>1, AccountAssumption DEF Usage, Given, Account
<1>1. ASSUME NEW v \in use.validations, NEW acc \in Given, BeginValidate(v, acc)
      PROVE  TypeOK' /\ ChannelWaits'
  <2>1. acc \in Account /\ acc.domain \in Domains /\ v \in Validations
    BY <1>0 DEF Account
  <2>2. PICK i \in DOMAIN accounts :
          old' = [old EXCEPT ![v] = accounts[i]] /\ accounts' = [accounts EXCEPT ![i] = acc]
    BY <1>1 DEF BeginValidate
  <2>3. accounts[i] \in Account /\ accounts' \in Seq(Account)
    BY <2>1, <2>2 DEF TypeOK
  <2>4. /\ pc' = [pc EXCEPT ![v] = "send"] /\ candidate' = [candidate EXCEPT ![v] = acc]
        /\ mixed' \subseteq mixed \cup {acc.domain} /\ unsure' = unsure \cup {acc.domain}
        /\ UNCHANGED << use, disk, res, tasks, snapshot, known >>
    BY <1>1 DEF BeginValidate, Goto
  <2>5. TypeOK'
    BY <2>1, <2>2, <2>3, <2>4 DEF TypeOK
  <2>6. ChannelWaits'
    BY <1>0, <1>1, <2>1, <2>4 DEF BeginValidate, TypeOK, ChannelWaits
  <2>7. QED
    BY <2>5, <2>6
<1>2. ASSUME NEW v \in Validations, SendValidate(v) PROVE TypeOK' /\ ChannelWaits'
  <2>1. /\ pc[v] = "send"
        /\ UNCHANGED << use, accounts, disk, old, res, snapshot, known, mixed, unsure >>
    BY <1>2 DEF SendValidate
  <2>2. \A i \in 1..Len(tasks) : tasks[i] # v
    BY <2>1 DEF ChannelWaits
  <2>3. /\ pc' \in [Validations \cup Editors -> {"idle", "send", "wait", "finish", "persist"}]
        /\ \A p \in (Validations \cup Editors) \ {v} : pc'[p] = pc[p]
        /\ \/ tasks' = Append(tasks, v) /\ pc'[v] = "wait" /\ candidate' = candidate
           \/ tasks' = tasks /\ pc'[v] = "finish" /\ candidate' = [candidate EXCEPT ![v] = None]
    BY <1>2 DEF SendValidate, Goto, TypeOK
  <2>4. /\ tasks' \in Seq(Validations)
        /\ candidate' \in [Validations -> Account \cup {None}]
        /\ \A w \in Validations \ {v} : candidate'[w] = candidate[w]
        /\ pc'[v] = "wait" => candidate'[v] \in Account
    <3>1. candidate \in [Validations -> Account \cup {None}] /\ candidate[v] \in Account
      BY <2>1 DEF TypeOK
    <3>2. tasks' \in Seq(Validations)
      <4>1. tasks \in Seq(Validations) /\ Append(tasks, v) \in Seq(Validations)
        BY DEF TypeOK
      <4>2. QED
        BY <2>3, <4>1, Zenon
    <3>3. CASE candidate' = candidate
      BY <3>1, <3>2, <3>3
    <3>4. CASE pc'[v] = "finish" /\ candidate' = [candidate EXCEPT ![v] = None]
      BY <3>1, <3>2, <3>4
    <3>5. QED
      BY <2>3, <3>3, <3>4
  <2>5. TypeOK'
    <3>1. \A w \in Validations :
            /\ pc'[w] # "idle" => old[w] \in Account
            /\ pc'[w] \in {"send", "wait"} => candidate'[w] \in Account
      BY <2>1, <2>3, <2>4 DEF TypeOK
    <3>2. QED
      BY <2>1, <2>3, <2>4, <3>1 DEF TypeOK
  <2>6. CASE tasks' = tasks
    <3>1. \A i \in 1..Len(tasks) : tasks[i] \in Validations /\ pc'[tasks[i]] = pc[tasks[i]]
      BY <2>2, <2>3 DEF TypeOK
    <3>2. pc'[v] \in {"wait", "finish"}
      BY <2>3
    <3>3. \A i \in 1..Len(tasks') : pc'[tasks'[i]] = "wait"
      BY <2>6, <3>1 DEF ChannelWaits
    <3>4. /\ \A w \in Validations : pc'[w] \in {"idle", "send", "wait", "finish"}
          /\ \A e \in Editors : pc'[e] \in {"idle", "persist"}
      BY <1>0, <2>3, <3>2 DEF ChannelWaits
    <3>5. QED
      BY <2>5, <2>6, <3>3, <3>4 DEF ChannelWaits
  <2>7. CASE tasks' = Append(tasks, v) /\ pc'[v] = "wait"
    <3>1. /\ Len(tasks) \in Nat /\ Len(tasks') = Len(tasks) + 1 /\ tasks'[Len(tasks) + 1] = v
          /\ \A i \in 1..Len(tasks) : tasks'[i] = tasks[i] /\ tasks[i] \in Validations
      BY <2>7 DEF TypeOK
    <3>2. \A i \in 1..Len(tasks') : i \in 1..Len(tasks) \/ i = Len(tasks) + 1
      BY <3>1
    <3>3. \A i, j \in 1..Len(tasks') : tasks'[i] = tasks'[j] => i = j
      BY <2>2, <3>1, <3>2 DEF ChannelWaits
    <3>4. \A i \in 1..Len(tasks') : pc'[tasks'[i]] = "wait"
      BY <2>2, <2>3, <2>7, <3>1, <3>2 DEF ChannelWaits
    <3>5. QED
      BY <1>0, <2>3, <2>5, <3>3, <3>4 DEF ChannelWaits
  <2>8. QED
    BY <2>3, <2>6, <2>7
<1>3. CASE JudgeCandidate
  <2> DEFINE v == Head(tasks)
             kept == {[answer EXCEPT !.creds = candidate[v].creds] : answer \in Given}
  <2>1. tasks # << >> /\ tasks' = Tail(tasks) /\ pc' = [pc EXCEPT ![v] = "finish"]
        /\ candidate' = [candidate EXCEPT ![v] = None]
        /\ UNCHANGED << use, accounts, disk, old, snapshot, known, mixed, unsure >>
    BY <1>3 DEF JudgeCandidate, Goto
  <2>2. v \in Validations /\ candidate[v] \in Account /\ old[v] \in Account
    BY <2>1, HeadWaits DEF TypeOK
  <2>3. kept \subseteq Account
    BY <1>0, <2>2 DEF Account
  <2>4. \E r \in {None} \cup kept : res' = [res EXCEPT ![v] = r]
    BY <1>3 DEF JudgeCandidate
  <2> HIDE DEF kept
  <2>5. res' \in [Validations -> Account \cup {None}]
    BY <2>2, <2>3, <2>4 DEF TypeOK
  <2>6. tasks' \in Seq(Validations)
    BY <2>1, HeadWaits
  <2>7. TypeOK'
    <3> HIDE DEF v
    <3>1. /\ pc' \in [Validations \cup Editors -> {"idle", "send", "wait", "finish", "persist"}]
          /\ candidate' \in [Validations -> Account \cup {None}]
      BY <2>1, <2>2 DEF TypeOK
    <3>2. \A w \in Validations :
            /\ pc'[w] # "idle" => old[w] \in Account
            /\ pc'[w] \in {"send", "wait"} => candidate'[w] \in Account
      BY <2>1, <2>2 DEF TypeOK
    <3>3. QED
      BY <2>1, <2>5, <2>6, <3>1, <3>2 DEF TypeOK
  <2>8. ChannelWaits'
    <3>1. /\ \A i, j \in 1..Len(tasks') : tasks'[i] = tasks'[j] => i = j
          /\ \A i \in 1..Len(tasks') : tasks'[i] # v /\ pc[tasks'[i]] = "wait"
               /\ tasks'[i] \in Validations
      <4>1. tasks # << >> /\ tasks' = Tail(tasks)
        BY <2>1
      <4>2. \A i \in 1..Len(tasks') : tasks'[i] \in Validations
        BY <2>6
      <4>3. QED
        BY <4>1, <4>2, HeadWaits
    <3> HIDE DEF v
    <3>2. QED
      BY <1>0, <2>1, <2>2, <3>1 DEF ChannelWaits, TypeOK
  <2>9. QED
    BY <2>7, <2>8
<1>4. ASSUME NEW v \in Validations, FinishValidate(v) PROVE TypeOK' /\ ChannelWaits'
  <2> DEFINE approved == {res[v]} \ {None}
             moved == {acc.domain : acc \in approved}
  <2>1. old[v] \in Account /\ approved \subseteq Account
    BY <1>4 DEF FinishValidate, TypeOK
  <2>2. moved \subseteq Domains /\ Logins(approved) \subseteq Domains \X Creds
    BY <2>1, LoginsType DEF Account
  <2>3. /\ pc[v] = "finish" /\ pc' = [pc EXCEPT ![v] = "idle"]
        /\ known' = known \cup Logins(approved) \/ known' = known
        /\ mixed' \subseteq mixed \cup moved /\ unsure' = unsure \cup moved
        /\ old' = [old EXCEPT ![v] = None] /\ res' = [res EXCEPT ![v] = None]
        /\ UNCHANGED << use, disk, candidate, tasks, snapshot >>
        /\ \/ accounts' = accounts
           \/ \E i \in DOMAIN accounts :
                accounts' = [accounts EXCEPT ![i] = IF res[v] = None THEN old[v] ELSE res[v]]
    BY <1>4 DEF FinishValidate, Goto
  <2>4. accounts' \in Seq(Account)
    <3>1. (IF res[v] = None THEN old[v] ELSE res[v]) \in Account /\ accounts \in Seq(Account)
      BY <2>1 DEF TypeOK
    <3>2. QED
      BY <2>3, <3>1
  <2> HIDE DEF approved, moved
  <2>5. known' \subseteq Domains \X Creds /\ mixed' \subseteq Domains /\ unsure' \subseteq Domains
    BY <2>2, <2>3 DEF TypeOK
  <2>6. TypeOK'
    BY <2>3, <2>4, <2>5 DEF TypeOK
  <2>7. ChannelWaits'
    BY <1>0, <2>3 DEF TypeOK, ChannelWaits
  <2>8. QED
    BY <2>6, <2>7
<1>5. ASSUME NEW e \in Editors, NEW store \in Seq(Account), Edit(e, store),
             known' \subseteq Domains \X Creds, unsure' \subseteq Domains
      PROVE  TypeOK' /\ ChannelWaits'
  <2>1. TypeOK'
    BY <1>0, <1>5 DEF Edit, Goto, TypeOK
  <2>2. ChannelWaits'
    BY <1>0, <1>5 DEF Edit, Goto, TypeOK, ChannelWaits
  <2>3. QED
    BY <2>1, <2>2
<1>6. ASSUME NEW e \in use.editors, NEW new \in Given, EditMerge(e, new)
      PROVE  TypeOK' /\ ChannelWaits'
  <2>1. new \in Account /\ new.domain \in Domains /\ accounts \in Seq(Account) /\ e \in Editors
    BY <1>0 DEF Account, TypeOK
  <2>2. MergeAuth(accounts, new) \in Seq(Account)
    BY <2>1, MergeAuthType
  <2>3. known' \subseteq Domains \X Creds /\ unsure' \subseteq Domains
    BY <1>6, <2>1, LoginsType DEF EditMerge, TypeOK
  <2>4. QED
    BY <1>5, <1>6, <2>1, <2>2, <2>3 DEF EditMerge
<1>7. ASSUME NEW e \in use.editors, NEW d \in use.domains, EditInvalidate(e, d)
      PROVE  TypeOK' /\ ChannelWaits'
  <2>1. accounts \in Seq(Account) /\ d \in Domains /\ e \in Editors
    BY <1>0 DEF TypeOK
  <2>2. Invalidate(accounts, d) \in Seq(Account)
    BY <2>1, InvalidateType
  <2>3. known' \subseteq Domains \X Creds /\ unsure' \subseteq Domains
    BY <1>7, <2>1 DEF EditInvalidate, TypeOK
  <2>4. QED
    BY <1>5, <1>7, <2>1, <2>2, <2>3 DEF EditInvalidate
<1>8. ASSUME NEW e \in Editors, PersistAccounts(e) PROVE TypeOK' /\ ChannelWaits'
  <2>1. disk' \in Seq(Account) /\ snapshot' \in [Editors -> Seq(Account)]
    BY <1>8 DEF PersistAccounts, TypeOK
  <2>2. TypeOK'
    BY <1>0, <1>8, <2>1 DEF PersistAccounts, Goto, TypeOK
  <2>3. ChannelWaits'
    BY <1>0, <1>8 DEF PersistAccounts, Goto, TypeOK, ChannelWaits
  <2>4. QED
    BY <2>2, <2>3
<1>9. ASSUME NEW loaded \in Seq(Account), RestartFrom(loaded) PROVE TypeOK' /\ ChannelWaits'
  <2>1. accounts' \in Seq(Account)
    BY <1>9, MergeDeclaredType DEF RestartFrom, TypeOK
  <2>2. known' \subseteq Domains \X Creds /\ unsure' \subseteq Domains
    <3>1. {loaded[i] : i \in DOMAIN loaded} \subseteq Account
      OBVIOUS
    <3>2. QED
      BY <1>9, <3>1, LoginsType DEF RestartFrom
  <2>3. TypeOK'
    <3>1. << >> \in Seq(Account) /\ << >> \in Seq(Validations)
      OBVIOUS
    <3>2. snapshot' \in [Editors -> Seq(Account)]
      BY <1>9, <3>1 DEF RestartFrom
    <3>3. QED
      BY <1>9, <2>1, <2>2, <3>1, <3>2 DEF RestartFrom, TypeOK
  <2>4. ChannelWaits'
    BY <1>9 DEF RestartFrom, ChannelWaits
  <2>5. QED
    BY <2>3, <2>4
<1>10. CASE UNCHANGED vars
  BY <1>10 DEF vars, TypeOK, ChannelWaits
<1>11. Restart => TypeOK' /\ ChannelWaits'
  <2>1. << >> \in Seq(Account) /\ disk \in Seq(Account)
    BY DEF TypeOK
  <2>2. QED
    BY <1>9, <2>1, Zenon DEF Restart
<1>12. QED
  BY <1>1, <1>2, <1>3, <1>4, <1>6, <1>7, <1>8, <1>10, <1>11 DEF Next, Progress

\* The type invariant: in particular a validation that is under way knows the
\* account it has to put back, and the JS thread never answers one that ended.
THEOREM AccountsTypeCorrect == Spec => []TypeOK
BY InitTypes, NextTypes, PTL DEF Spec

-----------------------------------------------------------------------------
(* What is persisted over logins. *)

\* But for domains that may have lost their login, what is persisted is logged in
\* only where the store is, and every copy that waits to be persisted agrees with it.
Kept ==
  /\ \A v \in Validations : pc[v] # "idle" => old[v].domain \in unsure
  /\ \A d \in Domains \ unsure :
       /\ IsLoggedIn(disk, d) => IsLoggedIn(accounts, d)
       /\ \A e \in Editors : pc[e] = "persist" =>
            (IsLoggedIn(snapshot[e], d) <=> IsLoggedIn(accounts, d))

\* Replacing an account leaves the logins of other domains.
LEMMA ReplaceLogins ==
  ASSUME NEW store \in Seq(Account), NEW i \in DOMAIN store, NEW acc \in Account,
         NEW m, m = [store EXCEPT ![i] = acc],
         NEW d, d # store[i].domain, d # acc.domain
  PROVE  IsLoggedIn(m, d) <=> IsLoggedIn(store, d)
BY DEF IsLoggedIn, Of

\* Merging an account leaves the logins of other domains, and all logins.
LEMMA MergeAuthLogins ==
  ASSUME NEW store \in Seq(Account), NEW new \in Account, NEW m, m = MergeAuth(store, new), NEW d
  PROVE  /\ IsLoggedIn(store, d) => IsLoggedIn(m, d)
         /\ d # new.domain => (IsLoggedIn(m, d) <=> IsLoggedIn(store, d))
<1>1. CASE Of(store, new.domain) = {}
  <2>1. /\ DOMAIN store \subseteq DOMAIN m /\ \A i \in DOMAIN store : m[i] = store[i]
        /\ \A i \in DOMAIN m : i \in DOMAIN store \/ m[i] = new
    BY <1>1, MergeAppends
  <2>2. QED
    BY <2>1, Zenon DEF IsLoggedIn, Of
<1>2. CASE Of(store, new.domain) # {}
  <2>1. /\ DOMAIN m = DOMAIN store
        /\ \A i \in DOMAIN store :
             /\ m[i].domain = store[i].domain
             /\ store[i].creds # None => m[i].creds # None
             /\ store[i].domain # new.domain => m[i].creds = store[i].creds
    BY <1>2, MergeRewrites
  <2>2. Of(m, d) = Of(store, d) /\ \A i \in Of(store, d) : i \in DOMAIN store /\ store[i].domain = d
    BY <2>1 DEF Of
  <2>3. QED
    BY <2>1, <2>2, Zenon DEF IsLoggedIn
<1>3. QED
  BY <1>1, <1>2

\* Invalidating a domain leaves the logins of the others.
LEMMA InvalidateLogins ==
  ASSUME NEW store \in Seq(Account), NEW c \in Domains, NEW m, m = Invalidate(store, c),
         NEW d, d # c
  PROVE  IsLoggedIn(m, d) <=> IsLoggedIn(store, d)
BY InvalidateType DEF IsLoggedIn, Of

\* What the metadata declares leaves all logins, and adds none.
LEMMA DeclaredLogins ==
  ASSUME use \in Uses, NEW store \in Seq(Account), NEW auths \in Declarations,
         NEW m \in MergeDeclared(store, auths), NEW d
  PROVE  IsLoggedIn(m, d) <=> IsLoggedIn(store, d)
<1>1. /\ DOMAIN store \subseteq DOMAIN m
      /\ \A i \in DOMAIN store : m[i].domain = store[i].domain /\ m[i].creds = store[i].creds
      /\ \A i \in DOMAIN m \ DOMAIN store : m[i].creds = None
  BY MergeDeclaredType
<1>2. QED
  BY <1>1 DEF IsLoggedIn, Of

\* Initially nothing is persisted and nothing under way.
LEMMA InitKept == Init => Kept
<1> SUFFICES ASSUME Init PROVE Kept
  OBVIOUS
<1>1. \A d : ~IsLoggedIn(<< >>, d)
  BY DEF IsLoggedIn, Of
<1>2. QED
  BY <1>1 DEF Init, Kept

\* Every step keeps the copies in agreement with the store, or marks the domain.
LEMMA NextKept ==
  ASSUME TypeOK, ChannelWaits, Kept, [Next]_vars
  PROVE  /\ Kept'
         /\ \A d \in Domains : IsLoggedIn(disk, d) => IsLoggedIn(disk', d) \/ d \in unsure
<1> DEFINE Survive == \A d \in Domains : IsLoggedIn(disk, d) => IsLoggedIn(disk', d) \/ d \in unsure
<1>0. /\ \A v \in Validations : v \notin Editors
      /\ use.validations \subseteq Validations /\ use.editors \subseteq Editors
      /\ use.domains \subseteq Domains
      /\ Given \subseteq Account
      /\ accounts \in Seq(Account) /\ disk \in Seq(Account)
      /\ pc \in [Validations \cup Editors -> {"idle", "send", "wait", "finish", "persist"}]
      /\ old \in [Validations -> Account \cup {None}]
  <2>1. use \in Usage
    BY AccountAssumption DEF TypeOK
  <2>2. QED
    BY <2>1, AccountAssumption DEF Usage, Given, Account, TypeOK
<1>1. ASSUME NEW v \in use.validations, NEW acc \in Given, BeginValidate(v, acc)
      PROVE  Kept' /\ Survive
  <2>1. acc \in Account /\ v \in Validations
    BY <1>0
  <2>2. PICK i \in DOMAIN accounts :
          /\ accounts[i].domain = acc.domain
          /\ old' = [old EXCEPT ![v] = accounts[i]] /\ accounts' = [accounts EXCEPT ![i] = acc]
    BY <1>1 DEF BeginValidate, IsFirst, Of
  <2>3. /\ pc' = [pc EXCEPT ![v] = "send"] /\ unsure' = unsure \cup {acc.domain}
        /\ UNCHANGED << disk, snapshot >>
    BY <1>1 DEF BeginValidate, Goto
  <2>4. \A d : d # acc.domain => (IsLoggedIn(accounts', d) <=> IsLoggedIn(accounts, d))
    BY <1>0, <2>1, <2>2, ReplaceLogins
  <2>5. \A w \in Validations : pc'[w] # "idle" => old'[w].domain \in unsure'
    BY <1>0, <2>1, <2>2, <2>3 DEF Kept
  <2>6. \A e \in Editors : pc'[e] = pc[e]
    BY <1>0, <2>1, <2>3
  <2>7. QED
    BY <2>3, <2>4, <2>5, <2>6 DEF Kept
<1>2. ASSUME NEW v \in Validations, pc[v] # "idle", pc'[v] # "idle",
             pc' = [pc EXCEPT ![v] = pc'[v]],
             UNCHANGED << accounts, disk, old, snapshot, unsure >>
      PROVE  Kept' /\ Survive
  <2>1. /\ \A w \in Validations : pc'[w] # "idle" <=> pc[w] # "idle"
        /\ \A e \in Editors : pc'[e] = pc[e]
    BY <1>0, <1>2
  <2>2. QED
    BY <1>2, <2>1 DEF Kept
<1>3. ASSUME NEW v \in Validations, SendValidate(v)
      PROVE  Kept' /\ Survive
  <2>1. \/ pc' = [pc EXCEPT ![v] = "wait"]
        \/ pc' = [pc EXCEPT ![v] = "finish"]
    BY <1>3 DEF SendValidate, Goto
  <2>2. pc[v] # "idle" /\ pc'[v] # "idle" /\ pc' = [pc EXCEPT ![v] = pc'[v]]
    BY <1>0, <1>3, <2>1 DEF SendValidate
  <2>3. QED
    BY <1>2, <1>3, <2>2 DEF SendValidate
<1>4. ASSUME JudgeCandidate PROVE Kept' /\ Survive
  <2> DEFINE v == Head(tasks)
  <2>1. v \in Validations /\ pc[v] # "idle"
    BY <1>4, HeadWaits DEF JudgeCandidate
  <2>2. pc' = [pc EXCEPT ![v] = "finish"] /\ UNCHANGED << accounts, disk, old, snapshot, unsure >>
    BY <1>4 DEF JudgeCandidate, Goto
  <2> HIDE DEF v
  <2>3. pc'[v] # "idle" /\ pc' = [pc EXCEPT ![v] = pc'[v]]
    BY <1>0, <2>1, <2>2
  <2>4. QED
    BY <1>2, <2>1, <2>2, <2>3
<1>5. ASSUME NEW v \in Validations, FinishValidate(v)
      PROVE  Kept' /\ Survive
  <2> DEFINE approved == {res[v]} \ {None}
             moved == {acc.domain : acc \in approved}
             left == IF res[v] = None THEN old[v] ELSE res[v]
  <2>1. old[v] \in Account /\ left \in Account /\ old[v].domain \in unsure
        /\ (left.domain \in moved \/ left = old[v])
    BY <1>5 DEF FinishValidate, TypeOK, Kept
  <2>2. /\ pc' = [pc EXCEPT ![v] = "idle"] /\ old' = [old EXCEPT ![v] = None]
        /\ unsure' = unsure \cup moved /\ UNCHANGED << disk, snapshot >>
        /\ \/ accounts' = accounts
           \/ \E i \in DOMAIN accounts :
                accounts[i].domain = old[v].domain /\ accounts' = [accounts EXCEPT ![i] = left]
    BY <1>5 DEF FinishValidate, Goto, IsFirst, Of
  <2> HIDE DEF left, moved
  <2>3. ASSUME NEW d, d \notin unsure'
        PROVE  IsLoggedIn(accounts', d) <=> IsLoggedIn(accounts, d)
    <3>1. d # old[v].domain /\ d # left.domain
      BY <2>1, <2>2, <2>3
    <3>2. QED
      BY <1>0, <2>1, <2>2, <3>1, ReplaceLogins
  <2>4. \A w \in Validations : pc'[w] # "idle" => pc[w] # "idle" /\ old'[w] = old[w]
    BY <1>0, <2>2
  <2>5. \A e \in Editors : pc'[e] = pc[e]
    BY <1>0, <2>2
  <2>6. QED
    BY <2>2, <2>3, <2>4, <2>5 DEF Kept
<1>6. ASSUME NEW e \in Editors, NEW store, Edit(e, store), NEW c, unsure \subseteq unsure',
             \A d \in Domains \ unsure' : d # c => (IsLoggedIn(store, d) <=> IsLoggedIn(accounts, d)),
             c \notin unsure' =>
               /\ IsLoggedIn(accounts, c) => IsLoggedIn(store, c)
               /\ \A f \in Editors : pc[f] # "persist"
      PROVE  Kept' /\ Survive
  <2>1. /\ accounts' = store /\ snapshot' = [snapshot EXCEPT ![e] = store]
        /\ pc' = [pc EXCEPT ![e] = "persist"] /\ UNCHANGED << disk, old >>
    BY <1>6 DEF Edit, Goto
  <2>2. \A v \in Validations : pc'[v] = pc[v]
    BY <1>0, <2>1
  <2>3. /\ snapshot'[e] = store
        /\ \A f \in Editors \ {e} : snapshot'[f] = snapshot[f] /\ pc'[f] = pc[f]
    BY <1>0, <2>1 DEF TypeOK
  <2>4. ASSUME NEW d \in Domains \ unsure'
        PROVE  /\ IsLoggedIn(disk, d) => IsLoggedIn(store, d)
               /\ \A f \in Editors : pc'[f] = "persist" =>
                    (IsLoggedIn(snapshot'[f], d) <=> IsLoggedIn(store, d))
    <3>1. d \in Domains \ unsure
      BY <1>6
    <3>2. CASE d = c
      BY <1>6, <2>3, <3>1, <3>2 DEF Kept
    <3>3. CASE d # c
      BY <1>6, <2>3, <3>1, <3>3 DEF Kept
    <3>4. QED
      BY <3>2, <3>3
  <2>5. QED
    BY <1>6, <2>1, <2>2, <2>4 DEF Kept
<1>7. ASSUME NEW e \in use.editors, NEW new \in Given, EditMerge(e, new)
      PROVE  Kept' /\ Survive
  <2>1. new \in Account /\ e \in Editors
    BY <1>0
  <2> DEFINE store == MergeAuth(accounts, new)
  <2>2. \A d : /\ IsLoggedIn(accounts, d) => IsLoggedIn(store, d)
               /\ d # new.domain => (IsLoggedIn(store, d) <=> IsLoggedIn(accounts, d))
    BY <1>0, <2>1, MergeAuthLogins
  <2>3. Edit(e, store) /\ unsure \subseteq unsure'
        /\ (new.domain \notin unsure' => \A f \in Editors : pc[f] # "persist")
    BY <1>7 DEF EditMerge
  <2> HIDE DEF store
  <2>4. QED
    BY <1>6, <2>1, <2>2, <2>3
<1>8. ASSUME NEW e \in use.editors, NEW c \in use.domains, EditInvalidate(e, c)
      PROVE  Kept' /\ Survive
  <2>1. c \in Domains /\ e \in Editors
    BY <1>0
  <2> DEFINE store == Invalidate(accounts, c)
  <2>2. \A d : d # c => (IsLoggedIn(store, d) <=> IsLoggedIn(accounts, d))
    BY <1>0, <2>1, InvalidateLogins
  <2>3. Edit(e, store) /\ unsure' = unsure \cup {c}
    BY <1>8 DEF EditInvalidate
  <2> HIDE DEF store
  <2>4. QED
    BY <1>6, <2>1, <2>2, <2>3
<1>9. ASSUME NEW e \in Editors, PersistAccounts(e)
      PROVE  Kept' /\ Survive
  <2>1. /\ pc[e] = "persist" /\ disk' \in {disk, snapshot[e]}
        /\ pc' = [pc EXCEPT ![e] = "idle"] /\ snapshot' = [snapshot EXCEPT ![e] = << >>]
        /\ UNCHANGED << accounts, old, unsure >>
    BY <1>9 DEF PersistAccounts, Goto
  <2>2. /\ \A v \in Validations : pc'[v] = pc[v]
        /\ \A f \in Editors : pc'[f] = "persist" => pc[f] = "persist" /\ snapshot'[f] = snapshot[f]
    BY <1>0, <2>1 DEF TypeOK
  <2>3. \A d \in Domains \ unsure : IsLoggedIn(snapshot[e], d) <=> IsLoggedIn(accounts, d)
    BY <2>1 DEF Kept
  <2>4. QED
    BY <2>1, <2>2, <2>3 DEF Kept
<1>10. ASSUME NEW loaded \in Seq(Account), RestartFrom(loaded) PROVE Kept' /\ Survive
  <2>1. \A d : IsLoggedIn(accounts', d) <=> IsLoggedIn(loaded, d)
    BY <1>10, DeclaredLogins DEF RestartFrom, TypeOK
  <2>2. /\ unsure' = (IF loaded = disk THEN {} ELSE Domains) /\ disk' = disk
        /\ \A p \in Validations \cup Editors : pc'[p] = "idle"
    BY <1>10 DEF RestartFrom
  <2>3. QED
    BY <2>1, <2>2 DEF Kept
<1>11. Restart => Kept' /\ Survive
  <2>1. << >> \in Seq(Account) /\ disk \in Seq(Account)
    BY DEF TypeOK
  <2> HIDE DEF Survive
  <2>2. QED
    BY <1>10, <2>1, Zenon DEF Restart
<1>12. ASSUME UNCHANGED vars PROVE Kept' /\ Survive
  BY <1>12 DEF vars, Kept
<1> HIDE DEF Survive
<1>13. Kept' /\ Survive
  BY <1>1, <1>3, <1>4, <1>5, <1>7, <1>8, <1>9, <1>11, <1>12 DEF Next, Progress
<1>14. QED
  BY <1>13 DEF Survive

\* No restart, edit or merge, in whatever order the edits are persisted, logs out
\* what was persisted of a domain, unless it was validated or invalidated, or another
\* edit of it was overtaken, since the accounts were loaded.
THEOREM LoginsAreKept == Spec => LoginsSurvive
<1> DEFINE IInv == TypeOK /\ ChannelWaits /\ Kept
           Survive == \A d \in Domains : IsLoggedIn(disk, d) => IsLoggedIn(disk', d) \/ d \in unsure
<1>1. Init => IInv
  BY InitTypes, InitKept
<1>2. IInv /\ [Next]_vars => IInv'
  BY NextTypes, NextKept
<1>3. IInv /\ [Next]_vars => [Survive]_vars
  BY NextKept
<1>4. QED
  BY <1>1, <1>2, <1>3, PTL DEF Spec, LoginsSurvive

-----------------------------------------------------------------------------
(* What validate leaves in the store. *)

\* Of a domain that is not mixed, at most one validation is under way, and it holds
\* known credentials to put back; the only unknown ones are those of the account it
\* finds first, when it finishes too.
Judging ==
  /\ \A v \in Validations : pc[v] # "idle" /\ old[v].domain \notin mixed =>
       /\ Known(old[v])
       /\ \A w \in Validations \ {v} : pc[w] # "idle" => old[w].domain # old[v].domain
  /\ \A i \in DOMAIN accounts :
       LET d == accounts[i].domain IN
       Known(accounts[i]) \/ d \in mixed \/ (Validating(d) /\ IsFirst(accounts, d, i))

\* Initially the accounts are declared, without credentials.
LEMMA InitJudging == Init => Judging
<1> SUFFICES ASSUME Init PROVE Judging
  OBVIOUS
<1>1. << >> \in Seq(Account) /\ DOMAIN << >> = {}
  OBVIOUS
<1>2. \A i \in DOMAIN accounts : accounts[i].creds = None
  <2>1. PICK auths \in Declarations : accounts \in MergeDeclared(<< >>, auths)
    BY DEF Init
  <2>2. use \in Uses
    BY DEF Init
  <2>3. \A i \in DOMAIN accounts \ DOMAIN << >> : accounts[i].creds = None
    BY <1>1, <2>1, <2>2, MergeDeclaredType, Zenon
  <2>4. QED
    BY <1>1, <2>3
<1>3. \A v \in Validations : pc[v] = "idle"
  BY DEF Init
<1>4. QED
  BY <1>2, <1>3 DEF Judging, Known

\* As long as validations neither begin nor end, accounts may be added that are known,
\* and others may get known credentials.
LEMMA StillJudging ==
  ASSUME Judging, known \subseteq known', mixed' = mixed, old' = old,
         \A v \in Validations : pc'[v] # "idle" <=> pc[v] # "idle",
         DOMAIN accounts \subseteq DOMAIN accounts',
         \A i \in DOMAIN accounts : accounts'[i].domain = accounts[i].domain,
         \A i \in DOMAIN accounts' :
           Known(accounts[i])' \/ (i \in DOMAIN accounts /\ accounts'[i].creds = accounts[i].creds),
         \A i \in DOMAIN accounts' \ DOMAIN accounts : Of(accounts, accounts'[i].domain) = {}
  PROVE  Judging'
<1>1. \A d : Validating(d)' <=> Validating(d)
  BY DEF Validating
<1>2. \A v \in Validations : Known(old[v]) => Known(old[v])'
  BY DEF Known
<1>3. ASSUME NEW v \in Validations, pc'[v] # "idle", old'[v].domain \notin mixed'
      PROVE  /\ Known(old[v])'
             /\ \A w \in Validations \ {v} : pc'[w] # "idle" => old'[w].domain # old'[v].domain
  BY <1>2, <1>3 DEF Judging
<1>4. ASSUME NEW i \in DOMAIN accounts', ~Known(accounts[i])', accounts'[i].domain \notin mixed'
      PROVE  Validating(accounts[i].domain)' /\ IsFirst(accounts, accounts[i].domain, i)'
  <2>0. PICK d : d = accounts'[i].domain
    OBVIOUS
  <2>1. /\ i \in DOMAIN accounts /\ accounts'[i].creds = accounts[i].creds /\ accounts[i].domain = d
    BY <1>4, <2>0
  <2>2. ~Known(accounts[i])
    BY <1>4, <2>0, <2>1 DEF Known
  <2>3. Validating(d) /\ IsFirst(accounts, d, i)
    BY <1>4, <2>0, <2>1, <2>2 DEF Judging
  <2>4. Of(accounts', d) = Of(accounts, d)
    BY <2>1 DEF Of
  <2>5. IsFirst(accounts', d, i)
    BY <2>3, <2>4 DEF IsFirst
  <2>6. \E v \in Validations : pc'[v] # "idle" /\ old'[v].domain = d
    BY <2>3 DEF Validating
  <2>7. QED
    BY <2>0, <2>5, <2>6 DEF Validating, IsFirst, Of
<1>5. QED
  BY <1>3, <1>4 DEF Judging

\* Validations begin, are judged and end, editors merge and invalidate, and processes
\* start again: unknown credentials stay where they are put back.
LEMMA NextJudging ==
  ASSUME TypeOK, ChannelWaits, Judging, [Next]_vars
  PROVE  Judging'
<1>0. /\ \A v \in Validations : v \notin Editors
      /\ use.validations \subseteq Validations /\ use.editors \subseteq Editors
      /\ use.domains \subseteq Domains
      /\ Given \subseteq Account
      /\ accounts \in Seq(Account)
      /\ pc \in [Validations \cup Editors -> {"idle", "send", "wait", "finish", "persist"}]
      /\ old \in [Validations -> Account \cup {None}]
  <2>1. use \in Usage
    BY AccountAssumption DEF TypeOK
  <2>2. QED
    BY <2>1, AccountAssumption DEF Usage, Given, Account, TypeOK
<1>1. ASSUME UNCHANGED << accounts, old, known, mixed >>,
             \A v \in Validations : pc'[v] # "idle" <=> pc[v] # "idle"
      PROVE  Judging'
  BY <1>1, StillJudging
<1>2. ASSUME NEW v \in use.validations, NEW acc \in Given, BeginValidate(v, acc)
      PROVE  Judging'
  <2>1. acc \in Account /\ v \in Validations
    BY <1>0
  <2> DEFINE d == acc.domain
  <2>2. PICK i \in DOMAIN accounts :
          /\ IsFirst(accounts, d, i)
          /\ old' = [old EXCEPT ![v] = accounts[i]] /\ accounts' = [accounts EXCEPT ![i] = acc]
    BY <1>2 DEF BeginValidate
  <2>3. /\ pc[v] = "idle" /\ pc' = [pc EXCEPT ![v] = "send"]
        /\ mixed' = mixed \cup {c \in {d} : Validating(c)} /\ known' = known
    BY <1>2 DEF BeginValidate, Goto
  <2>4. accounts[i].domain = d
    BY <2>2 DEF IsFirst, Of
  <2> HIDE DEF d
  <2>5. /\ pc'[v] = "send" /\ old'[v] = accounts[i]
        /\ \A w \in Validations \ {v} : pc'[w] = pc[w] /\ old'[w] = old[w]
        /\ DOMAIN accounts' = DOMAIN accounts /\ accounts'[i] = acc /\ acc.domain = d
        /\ \A j \in DOMAIN accounts \ {i} : accounts'[j] = accounts[j]
    BY <1>0, <2>1, <2>2, <2>3 DEF d
  <2>6. d \notin mixed' => ~Validating(d) /\ d \notin mixed
    BY <2>3
  <2>7. d \notin mixed' => Known(accounts[i])
    BY <2>4, <2>6 DEF Judging
  <2>8. ASSUME NEW w \in Validations, pc'[w] # "idle", old'[w].domain \notin mixed'
        PROVE  /\ Known(old[w])'
               /\ \A u \in Validations \ {w} : pc'[u] # "idle" => old'[u].domain # old'[w].domain
    <3>1. CASE w = v
      BY <2>3, <2>4, <2>5, <2>6, <2>7, <2>8, <3>1 DEF Known, Validating
    <3>2. CASE w # v
      <4>1. old[w].domain \notin mixed /\ pc[w] # "idle"
        BY <2>3, <2>5, <2>8, <3>2
      <4>2. old[w].domain # d
        BY <2>5, <2>6, <2>8, <3>2 DEF Validating
      <4>3. QED
        BY <2>3, <2>4, <2>5, <3>2, <4>1, <4>2 DEF Judging, Known
    <3>3. QED
      BY <3>1, <3>2
  <2>9. \A c : Validating(c) => Validating(c)'
    BY <2>3, <2>5 DEF Validating
  <2>10. \A c : Of(accounts', c) = Of(accounts, c)
    BY <2>4, <2>5 DEF Of
  <2>11. ASSUME NEW j \in DOMAIN accounts'
         PROVE  Known(accounts[j])' \/ accounts'[j].domain \in mixed'
                  \/ (Validating(accounts[j].domain)' /\ IsFirst(accounts, accounts[j].domain, j)')
    <3>1. CASE j = i
      <4>1. Validating(d)'
        BY <2>1, <2>4, <2>5 DEF Validating, d
      <4>2. IsFirst(accounts', d, i)
        BY <2>2, <2>10 DEF IsFirst
      <4>3. QED
        BY <2>1, <2>5, <3>1, <4>1, <4>2 DEF d, Validating, IsFirst, Of
    <3>2. CASE j # i
      <4>1. accounts'[j] = accounts[j] /\ j \in DOMAIN accounts
        BY <2>5, <3>2
      <4>2. Known(accounts[j]) \/ accounts[j].domain \in mixed
              \/ (Validating(accounts[j].domain) /\ IsFirst(accounts, accounts[j].domain, j))
        BY <4>1 DEF Judging
      <4>3. PICK c : c = accounts[j].domain
        OBVIOUS
      <4>4. IsFirst(accounts, c, j) => IsFirst(accounts', c, j)
        BY <2>10 DEF IsFirst
      <4>5. Validating(c) => \E w \in Validations : pc'[w] # "idle" /\ old'[w].domain = c
        BY <2>3, <2>5 DEF Validating
      <4>6. Known(accounts[j]) => Known(accounts[j])'
        BY <2>3, <4>1 DEF Known
      <4>7. QED
        BY <2>3, <4>1, <4>2, <4>3, <4>4, <4>5, <4>6 DEF Validating, IsFirst, Of
    <3>3. QED
      BY <3>1, <3>2
  <2>12. QED
    BY <2>8, <2>11 DEF Judging
<1>3. ASSUME NEW v \in Validations, SendValidate(v) PROVE Judging'
  <2>1. \A w \in Validations : pc'[w] # "idle" <=> pc[w] # "idle"
    BY <1>0, <1>3 DEF SendValidate, Goto
  <2>2. QED
    BY <1>1, <1>3, <2>1 DEF SendValidate
<1>4. ASSUME JudgeCandidate PROVE Judging'
  <2> DEFINE v == Head(tasks)
  <2>1. v \in Validations /\ pc[v] # "idle"
    BY <1>4, HeadWaits DEF JudgeCandidate
  <2>2. pc' = [pc EXCEPT ![v] = "finish"] /\ UNCHANGED << accounts, old, known, mixed >>
    BY <1>4 DEF JudgeCandidate, Goto
  <2> HIDE DEF v
  <2>3. \A w \in Validations : pc'[w] # "idle" <=> pc[w] # "idle"
    BY <1>0, <2>1, <2>2
  <2>4. QED
    BY <1>1, <2>2, <2>3
<1>5. ASSUME NEW v \in Validations, FinishValidate(v) PROVE Judging'
  <2> DEFINE approved == {res[v]} \ {None}
             moved == {acc.domain : acc \in approved}
             left == IF res[v] = None THEN old[v] ELSE res[v]
             d == old[v].domain
  <2>1. /\ pc[v] # "idle" /\ pc' = [pc EXCEPT ![v] = "idle"] /\ old' = [old EXCEPT ![v] = None]
        /\ mixed' = mixed \cup {c \in moved : \E w \in Validations \ {v} :
                                                pc[w] # "idle" /\ old[w].domain = c}
        /\ known \subseteq known'
        /\ \/ Of(accounts, d) = {} /\ accounts' = accounts
           \/ /\ known' = known \cup Logins(approved)
              /\ \E i \in DOMAIN accounts :
                   IsFirst(accounts, d, i) /\ accounts' = [accounts EXCEPT ![i] = left]
    BY <1>5 DEF FinishValidate, Goto
  <2>2. left \in Account /\ old[v] \in Account
    BY <1>5 DEF FinishValidate, TypeOK
  <2>3. \/ left = old[v]
        \/ left.domain \in moved /\ (left.creds # None => <<left.domain, left.creds>> \in Logins(approved))
    BY DEF Logins
  <2> HIDE DEF left, moved, approved
  <2>4. /\ pc'[v] = "idle"
        /\ \A w \in Validations \ {v} : pc'[w] = pc[w] /\ old'[w] = old[w]
    BY <1>0, <2>1
  <2>5. ASSUME NEW w \in Validations, pc'[w] # "idle", old'[w].domain \notin mixed'
        PROVE  /\ Known(old[w])'
               /\ \A u \in Validations \ {w} : pc'[u] # "idle" => old'[u].domain # old'[w].domain
    <3>1. w # v /\ pc[w] # "idle" /\ old'[w] = old[w] /\ old[w].domain \notin mixed
      BY <2>1, <2>4, <2>5
    <3>2. QED
      BY <2>1, <2>4, <3>1 DEF Judging, Known
  <2>6. \A c : Validating(c) /\ c # d => \E w \in Validations \ {v} : pc[w] # "idle" /\ old[w].domain = c
    BY DEF Validating
  <2>7. ASSUME NEW j \in DOMAIN accounts, accounts[j] = accounts'[j],
               accounts[j].domain # d \/ ~IsFirst(accounts, d, j),
               \A k \in DOMAIN accounts' : accounts'[k] = accounts[k] \/ accounts'[k] = left,
               DOMAIN accounts' = DOMAIN accounts,
               left = old[v] \/ left.domain \in moved,
               \A k \in DOMAIN accounts' : accounts'[k] # accounts[k] => accounts[k].domain = d
        PROVE  Known(accounts[j])' \/ accounts'[j].domain \in mixed'
                 \/ (Validating(accounts[j].domain)' /\ IsFirst(accounts, accounts[j].domain, j)')
    <3>1. Known(accounts[j]) \/ accounts[j].domain \in mixed
            \/ (Validating(accounts[j].domain) /\ IsFirst(accounts, accounts[j].domain, j))
      BY DEF Judging
    <3>2. PICK c : c = accounts[j].domain
      OBVIOUS
    <3>3. Known(accounts[j]) => Known(accounts[j])'
      BY <2>1, <2>7 DEF Known
    <3>4. ASSUME Validating(c), IsFirst(accounts, c, j), c \notin mixed'
          PROVE  Validating(accounts[j].domain)' /\ IsFirst(accounts, accounts[j].domain, j)'
      <4>1. c # d
        BY <2>7, <3>2, <3>4
      <4>2. PICK w \in Validations \ {v} : pc[w] # "idle" /\ old[w].domain = c
        BY <2>6, <3>4, <4>1
      <4>3. c \notin moved
        BY <2>1, <3>4, <4>2
      <4>4. left.domain # c
        BY <2>7, <4>1, <4>3
      <4>5. Of(accounts', c) = Of(accounts, c)
        BY <2>7, <4>1, <4>4 DEF Of
      <4>6. IsFirst(accounts', c, j)
        BY <3>4, <4>5 DEF IsFirst
      <4>7. pc'[w] # "idle" /\ old'[w].domain = c
        BY <2>4, <4>2
      <4> HIDE DEF d
      <4>8. QED
        BY <2>7, <3>2, <4>6, <4>7 DEF Validating, IsFirst, Of
    <3>5. QED
      BY <2>1, <2>7, <3>1, <3>2, <3>3, <3>4
  <2>8. CASE Of(accounts, d) = {} /\ accounts' = accounts
    <3>1. \A j \in DOMAIN accounts : accounts[j].domain # d
      BY <2>8 DEF Of
    <3>2. \A j \in DOMAIN accounts' :
            Known(accounts[j])' \/ accounts'[j].domain \in mixed'
              \/ (Validating(accounts[j].domain)' /\ IsFirst(accounts, accounts[j].domain, j)')
      BY <2>3, <2>7, <2>8, <3>1
    <3>3. QED
      BY <2>5, <3>2 DEF Judging
  <2>9. ASSUME known' = known \cup Logins(approved),
               NEW i \in DOMAIN accounts, IsFirst(accounts, d, i), accounts' = [accounts EXCEPT ![i] = left]
        PROVE  Judging'
    <3>1. /\ DOMAIN accounts' = DOMAIN accounts /\ accounts'[i] = left /\ accounts[i].domain = d
          /\ \A k \in DOMAIN accounts \ {i} : accounts'[k] = accounts[k]
      BY <2>9 DEF IsFirst, Of
    <3>2. Known(accounts[i])' \/ accounts'[i].domain \in mixed'
      <4>1. CASE left = old[v]
        <5>1. d \notin mixed => Known(old[v])
          BY <2>1 DEF Judging
        <5>2. QED
          BY <2>1, <3>1, <4>1, <5>1 DEF Known
      <4>2. CASE left.creds # None => <<left.domain, left.creds>> \in Logins(approved)
        BY <2>9, <3>1, <4>2 DEF Known
      <4>3. QED
        BY <2>3, <4>1, <4>2
    <3>3. ASSUME NEW j \in DOMAIN accounts, j # i
          PROVE  accounts[j].domain # d \/ ~IsFirst(accounts, d, j)
      BY <1>0, <2>9, <3>3 DEF IsFirst, Of
    <3>4. \A j \in DOMAIN accounts' :
            Known(accounts[j])' \/ accounts'[j].domain \in mixed'
              \/ (Validating(accounts[j].domain)' /\ IsFirst(accounts, accounts[j].domain, j)')
      BY <2>3, <2>7, <3>1, <3>2, <3>3
    <3>5. QED
      BY <2>5, <3>4 DEF Judging
  <2>10. QED
    BY <2>1, <2>8, <2>9
<1>6. ASSUME NEW e \in use.editors, NEW new \in Given, EditMerge(e, new) PROVE Judging'
  <2>1. new \in Account /\ e \in Editors
    BY <1>0
  <2>2. /\ accounts' = MergeAuth(accounts, new) /\ known' = known \cup Logins({new})
        /\ pc' = [pc EXCEPT ![e] = "persist"] /\ UNCHANGED << old, mixed >>
    BY <1>6 DEF EditMerge, Edit, Goto
  <2>3. \A w \in Validations : pc'[w] # "idle" <=> pc[w] # "idle"
    BY <1>0, <2>1, <2>2
  <2>4. new.creds # None => <<new.domain, new.creds>> \in known'
    BY <2>2 DEF Logins
  <2>5. CASE Of(accounts, new.domain) = {}
    <3>1. /\ Len(accounts) + 1 \in DOMAIN accounts' /\ accounts'[Len(accounts) + 1] = new
          /\ DOMAIN accounts \subseteq DOMAIN accounts' /\ \A i \in DOMAIN accounts : accounts'[i] = accounts[i]
          /\ \A i \in DOMAIN accounts' : i \in DOMAIN accounts \/ i = Len(accounts) + 1
      <4>1. accounts' = Append(accounts, new)
        BY <2>2, <2>5 DEF MergeAuth
      <4>2. /\ Len(accounts) \in Nat /\ DOMAIN accounts = 1..Len(accounts)
            /\ DOMAIN accounts' = 1..(Len(accounts) + 1) /\ accounts'[Len(accounts) + 1] = new
            /\ \A i \in DOMAIN accounts : accounts'[i] = accounts[i]
        BY <1>0, <4>1
      <4>3. QED
        BY <4>2
    <3>2. \A i \in DOMAIN accounts' \ DOMAIN accounts : Of(accounts, accounts'[i].domain) = {}
      BY <2>5, <3>1
    <3>3. \A i \in DOMAIN accounts' :
            Known(accounts[i])' \/ (i \in DOMAIN accounts /\ accounts'[i].creds = accounts[i].creds)
      BY <2>4, <3>1 DEF Known
    <3>4. QED
      BY <2>2, <2>3, <3>1, <3>2, <3>3, StillJudging
  <2>6. CASE Of(accounts, new.domain) # {}
    <3>1. /\ DOMAIN accounts' = DOMAIN accounts
          /\ \A i \in DOMAIN accounts :
               /\ accounts'[i].domain = accounts[i].domain
               /\ accounts'[i].creds = accounts[i].creds
                    \/ (new.creds # None /\ accounts'[i].creds = new.creds)
               /\ accounts[i].domain # new.domain => accounts'[i].creds = accounts[i].creds
      <4>1. LET m == MergeAuth(accounts, new) IN
            /\ DOMAIN m = DOMAIN accounts
            /\ \A i \in DOMAIN accounts :
                 /\ m[i].domain = accounts[i].domain
                 /\ m[i].creds = accounts[i].creds \/ (new.creds # None /\ m[i].creds = new.creds)
                 /\ accounts[i].domain # new.domain => m[i].creds = accounts[i].creds
        BY <1>0, <2>1, <2>6, MergeRewrites
      <4>2. QED
        BY <2>2, <4>1
    <3>2. \A i \in DOMAIN accounts' :
            Known(accounts[i])' \/ (i \in DOMAIN accounts /\ accounts'[i].creds = accounts[i].creds)
      BY <2>4, <3>1 DEF Known
    <3>3. QED
      BY <2>2, <2>3, <3>1, <3>2, StillJudging
  <2>7. QED
    BY <2>5, <2>6
<1>7. ASSUME NEW e \in use.editors, NEW c \in use.domains, EditInvalidate(e, c) PROVE Judging'
  <2>1. c \in Domains /\ e \in Editors
    BY <1>0
  <2>2. /\ accounts' = Invalidate(accounts, c)
        /\ pc' = [pc EXCEPT ![e] = "persist"] /\ UNCHANGED << old, known, mixed >>
    BY <1>7 DEF EditInvalidate, Edit, Goto
  <2>3. \A w \in Validations : pc'[w] # "idle" <=> pc[w] # "idle"
    BY <1>0, <2>1, <2>2
  <2>4. /\ DOMAIN accounts' = DOMAIN accounts
        /\ \A i \in DOMAIN accounts :
             /\ accounts'[i].domain = accounts[i].domain
             /\ accounts'[i].creds = IF accounts[i].domain = c THEN None ELSE accounts[i].creds
    BY <1>0, <2>1, <2>2, InvalidateType
  <2>5. \A i \in DOMAIN accounts' :
          Known(accounts[i])' \/ (i \in DOMAIN accounts /\ accounts'[i].creds = accounts[i].creds)
    BY <2>4 DEF Known
  <2>6. QED
    BY <2>2, <2>3, <2>4, <2>5, StillJudging
<1>8. ASSUME NEW e \in Editors, PersistAccounts(e) PROVE Judging'
  <2>1. \A w \in Validations : pc'[w] # "idle" <=> pc[w] # "idle"
    BY <1>0, <1>8 DEF PersistAccounts, Goto
  <2>2. QED
    BY <1>1, <1>8, <2>1 DEF PersistAccounts
<1>9. ASSUME NEW loaded \in Seq(Account), RestartFrom(loaded) PROVE Judging'
  <2>1. PICK auths \in Declarations : accounts' \in MergeDeclared(loaded, auths)
    BY <1>9 DEF RestartFrom
  <2>2. use \in Uses
    BY DEF TypeOK
  <2>3. /\ \A i \in DOMAIN loaded :
             accounts'[i].domain = loaded[i].domain /\ accounts'[i].creds = loaded[i].creds
        /\ \A i \in DOMAIN accounts' \ DOMAIN loaded : accounts'[i].creds = None
    BY <2>1, <2>2, MergeDeclaredType, Zenon
  <2>4. /\ known' = Logins({loaded[i] : i \in DOMAIN loaded})
        /\ \A w \in Validations : pc'[w] = "idle"
    BY <1>9 DEF RestartFrom
  <2>5. \A i \in DOMAIN loaded : loaded[i].creds # None => <<loaded[i].domain, loaded[i].creds>> \in known'
    BY <2>4 DEF Logins
  <2>6. \A i \in DOMAIN accounts' : Known(accounts[i])'
    BY <2>3, <2>5 DEF Known
  <2>7. QED
    BY <2>4, <2>6 DEF Judging
<1>10. Restart => Judging'
  <2>1. << >> \in Seq(Account) /\ disk \in Seq(Account)
    BY DEF TypeOK
  <2>2. QED
    BY <1>9, <2>1, Zenon DEF Restart
<1>11. ASSUME UNCHANGED vars PROVE Judging'
  BY <1>1, <1>11 DEF vars
<1>12. QED
  BY <1>2, <1>3, <1>4, <1>5, <1>6, <1>7, <1>8, <1>10, <1>11 DEF Next, Progress

\* Whatever accounts the script answers with, and whatever was merged, invalidated or
\* declared meanwhile, the store keeps no credentials but those that were merged,
\* loaded or approved, once no validation of their domain is under way: unless two
\* were, or one moved an account into the domain of another.
THEOREM OnlyValidatedStay == Spec => []OnlyValidatedCredsStay
<1> DEFINE IInv == TypeOK /\ ChannelWaits /\ Judging
<1>1. Init => IInv
  BY InitTypes, InitJudging
<1>2. IInv /\ [Next]_vars => IInv'
  BY NextTypes, NextJudging
<1>3. IInv => OnlyValidatedCredsStay
  BY DEF Judging, OnlyValidatedCredsStay
<1>4. QED
  BY <1>1, <1>2, <1>3, PTL DEF Spec
=============================================================================
