-------------------------- MODULE AccountValidation --------------------------
(***************************************************************************)
(* The accounts of one extension: AuthStore (rust/core/src/store/auth.rs), *)
(* and what changes it concurrently.  Extension::validate puts a candidate *)
(* account into the store, has the script judge it on the JS thread, and   *)
(* keeps the account the script answers with, or puts the old one back.    *)
(* Meanwhile scripts and the application merge and invalidate accounts,    *)
(* which also persists a copy of the whole store.                          *)
(*                                                                         *)
(* The script may answer with any account, of another domain too: validate *)
(* takes all of it but the credentials.                                    *)
(***************************************************************************)
EXTENDS Naturals, Sequences, FiniteSets, SequencesExt

CONSTANTS
  Domains,
  Validations,   \* concurrent calls of Extension::validate
  Editors,       \* concurrent calls of mergeAuth and invalidate
  Auths,         \* the ways to log in an account can be declared with
  Creds,         \* credentials
  Profiles,      \* user names and covers
  Uses,          \* what applications and scripts do, see Usage
  MaxAccounts,   \* bound: the length of the list of accounts
  None           \* Rust's None

Usage == [validations : SUBSET Validations, editors : SUBSET Editors,
          domains : SUBSET Domains, auths : SUBSET Auths,
          creds : SUBSET Creds, profiles : SUBSET Profiles,
          restarts : BOOLEAN]     \* whether the process may end and start again

Account == [domain : Domains, auth : Auths,
            creds : Creds \cup {None}, profile : Profiles \cup {None}]

ASSUME AccountAssumption ==
  /\ None \notin Creds \cup Profiles \cup Account
  /\ IsFiniteSet(Domains)
  /\ Validations \cap Editors = {}
  /\ Uses \subseteq Usage

VARIABLES
  use,        \* what this application and its scripts do
  accounts,   \* AuthStore.accounts
  disk,       \* the accounts store_data_secure("auth") was last called with
  pc,
  old,        \* the account a validation replaced by its candidate
  candidate,  \* the account in a validation's task
  res,        \* what a validation got back: an account with the candidate's credentials, or none
  tasks,      \* the Validate tasks in the channel of the JS thread
  snapshot,   \* the copy of the store an editor is about to persist
  known,      \* history: credentials of a domain that were merged, loaded, or kept after a validation
  mixed,      \* history: domains of which two validations were under way, or into whose
              \* validation another one moved an account
  unsure      \* history: domains whose login a validation, an invalidation, an edit that
              \* overtook another or a failed load may have changed

vars == << use, accounts, disk, pc, old, candidate, res, tasks, snapshot, known, mixed, unsure >>

-----------------------------------------------------------------------------
(* AuthStore: a list, in which a domain should, and need not, be only once. *)

Of(store, d) == {i \in DOMAIN store : store[i].domain = d}

\* The account get_mut finds.
IsFirst(store, d, i) == i \in Of(store, d) /\ \A j \in Of(store, d) : i <= j

IsLoggedIn(store, d) == \E i \in Of(store, d) : store[i].creds # None

Or(a, b) == IF a = None THEN b ELSE a

\* Mutant: another way to log in replaces the account as a whole.
MutantMergeForgetsCreds(acc, new) ==
  IF acc.auth # new.auth THEN new
  ELSE [acc EXCEPT !.creds = Or(new.creds, @), !.profile = Or(new.profile, @)]

\* A definition with another way to log in replaces the account; credentials
\* are only ever replaced by credentials.
MergedInto(acc, new) ==
  [acc EXCEPT !.auth    = new.auth,
              !.creds   = Or(new.creds, @),
              !.profile = IF acc.auth # new.auth THEN new.profile ELSE Or(new.profile, @)]

MergeAuth(store, new) ==
  IF Of(store, new.domain) = {} THEN Append(store, new)
  ELSE [i \in DOMAIN store |->
          IF store[i].domain = new.domain THEN MergedInto(store[i], new) ELSE store[i]]

Invalidate(store, d) ==
  [i \in DOMAIN store |->
     IF store[i].domain = d THEN [store[i] EXCEPT !.creds = None] ELSE store[i]]

\* DionExtension::create merges the accounts the metadata declares, which
\* carry no credentials, into what was loaded; those of new domains are added
\* in the order of the metadata.
Declarations == UNION {[ds -> use.auths] : ds \in SUBSET use.domains}

Declared(d, auth) == [domain |-> d, auth |-> auth, creds |-> None, profile |-> None]

MergeDeclared(store, auths) ==
  LET merged == [i \in DOMAIN store |->
                   LET d == store[i].domain
                   IN IF d \in DOMAIN auths THEN MergedInto(store[i], Declared(d, auths[d]))
                      ELSE store[i]]
      missing == {d \in DOMAIN auths : Of(store, d) = {}}
  IN {merged \o [i \in DOMAIN order |-> Declared(order[i], auths[order[i]])] :
        order \in SetToSeqs(missing)}

-----------------------------------------------------------------------------

Goto(p, label) == pc' = [pc EXCEPT ![p] = label]

Validating(d) == \E v \in Validations : pc[v] # "idle" /\ old[v].domain = d

\* The credentials of a set of accounts, each with its domain.
Logins(accs) == {<<acc.domain, acc.creds>> : acc \in {a \in accs : a.creds # None}}

Init ==
  /\ use \in Uses
  /\ \E auths \in Declarations : accounts \in MergeDeclared(<< >>, auths)
  /\ disk      = << >>
  /\ pc        = [p \in Validations \cup Editors |-> "idle"]
  /\ old       = [v \in Validations |-> None]
  /\ candidate = [v \in Validations |-> None]
  /\ res       = [v \in Validations |-> None]
  /\ tasks     = << >>
  /\ snapshot  = [e \in Editors |-> << >>]
  /\ known     = {} /\ mixed = {} /\ unsure = {}

\* Mutant: the candidate is stored for a domain without an account.
MutantBeginUnknownAccount(v, acc) ==
  LET d == acc.domain IN
  /\ pc[v] = "idle"
  /\ \/ \E i \in DOMAIN accounts :
          /\ IsFirst(accounts, d, i)
          /\ old' = [old EXCEPT ![v] = accounts[i]]
          /\ accounts' = [accounts EXCEPT ![i] = acc]
     \/ /\ Of(accounts, d) = {} /\ Len(accounts) < MaxAccounts
        /\ accounts' = Append(accounts, acc)
        /\ UNCHANGED old
  /\ candidate' = [candidate EXCEPT ![v] = acc]
  /\ mixed' = mixed \cup {c \in {d} : Validating(c)}
  /\ unsure' = unsure \cup {d}
  /\ Goto(v, "send")
  /\ UNCHANGED << use, disk, res, tasks, snapshot, known >>

\* The first critical section of validate: the candidate becomes visible.
BeginValidate(v, acc) ==
  LET d == acc.domain IN
  /\ pc[v] = "idle"
  /\ \E i \in DOMAIN accounts :
       /\ IsFirst(accounts, d, i)
       /\ old' = [old EXCEPT ![v] = accounts[i]]
       /\ accounts' = [accounts EXCEPT ![i] = acc]
  /\ candidate' = [candidate EXCEPT ![v] = acc]
  /\ mixed' = mixed \cup {c \in {d} : Validating(c)}
  /\ unsure' = unsure \cup {d}
  /\ Goto(v, "send")
  /\ UNCHANGED << use, disk, res, tasks, snapshot, known >>

\* A disabled extension, or a channel whose thread is gone, fails at once.
SendValidate(v) ==
  /\ pc[v] = "send"
  /\ \/ tasks' = Append(tasks, v) /\ Goto(v, "wait") /\ UNCHANGED candidate
     \/ Goto(v, "finish") /\ candidate' = [candidate EXCEPT ![v] = None] /\ UNCHANGED tasks
  /\ UNCHANGED << use, accounts, disk, old, res, snapshot, known, mixed, unsure >>

\* What applications and scripts pass to validate and mergeAuth, and what scripts answer.
Given == [domain : use.domains, auth : use.auths,
          creds : use.creds \cup {None}, profile : use.profiles \cup {None}]

\* Mutant: the JS thread may drop the reply channel, unnoticed.
MutantJudgeDropsReply ==
  /\ tasks # << >>
  /\ tasks' = Tail(tasks)
  /\ \/ Goto(Head(tasks), "finish") /\ candidate' = [candidate EXCEPT ![Head(tasks)] = None]
     \/ UNCHANGED << pc, candidate >>
  /\ UNCHANGED << use, accounts, disk, old, res, snapshot, known, mixed, unsure >>

\* The JS thread runs one task at a time.  The script answers with null, or throws, or
\* answers with an account.
JudgeCandidate ==
  /\ tasks # << >>
  /\ LET v == Head(tasks)
         kept == {[answer EXCEPT !.creds = candidate[v].creds] : answer \in Given}
     IN /\ res' \in {[res EXCEPT ![v] = r] : r \in {None} \cup kept}
        /\ candidate' = [candidate EXCEPT ![v] = None]
        /\ Goto(v, "finish")
  /\ tasks' = Tail(tasks)
  /\ UNCHANGED << use, accounts, disk, old, snapshot, known, mixed, unsure >>

\* Mutant: the old account is not put back.
MutantFinishKeepsCandidate(v) ==
  LET d == old[v].domain
      approved == {res[v]} \ {None}
      moved == {acc.domain : acc \in approved}
  IN
  /\ pc[v] = "finish"
  /\ \/ /\ res[v] # None
        /\ \E i \in DOMAIN accounts :
             IsFirst(accounts, d, i) /\ accounts' = [accounts EXCEPT ![i] = res[v]]
        /\ known' = known \cup Logins(approved)
     \/ res[v] = None /\ UNCHANGED << accounts, known >>
  /\ mixed' = mixed \cup {c \in moved : \E w \in Validations \ {v} : pc[w] # "idle" /\ old[w].domain = c}
  /\ unsure' = unsure \cup moved
  /\ old' = [old EXCEPT ![v] = None]
  /\ res' = [res EXCEPT ![v] = None]
  /\ Goto(v, "idle")
  /\ UNCHANGED << use, disk, candidate, tasks, snapshot >>

\* The second critical section of validate; an error if the domain has no account left.
FinishValidate(v) ==
  LET d == old[v].domain
      approved == {res[v]} \ {None}
      moved == {acc.domain : acc \in approved}
  IN
  /\ pc[v] = "finish"
  /\ \/ /\ \E i \in DOMAIN accounts :
             /\ IsFirst(accounts, d, i)
             /\ accounts' = [accounts EXCEPT ![i] = IF res[v] = None THEN old[v] ELSE res[v]]
        /\ known' = known \cup Logins(approved)
     \/ Of(accounts, d) = {} /\ UNCHANGED << accounts, known >>
  /\ mixed' = mixed \cup {c \in moved : \E w \in Validations \ {v} : pc[w] # "idle" /\ old[w].domain = c}
  /\ unsure' = unsure \cup moved
  /\ old' = [old EXCEPT ![v] = None]
  /\ res' = [res EXCEPT ![v] = None]
  /\ Goto(v, "idle")
  /\ UNCHANGED << use, disk, candidate, tasks, snapshot >>

-----------------------------------------------------------------------------
(* mergeAuth and invalidate: a change under the write lock, which also     *)
(* takes the copy that is persisted after the lock is released.            *)

Edit(e, store) ==
  /\ pc[e] = "idle"
  /\ accounts' = store
  /\ snapshot' = [snapshot EXCEPT ![e] = store]
  /\ Goto(e, "persist")
  /\ UNCHANGED << use, disk, old, candidate, res, tasks, mixed >>

EditMerge(e, new) ==
  /\ Of(accounts, new.domain) = {} => Len(accounts) < MaxAccounts
  /\ Edit(e, MergeAuth(accounts, new))
  /\ known' = known \cup Logins({new})
  /\ unsure' = unsure \cup {d \in {new.domain} : \E f \in Editors : pc[f] = "persist"}

EditInvalidate(e, d) ==
  /\ Edit(e, Invalidate(accounts, d))
  /\ unsure' = unsure \cup {d}
  /\ UNCHANGED known

\* The application's store_data_secure; its failure is the caller's error.
PersistAccounts(e) ==
  /\ pc[e] = "persist"
  /\ disk' \in {disk, snapshot[e]}
  /\ snapshot' = [snapshot EXCEPT ![e] = << >>]
  /\ Goto(e, "idle")
  /\ UNCHANGED << use, accounts, old, candidate, res, tasks, known, mixed, unsure >>

\* The process ends; the extension, maybe a newer version of it with other
\* declarations, is created again from what was persisted, or from nothing when
\* that cannot be loaded.
RestartFrom(loaded) ==
  /\ use.restarts
  /\ \E auths \in Declarations : accounts' \in MergeDeclared(loaded, auths)
  /\ Len(accounts') <= MaxAccounts
  /\ pc'        = [p \in Validations \cup Editors |-> "idle"]
  /\ old'       = [v \in Validations |-> None]
  /\ candidate' = [v \in Validations |-> None]
  /\ res'       = [v \in Validations |-> None]
  /\ tasks'     = << >>
  /\ snapshot'  = [e \in Editors |-> << >>]
  /\ known' = Logins({loaded[i] : i \in DOMAIN loaded})
  /\ mixed' = {}
  /\ unsure' = IF loaded = disk THEN {} ELSE Domains
  /\ UNCHANGED << use, disk >>

Restart == RestartFrom(disk) \/ RestartFrom(<< >>)

Progress(v) == SendValidate(v) \/ FinishValidate(v)

Next ==
  \/ \E v \in use.validations, acc \in Given : BeginValidate(v, acc)
  \/ \E v \in Validations : Progress(v)
  \/ JudgeCandidate
  \/ \E e \in use.editors, new \in Given : EditMerge(e, new)
  \/ \E e \in use.editors, d \in use.domains : EditInvalidate(e, d)
  \/ \E e \in Editors : PersistAccounts(e)
  \/ Restart

Spec == Init /\ [][Next]_vars

\* Host futures and the JS thread keep running, and scripts return.
FairSpec ==
  /\ Spec
  /\ WF_vars(JudgeCandidate)
  /\ \A v \in Validations : WF_vars(Progress(v))

-----------------------------------------------------------------------------
(* Properties. *)

\* Every variable has its type; a validation that is under way knows the account
\* it has to put back, and one that is not judged yet its candidate.
TypeOK ==
  /\ use \in Uses
  /\ accounts \in Seq(Account) /\ disk \in Seq(Account)
  /\ pc \in [Validations \cup Editors -> {"idle", "send", "wait", "finish", "persist"}]
  /\ old \in [Validations -> Account \cup {None}]
  /\ candidate \in [Validations -> Account \cup {None}]
  /\ res \in [Validations -> Account \cup {None}]
  /\ tasks \in Seq(Validations)
  /\ snapshot \in [Editors -> Seq(Account)]
  /\ known \subseteq Domains \X Creds
  /\ mixed \subseteq Domains /\ unsure \subseteq Domains
  /\ \A v \in Validations :
       /\ pc[v] # "idle" => old[v] \in Account
       /\ pc[v] \in {"send", "wait"} => candidate[v] \in Account

Known(acc) == acc.creds = None \/ <<acc.domain, acc.creds>> \in known

\* Every failure of validate restores the old account (container.rs:306-309): once
\* no validation of a domain is under way, its credentials are such that they were
\* merged, loaded, or approved by the script for an account of that domain, whatever
\* was merged, invalidated or moved to another domain meanwhile.  Two validations of
\* one domain may put back each other's candidates, and so may one whose domain
\* another one moves an account into.
OnlyValidatedCredsStay ==
  \A i \in DOMAIN accounts :
    LET d == accounts[i].domain IN Known(accounts[i]) \/ Validating(d) \/ d \in mixed

\* What is persisted over logins keeps them (merge_auth preserves credentials,
\* auth.rs:52-55, also into a version that declares another way to log in), unless
\* the domain was validated or invalidated since the accounts were loaded, an edit of
\* it overtook another one, or they could not be loaded.
LoginsSurvive ==
  [][\A d \in Domains : IsLoggedIn(disk, d) => IsLoggedIn(disk', d) \/ d \in unsure]_vars

\* A candidate does not stay in the store unless it is accepted: every
\* validation finishes.
ValidationFinishes == \A v \in Validations : pc[v] # "idle" ~> pc[v] = "idle"
=============================================================================
