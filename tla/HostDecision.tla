---------------------------- MODULE HostDecision ----------------------------
(***************************************************************************)
(* What the network permissions of an extension promise about each host,   *)
(* whatever runs concurrently: the user is asked about a host that nothing *)
(* is known about, one prompt at a time; a refusal is final for as long as *)
(* the process lives, unless the permission is granted in another way.     *)
(***************************************************************************)
CONSTANT Hosts

VARIABLE decision

Decision == {"unknown", "asking", "granted", "denied"}

TypeOK == decision \in [Hosts -> Decision]

Init == decision = [h \in Hosts |-> "unknown"]

Ask(h) ==
  /\ decision[h] = "unknown"
  /\ decision' = [decision EXCEPT ![h] = "asking"]

Refuse(h) ==
  /\ decision[h] = "asking"
  /\ decision' = [decision EXCEPT ![h] = "denied"]

\* The prompt could not be shown.
GiveUp(h) ==
  /\ decision[h] = "asking"
  /\ decision' = [decision EXCEPT ![h] = "unknown"]

\* One grant may cover many hosts, in any state.
Allow(covered) ==
  decision' = [h \in Hosts |-> IF h \in covered THEN "granted" ELSE decision[h]]

\* What the runtime does by itself.
Next ==
  \/ \E h \in Hosts : Ask(h) \/ Refuse(h) \/ GiveUp(h)
  \/ \E covered \in SUBSET Hosts : Allow(covered)

-----------------------------------------------------------------------------
(* What happens to it. *)

\* Withdrawing a grant uncovers what was decided about the host before.
Withdraw ==
  /\ decision' \in [Hosts -> Decision]
  /\ \A h \in Hosts : decision[h] = "granted" \/ decision'[h] = decision[h]

\* Only persisted grants outlive the process.
Forget == decision' \in [Hosts -> {"unknown", "granted"}]

Spec == Init /\ [][Next \/ Withdraw \/ Forget]_decision
=============================================================================
