------------------------ MODULE MCAccountValidation ------------------------
(***************************************************************************)
(* Small instances of AccountValidation.                                   *)
(***************************************************************************)
EXTENDS AccountValidation

CONSTANTS d1, d2, v1, v2, e1, e2, good, bad, me, cookie, key

\* Two validations, of one domain or of two, whose answers may move accounts.
Overlapping ==
  [validations |-> {v1, v2}, editors |-> {}, domains |-> {d1, d2}, auths |-> {cookie},
   creds |-> {good}, profiles |-> {}, restarts |-> TRUE]

\* A validation under merges and invalidations of two domains.
Edited ==
  [validations |-> {v1}, editors |-> {e1}, domains |-> {d1, d2}, auths |-> {cookie},
   creds |-> {good}, profiles |-> {}, restarts |-> FALSE]

\* A validation and two editors of one account, with restarts into other declarations.
Restarts ==
  [validations |-> {v1}, editors |-> {e1, e2}, domains |-> {d1}, auths |-> {cookie, key},
   creds |-> {good}, profiles |-> {}, restarts |-> TRUE]

MCUses == {Overlapping, Edited, Restarts}
=============================================================================
