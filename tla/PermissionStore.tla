-------------------------- MODULE PermissionStore --------------------------
(***************************************************************************)
(* The permission values of an extension and the operations of its         *)
(* permission store (rust/core/src/data/permission.rs and                  *)
(* rust/core/src/store/permission.rs).                                     *)
(*                                                                         *)
(* A store is a SET of permissions.  The code keeps a vector; its order    *)
(* and its duplicates are seen by no operation but the listing one.        *)
(* A path is the sequence of its components, which is how                  *)
(* PathBuf::starts_with compares paths; the empty path is << >>.           *)
(***************************************************************************)
EXTENDS Sequences, SequencesExt

CONSTANTS
  Hosts,      \* the domains a network permission can name
  Components, \* the components paths are made of
  Paths       \* the directories a storage permission can name

ASSUME PathsAssumption == Paths \subseteq Seq(Components)

Storage(path, write) == [kind |-> "Storage", path |-> path, write |-> write]
Network(domains)     == [kind |-> "Network", domains |-> domains]
ActionPopup          == [kind |-> "ActionPopup"]
ArbitraryNetwork     == [kind |-> "ArbitraryNetwork"]

StoragePermission == [kind : {"Storage"}, path : Paths, write : BOOLEAN]
NetworkPermission == [kind : {"Network"}, domains : SUBSET Hosts]

Permission ==
  StoragePermission \cup NetworkPermission \cup {ActionPopup, ArbitraryNetwork}

-----------------------------------------------------------------------------
(* Whether the granted permission g covers the asked permission p. *)

AllowsStorage(g, p) ==
  /\ g.kind = "Storage" /\ p.kind = "Storage"
  /\ g.path # << >>
  /\ IsPrefix(g.path, p.path)
  /\ g.write \/ g.write = p.write

AllowsNetwork(g, p) ==
  /\ p.kind = "Network"
  /\ \/ g.kind = "ArbitraryNetwork"
     \/ g.kind = "Network" /\ p.domains \subseteq g.domains

Allows(g, p) ==
  \/ AllowsStorage(g, p)
  \/ AllowsNetwork(g, p)
  \/ g.kind = p.kind /\ g.kind \in {"ActionPopup", "ArbitraryNetwork"}

HasPermission(permissions, p) == \E g \in permissions : Allows(g, p)

\* A permission that is already covered is not recorded again.
GrantPermission(permissions, p) ==
  IF HasPermission(permissions, p) THEN permissions ELSE permissions \cup {p}

\* Vec::extract_if hands over the items its predicate selects: what the
\* assignment keeps are the permissions EQUAL to p.
RemovePermission(permissions, p) == {g \in permissions : g = p}
=============================================================================
