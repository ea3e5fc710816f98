------------------------- MODULE MCPermissionBroker -------------------------
(***************************************************************************)
(* Small instances of PermissionBroker for TLC.  One directory tree with   *)
(* two nested roots; which activities there are is chosen by each use.     *)
(***************************************************************************)
EXTENDS PermissionBroker, TLC

Root   == << "storage" >>
Nested == << "storage", "books" >>

MCComponents == {"storage", "books"}
MCPaths      == {Root, Nested}

\* Scripts that ask for each host by itself, or for all of them.
OneHostEach == {Network({h}) : h \in Hosts}
AnyNetwork  == {ArbitraryNetwork}

NestedRead  == {Storage(Nested, FALSE)}
Files       == {Storage(Nested, FALSE), Storage(Root, TRUE)}

\* Activities that need one host, or a file, beside an application that adds
\* permissions of its own.
SharedUse(runs, h, files) ==
  [runs |-> runs, hosts |-> {h}, requestable |-> {Network({h})}, reachable |-> NestedRead,
   grantable |-> files, removable |-> {}, loads_fail |-> FALSE]

\* Some fetches to all hosts; grants of all access are given and withdrawn, and
\* loads fail.
WithdrawUse(fetches) ==
  [runs |-> fetches, hosts |-> Hosts, requestable |-> {}, reachable |-> {},
   grantable |-> AnyNetwork, removable |-> {Network(Hosts)}, loads_fail |-> TRUE]

\* A script that asks, and an application that removes.
RemoveUse ==
  [runs |-> Requests, hosts |-> {}, requestable |-> OneHostEach \cup AnyNetwork,
   reachable |-> {}, grantable |-> {}, removable |-> OneHostEach, loads_fail |-> FALSE]

CONSTANTS f1, f2, h1

\* All fetches; two of them and a file operation; one of them and all that grants.
BrokerUses ==
  {SharedUse(Fetches \cup Requests, h1, {}),
   SharedUse({f1, f2} \cup Accesses \cup Savers, h1, {}),
   SharedUse({f1} \cup Requests \cup Accesses \cup Savers, h1, Files),
   WithdrawUse({f1, f2})}

RemoveUses == {RemoveUse}
=============================================================================
