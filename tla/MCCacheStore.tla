----------------------------- MODULE MCCacheStore -----------------------------
(* Small instances of CacheStore: a JSON value of size 1 and a byte array of *)
(* size 2, with the policies of a KV cache and of two LRU caches.            *)
EXTENDS CacheStore, TLC

CONSTANTS t1, t2, k1, k2, k3, json, bytes

MCSizeOf == [v \in {json, bytes} |-> IF v = json THEN 1 ELSE 2]

Policy(n, b, ttl) == [max_entries |-> n, max_bytes |-> b, default_ttl |-> ttl]

KeySymmetry == Permutations(Keys)

TwoEntries == Policy(2, NoLimit, Never)
OneEntry   == Policy(1, NoLimit, 1)
TwoBytes   == Policy(NoLimit, 2, Never)
Unlimited  == Policy(NoLimit, NoLimit, Never)

MCPolicies == {TwoEntries, OneEntry, TwoBytes, Unlimited}

\* Three keys of which two fit.
LruUse == [keys |-> Keys, policies |-> {TwoEntries},
           operations |-> {"set", "get", "delete", "clear"},
           renames_fail |-> TRUE, time |-> 4]

\* All operations on two keys, with entries that expire and renames that fail.
Mixed == {[keys |-> keys, policies |-> {OneEntry, TwoBytes},
           operations |-> Operations, renames_fail |-> TRUE, time |-> 3] :
            keys \in {S \in SUBSET Keys : Cardinality(S) = 2}}

\* The application clears all caches while a script sets a value.
Clears == [keys |-> {k1}, policies |-> {Unlimited}, operations |-> {"set", "clear_all"},
           renames_fail |-> FALSE, time |-> 2]

AwaitedUses == {LruUse} \cup Mixed
ClearUses   == {Clears}
=============================================================================
