------------------------------ MODULE DurableLru ------------------------------
(***************************************************************************)
(* What an LRU cache of an extension promises: entries, of which each is   *)
(* newer than some of the others, a put that drops no more of the oldest   *)
(* than the limits demand, and a saved copy to which the cache falls back  *)
(* when the process ends.                                                  *)
(***************************************************************************)
EXTENDS Integers, FiniteSets

CONSTANTS Keys, Sizes, Policies, NoLimit

VARIABLES
  cache,  \* for each key of the cache its size and the keys used before it
  saved,  \* the copy a restart finds
  policy

Empty == [k \in {} |-> 0]

Only(c, keys) ==
  [k \in keys |-> [size |-> c[k].size, older |-> c[k].older \cap keys]]

\* With k the entry used last.
Used(c, k, size) ==
  [j \in DOMAIN c \cup {k} |->
     IF j = k THEN [size |-> size, older |-> DOMAIN c \ {k}]
     ELSE [size |-> c[j].size, older |-> c[j].older \ {k}]]

\* The bytes that the entries of keys take, each with the key it belongs to.
Bytes(c, keys) == UNION {{k} \X (1..c[k].size) : k \in keys}

Below(n, limit) == limit = NoLimit \/ n <= limit

Fits(c, keys) ==
  /\ Below(Cardinality(keys), policy.max_entries)
  /\ Below(Cardinality(Bytes(c, keys)), policy.max_bytes)

\* All other entries are older than those of keys.
Newest(c, keys) == \A k \in keys : DOMAIN c \ keys \subseteq c[k].older

Init == cache = Empty /\ saved = Empty /\ policy \in Policies

\* d is c with k put: the most of the newest entries that fit.  The one put stays
\* even if it does not fit.
IsPut(c, k, size, d) ==
  LET full == Used(c, k, size)
      kept == DOMAIN d
  IN /\ k \in kept /\ kept \subseteq DOMAIN full
     /\ d = Only(full, kept)
     /\ Newest(full, kept)
     /\ Fits(full, kept) \/ kept = {k}
     /\ \A more \in SUBSET DOMAIN full :
          Newest(full, more) /\ Fits(full, more) => more \subseteq kept

Put(k, size) == UNCHANGED << saved, policy >> /\ IsPut(cache, k, size, cache')

Touch(k) == cache' = Used(cache, k, cache[k].size) /\ UNCHANGED << saved, policy >>

Drop(k) == cache' = Only(cache, DOMAIN cache \ {k}) /\ UNCHANGED << saved, policy >>

Save == saved' = cache /\ UNCHANGED << cache, policy >>

\* Memory may have nothing to forget.
Wipe == saved' = Empty /\ cache' \in {cache, Empty} /\ UNCHANGED policy

\* The process ends, or memory is dropped; the cache is opened anew.
FallBack == cache' = saved /\ policy' \in Policies /\ UNCHANGED saved

Open == policy' \in Policies /\ UNCHANGED << cache, saved >>

Next ==
  \/ \E k \in Keys : Drop(k) \/ \E n \in Sizes : Put(k, n)
  \/ \E k \in DOMAIN cache : Touch(k)
  \/ Save \/ Wipe \/ FallBack \/ Open

Spec == Init /\ [][Next]_<< cache, saved, policy >>
=============================================================================
