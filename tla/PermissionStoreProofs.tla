------------------------ MODULE PermissionStoreProofs ------------------------
(***************************************************************************)
(* What granting a permission changes, for every set of permissions.       *)
(***************************************************************************)
EXTENDS PermissionStore, TLAPS

\* Being a prefix is transitive on paths.
LEMMA PrefixTransitive ==
  ASSUME NEW S, NEW a \in Seq(S), NEW b \in Seq(S), NEW c \in Seq(S),
         IsPrefix(a, b), IsPrefix(b, c)
  PROVE  IsPrefix(a, c)
<1>1. Len(a) \in Nat /\ Len(b) \in Nat /\ Len(c) \in Nat
  OBVIOUS
<1>2. Len(a) <= Len(b) /\ Len(b) <= Len(c)
  BY DEF IsPrefix
<1>3. SubSeq(a, 1, Len(a)) = SubSeq(b, 1, Len(a))
  BY DEF IsPrefix
<1>4. ASSUME NEW i \in 1..Len(b) PROVE b[i] = c[i]
  <2>1. SubSeq(b, 1, Len(b)) = SubSeq(c, 1, Len(b))
    BY DEF IsPrefix
  <2>2. SubSeq(b, 1, Len(b))[i] = b[i]
    BY <1>1, <1>2
  <2>3. SubSeq(c, 1, Len(b))[i] = c[i]
    BY <1>1, <1>2
  <2>4. QED
    BY <2>1, <2>2, <2>3
<1>5. SubSeq(b, 1, Len(a)) = SubSeq(c, 1, Len(a))
  BY <1>1, <1>2, <1>4
<1>6. QED
  BY <1>1, <1>2, <1>3, <1>5 DEF IsPrefix

\* Permission::allows is transitive: what a covering permission covers is
\* covered, so that leaving out a permission that is already covered loses
\* nothing.
THEOREM AllowsTransitive ==
  ASSUME NEW a \in Permission, NEW b \in Permission, NEW c \in Permission,
         Allows(a, b), Allows(b, c)
  PROVE  Allows(a, c)
<1>1. CASE AllowsStorage(a, b)
  <2>1. AllowsStorage(b, c)
    BY <1>1 DEF Allows, AllowsStorage, AllowsNetwork
  <2>2. /\ a.path \in Seq(Components)
        /\ b.path \in Seq(Components)
        /\ c.path \in Seq(Components)
    BY <1>1, <2>1, PathsAssumption
       DEF AllowsStorage, Permission, StoragePermission, NetworkPermission,
           ActionPopup, ArbitraryNetwork
  <2>3. IsPrefix(a.path, c.path)
    BY <1>1, <2>1, <2>2, PrefixTransitive DEF AllowsStorage
  <2>4. QED
    BY <1>1, <2>1, <2>3 DEF Allows, AllowsStorage
<1>2. CASE AllowsNetwork(a, b)
  BY <1>2 DEF Allows, AllowsStorage, AllowsNetwork
<1>3. CASE a.kind = b.kind /\ a.kind \in {"ActionPopup", "ArbitraryNetwork"}
  BY <1>3 DEF Allows, AllowsStorage, AllowsNetwork
<1>4. QED
  BY <1>1, <1>2, <1>3 DEF Allows

\* After a grant exactly those permissions are held that were held before or
\* that the granted permission covers, also when the grant stored nothing.
THEOREM GrantIsExact ==
  ASSUME NEW P \in SUBSET Permission, NEW p \in Permission, NEW q \in Permission
  PROVE  HasPermission(GrantPermission(P, p), q)
           <=> HasPermission(P, q) \/ Allows(p, q)
<1>1. CASE HasPermission(P, p)
  <2>1. PICK g \in P : Allows(g, p)
    BY <1>1 DEF HasPermission
  <2>2. Allows(p, q) => Allows(g, q)
    BY <2>1, AllowsTransitive
  <2>3. QED
    BY <1>1, <2>1, <2>2 DEF HasPermission, GrantPermission
<1>2. CASE ~HasPermission(P, p)
  BY <1>2 DEF HasPermission, GrantPermission
<1>3. QED
  BY <1>1, <1>2
=============================================================================
