--------------------------- MODULE AuthCache_proofs ---------------------------
(* What is cached for a user is what the database grants him, but for the sets that a change is
   deleting or has passed over: for every number of users, requests and changes. *)
EXTENDS AuthCache, TLAPS

Lookup == [step : {"idle", "load", "store", "list", "invalidate"}, users : SUBSET People,
           seen : Nat]

CacheTypes ==
  /\ granted \in [People -> Nat]
  /\ cache \in [People -> Nat]
  /\ lookups \in [Clerks -> Lookup]

\* The property is inductive once the types are known.
CacheInv == CacheTypes /\ JudgedByPresentPermissions

LEMMA AbsentNat == Absent \in Nat
BY CacheAssumption DEF Absent

LEMMA CacheInitInv == CacheInit => CacheInv
BY AbsentNat DEF CacheInit, CacheInv, CacheTypes, NoLookup, Lookup, JudgedByPresentPermissions

\* A lookup may be replaced as long as the users it was invalidating are not forgotten by it.
LEMMA LookupReplaced ==
  ASSUME CacheTypes, NEW c \in Clerks, NEW lookup \in Lookup, Go(c, lookup),
         NEW u \in People, Invalidating(u),
         lookups[c].step \in {"list", "invalidate"} /\ u \in lookups[c].users
           => lookup.step \in {"list", "invalidate"} /\ u \in lookup.users
  PROVE  Invalidating(u)'
BY DEF CacheTypes, Go, Invalidating

LEMMA LookupTypes ==
  ASSUME CacheTypes, NEW c \in Clerks, NEW lookup \in Lookup, Go(c, lookup)
  PROVE  lookups' \in [Clerks -> Lookup]
BY DEF CacheTypes, Go

LEMMA NoLookupType == NoLookup \in Lookup
BY AbsentNat DEF NoLookup, Lookup

\* The steps that load a set and store it.
LEMMA LoadSteps ==
  ASSUME CacheInv, NEW c \in Clerks, NEW u \in People,
         BeginLoad(c, u) \/ LoadPermissionSet(c, u) \/ LoadFails(c) \/ Store(c, u)
  PROVE  CacheInv'
<1> USE DEF CacheInv
<1>1. CASE BeginLoad(c, u)
  <2> DEFINE lookup == [NoLookup EXCEPT !.step = "load", !.users = {u}]
  <2>1. lookup \in Lookup /\ Go(c, lookup)
    BY <1>1, NoLookupType DEF BeginLoad, Lookup, NoLookup
  <2>2. CacheTypes'
    BY <1>1, <2>1, LookupTypes DEF CacheTypes, BeginLoad
  <2>3. \A v \in People : Invalidating(v) => Invalidating(v)'
    BY <1>1, <2>1, LookupReplaced DEF BeginLoad, NoLookup
  <2> QED
    BY <1>1, <2>2, <2>3 DEF JudgedByPresentPermissions, BeginLoad
<1>2. CASE LoadPermissionSet(c, u)
  <2> DEFINE lookup == [lookups[c] EXCEPT !.step = "store", !.seen = granted[u]]
  <2>1. lookup \in Lookup /\ Go(c, lookup)
    BY <1>2 DEF LoadPermissionSet, Lookup, CacheTypes
  <2>2. CacheTypes'
    BY <1>2, <2>1, LookupTypes DEF CacheTypes, LoadPermissionSet
  <2>3. \A v \in People : Invalidating(v) => Invalidating(v)'
    BY <1>2, <2>1, LookupReplaced DEF LoadPermissionSet
  <2> QED
    BY <1>2, <2>2, <2>3 DEF JudgedByPresentPermissions, LoadPermissionSet
<1>3. CASE LoadFails(c)
  <2>1. CacheTypes'
    BY <1>3, NoLookupType, LookupTypes DEF CacheTypes, LoadFails, Done
  <2>2. \A v \in People : Invalidating(v) => Invalidating(v)'
    BY <1>3, NoLookupType, LookupReplaced DEF LoadFails, Done
  <2> QED
    BY <1>3, <2>1, <2>2 DEF JudgedByPresentPermissions, LoadFails
<1>4. CASE Store(c, u)
  <2>1. CacheTypes'
    BY <1>4, NoLookupType, LookupTypes DEF CacheTypes, Store, Done, Lookup
  <2>2. \A v \in People : Invalidating(v) => Invalidating(v)'
    BY <1>4, NoLookupType, LookupReplaced DEF Store, Done
  <2>3. ASSUME NEW v \in People
        PROVE  cache'[v] \in {Absent, granted'[v]} \/ Invalidating(v)' \/ v \in overtaken'
    <3>1. CASE v = u
      BY <1>4, <3>1 DEF Store, CacheTypes
    <3>2. CASE v # u
      <4>1. cache'[v] = cache[v] /\ granted'[v] = granted[v] /\ (v \in overtaken => v \in overtaken')
        BY <1>4, <3>2 DEF Store, CacheTypes
      <4> QED
        BY <2>2, <4>1 DEF JudgedByPresentPermissions
    <3> QED
      BY <3>1, <3>2
  <2> QED
    BY <2>1, <2>3 DEF JudgedByPresentPermissions
<1> QED
  BY <1>1, <1>2, <1>3, <1>4

\* The changes of permissions: whoever is changed is about to be invalidated.
LEMMA ChangeSteps ==
  ASSUME CacheInv, NEW c \in Clerks, NEW users \in SUBSET People, NEW lookup \in Lookup,
         lookups[c] = NoLookup, Grant(users), Go(c, lookup), UNCHANGED <<cache, overtaken>>,
         lookup.step \in {"list", "invalidate"}, lookup.users = users
  PROVE  CacheInv'
<1>1. CacheTypes'
  BY LookupTypes DEF CacheInv, CacheTypes, Grant
<1>2. ASSUME NEW v \in People
      PROVE  cache'[v] \in {Absent, granted'[v]} \/ Invalidating(v)' \/ v \in overtaken'
  <2>1. CASE v \in users
    BY <2>1 DEF Invalidating, Go, CacheInv, CacheTypes
  <2>2. CASE v \notin users
    <3>1. granted'[v] = granted[v]
      BY <2>2 DEF Grant
    <3>2. Invalidating(v) => Invalidating(v)'
      BY LookupReplaced DEF NoLookup, CacheInv
    <3> QED
      BY <3>1, <3>2 DEF CacheInv, JudgedByPresentPermissions
  <2> QED
    BY <2>1, <2>2
<1> QED
  BY <1>1, <1>2 DEF CacheInv, JudgedByPresentPermissions

\* Deleting a cached set leaves nothing to be wrong about.
LEMMA ForgetSteps ==
  ASSUME CacheInv, NEW u \in People, Forgotten(u), granted' = granted,
         lookups' \in [Clerks -> Lookup],
         \A v \in People \ {u} : Invalidating(v) => Invalidating(v)'
  PROVE  CacheInv'
<1>1. CacheTypes'
  BY AbsentNat DEF CacheInv, CacheTypes, Forgotten
<1>2. ASSUME NEW v \in People
      PROVE  cache'[v] \in {Absent, granted'[v]} \/ Invalidating(v)' \/ v \in overtaken'
  <2>1. CASE v = u
    BY <2>1 DEF Forgotten, CacheInv, CacheTypes
  <2>2. CASE v # u
    BY <2>2 DEF Forgotten, CacheInv, CacheTypes, JudgedByPresentPermissions
  <2> QED
    BY <2>1, <2>2
<1> QED
  BY <1>1, <1>2 DEF CacheInv, JudgedByPresentPermissions

\* invalidateUsersWithRole: the users are still to be invalidated, or passed over.
LEMMA ListStep ==
  ASSUME CacheInv, NEW c \in Clerks, ListUsers(c)
  PROVE  CacheInv'
<1>1. lookups[c] \in Lookup /\ lookups[c].step = "list"
  BY DEF CacheInv, CacheTypes, ListUsers
<1>2. CASE Go(c, [lookups[c] EXCEPT !.step = "invalidate"]) /\ UNCHANGED <<overtaken, granted, cache>>
  <2>1. [lookups[c] EXCEPT !.step = "invalidate"] \in Lookup
    BY <1>1 DEF Lookup
  <2>2. \A v \in People : Invalidating(v) => Invalidating(v)'
    BY <1>1, <1>2, <2>1, LookupReplaced DEF CacheInv, Lookup
  <2> QED
    BY <1>2, <2>1, <2>2, LookupTypes DEF CacheInv, CacheTypes, JudgedByPresentPermissions
<1>3. CASE /\ Done(c) /\ UNCHANGED <<granted, cache>>
           /\ overtaken' = overtaken \cup {u \in lookups[c].users : cache[u] # Absent}
  <2>1. CacheTypes'
    BY <1>3, NoLookupType, LookupTypes DEF CacheInv, CacheTypes, Done
  <2>2. ASSUME NEW v \in People
        PROVE  cache'[v] \in {Absent, granted'[v]} \/ Invalidating(v)' \/ v \in overtaken'
    <3>1. CASE v \in lookups[c].users
      BY <1>3, <3>1
    <3>2. CASE v \notin lookups[c].users
      <4>1. Invalidating(v) => Invalidating(v)'
        BY <1>3, <3>2, NoLookupType, LookupReplaced DEF Done, CacheInv
      <4> QED
        BY <1>3, <4>1 DEF CacheInv, JudgedByPresentPermissions
    <3> QED
      BY <3>1, <3>2
  <2> QED
    BY <2>1, <2>2 DEF CacheInv, JudgedByPresentPermissions
<1> QED
  BY <1>2, <1>3 DEF ListUsers

LEMMA InvalidateStep ==
  ASSUME CacheInv, NEW c \in Clerks, NEW u \in People, InvalidateUser(c, u)
  PROVE  CacheInv'
<1>1. lookups[c] \in Lookup /\ u \in lookups[c].users /\ Forgotten(u) /\ granted' = granted
  BY DEF CacheInv, CacheTypes, InvalidateUser
<1>2. CASE lookups[c].users = {u} /\ Done(c)
  <2>1. \A v \in People \ {u} : Invalidating(v) => Invalidating(v)'
    BY <1>2, NoLookupType, LookupReplaced DEF Done, CacheInv
  <2> QED
    BY <1>1, <1>2, <2>1, NoLookupType, LookupTypes, ForgetSteps DEF Done, CacheInv
<1>3. CASE Go(c, [lookups[c] EXCEPT !.users = @ \ {u}])
  <2> DEFINE lookup == [lookups[c] EXCEPT !.users = @ \ {u}]
  <2>1. lookup \in Lookup /\ lookup.step = lookups[c].step /\ lookup.users = lookups[c].users \ {u}
    BY <1>1 DEF Lookup
  <2>2. lookups' \in [Clerks -> Lookup]
    BY <1>3, <2>1, LookupTypes DEF CacheInv
  <2>3. \A v \in People \ {u} : Invalidating(v) => Invalidating(v)'
    BY <1>3, <2>1, LookupReplaced DEF CacheInv
  <2> QED
    BY <1>1, <2>2, <2>3, ForgetSteps
<1> QED
  BY <1>2, <1>3 DEF InvalidateUser

LEMMA CacheStep == CacheInv /\ [CacheNext]_cacheVars => CacheInv'
<1> SUFFICES ASSUME CacheInv, [CacheNext]_cacheVars PROVE CacheInv'
  OBVIOUS
<1>1. ASSUME NEW c \in Clerks, LoadFails(c) PROVE CacheInv'
  <2>1. CASE People = {}
    <3>1. CacheTypes'
      BY <1>1, NoLookupType, LookupTypes DEF CacheInv, CacheTypes, LoadFails, Done
    <3> QED
      BY <2>1, <3>1 DEF CacheInv, JudgedByPresentPermissions
  <2>2. CASE People # {}
    BY <1>1, <2>2, LoadSteps
  <2> QED
    BY <2>1, <2>2
<1>2. ASSUME NEW c \in Clerks, ListUsers(c) PROVE CacheInv'
  BY <1>2, ListStep
<1>3. ASSUME NEW c \in Clerks, NEW users \in SUBSET People, ReplaceRolePermissions(c, users)
      PROVE  CacheInv'
  <2> DEFINE lookup == [NoLookup EXCEPT !.step = "list", !.users = users]
  <2>1. lookup \in Lookup /\ lookup.step = "list" /\ lookup.users = users
    BY NoLookupType DEF NoLookup, Lookup
  <2> QED
    BY <1>3, <2>1, ChangeSteps DEF ReplaceRolePermissions
<1>4. ASSUME NEW c \in Clerks, NEW u \in People, ReplaceUserRole(c, u) PROVE CacheInv'
  <2> DEFINE lookup == [NoLookup EXCEPT !.step = "invalidate", !.users = {u}]
  <2>1. lookup \in Lookup /\ lookup.step = "invalidate" /\ lookup.users = {u}
    BY NoLookupType DEF NoLookup, Lookup
  <2> QED
    BY <1>4, <2>1, ChangeSteps DEF ReplaceUserRole
<1>5. ASSUME NEW c \in Clerks, NEW u \in People,
             BeginLoad(c, u) \/ LoadPermissionSet(c, u) \/ Store(c, u)
      PROVE  CacheInv'
  BY <1>5, LoadSteps
<1>6. ASSUME NEW c \in Clerks, NEW u \in People, InvalidateUser(c, u) PROVE CacheInv'
  BY <1>6, InvalidateStep
<1>7. ASSUME NEW u \in People, Login(u) PROVE CacheInv'
  BY <1>7, ForgetSteps DEF Login, CacheInv, CacheTypes, Invalidating
<1>8. CASE Restart
  BY <1>8, AbsentNat, NoLookupType DEF Restart, CacheInv, CacheTypes, JudgedByPresentPermissions
<1>9. CASE UNCHANGED cacheVars
  BY <1>9 DEF cacheVars, CacheInv, CacheTypes, JudgedByPresentPermissions, Invalidating
<1> QED
  BY <1>1, <1>2, <1>3, <1>4, <1>5, <1>6, <1>7, <1>8, <1>9 DEF CacheNext

\* The cache never judges a user by permissions he no longer has, but in the windows that the
\* property names (AuthorizationService.permissionSetForUser, InvalidateUser).
THEOREM CacheIsPresent == CacheSpec => []JudgedByPresentPermissions
<1>1. CacheInv => JudgedByPresentPermissions
  BY DEF CacheInv
<1> QED
  BY <1>1, CacheInitInv, CacheStep, PTL DEF CacheSpec
=============================================================================
