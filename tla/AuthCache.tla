------------------------------- MODULE AuthCache -------------------------------
(* The server's cache of permission codes (AuthorizationService): a set for each user, loaded
   from the database without a lock when it is not there, stored, and deleted when the roles of
   the user or the permissions of his role change, and when he logs in. *)
EXTENDS Requests, Naturals, FiniteSets

CONSTANTS People,       \* the users
          MaxChanges    \* bound on the changes of each user's permissions

ASSUME CacheAssumption == MaxChanges \in Nat

VARIABLES granted,      \* version of each user's permissions in the database
          cache,        \* version cached for each user, or Absent
          lookups,      \* the request each clerk has under way
          overtaken     \* users whose cached set was stored after, or passed over by, a change

cacheVars == <<granted, cache, lookups, overtaken>>

Versions == 0 .. MaxChanges
Absent == MaxChanges + 1
NoLookup == [step |-> "idle", users |-> {}, seen |-> Absent]

Go(c, lookup) == lookups' = [lookups EXCEPT ![c] = lookup]
Done(c) == Go(c, NoLookup)

\* permissionSetForUser on a miss; a hit changes nothing.
BeginLoad(c, u) ==
  /\ lookups[c] = NoLookup /\ cache[u] = Absent
  /\ Go(c, [NoLookup EXCEPT !.step = "load", !.users = {u}])
  /\ UNCHANGED <<granted, cache, overtaken>>

LoadPermissionSet(c, u) ==
  /\ lookups[c].step = "load" /\ u \in lookups[c].users
  /\ Go(c, [lookups[c] EXCEPT !.step = "store", !.seen = granted[u]])
  /\ UNCHANGED <<granted, cache, overtaken>>

\* The set goes in whatever has happened since it was read.
Store(c, u) ==
  /\ lookups[c].step = "store" /\ u \in lookups[c].users
  /\ cache' = [cache EXCEPT ![u] = lookups[c].seen]
  /\ overtaken' = IF lookups[c].seen = granted[u] THEN overtaken \ {u} ELSE overtaken \cup {u}
  /\ Done(c)
  /\ UNCHANGED granted

LoadFails(c) ==
  /\ lookups[c].step = "load"
  /\ Done(c)
  /\ UNCHANGED <<granted, cache, overtaken>>

\* A change of permissions is committed before any cached set is deleted.
Grant(users) ==
  /\ users # {} /\ \A u \in users : granted[u] < MaxChanges
  /\ granted' = [u \in People |-> IF u \in users THEN granted[u] + 1 ELSE granted[u]]

\* Mutant of ReplaceRolePermissions: the users of the role keep what is cached for them.
ReplaceUnannounced(c, users) ==
  /\ lookups[c] = NoLookup /\ Grant(users)
  /\ UNCHANGED <<cache, lookups, overtaken>>

\* The permissions of a role change; these users have it.
ReplaceRolePermissions(c, users) ==
  /\ lookups[c] = NoLookup /\ Grant(users)
  /\ Go(c, [NoLookup EXCEPT !.step = "list", !.users = users])
  /\ UNCHANGED <<cache, overtaken>>

\* The role of one user changes (Update).
ReplaceUserRole(c, u) ==
  /\ lookups[c] = NoLookup /\ Grant({u})
  /\ Go(c, [NoLookup EXCEPT !.step = "invalidate", !.users = {u}])
  /\ UNCHANGED <<cache, overtaken>>

\* invalidateUsersWithRole reads who has the role and drops the error of the query: when it fails,
\* the request succeeds and nobody's cached set is deleted.
ListUsers(c) ==
  /\ lookups[c].step = "list"
  /\ \/ Go(c, [lookups[c] EXCEPT !.step = "invalidate"]) /\ UNCHANGED overtaken
     \/ /\ Done(c)
        /\ overtaken' = overtaken \cup {u \in lookups[c].users : cache[u] # Absent}
  /\ UNCHANGED <<granted, cache>>

Forgotten(u) == cache' = [cache EXCEPT ![u] = Absent] /\ overtaken' = overtaken \ {u}

InvalidateUser(c, u) ==
  /\ lookups[c].step = "invalidate" /\ u \in lookups[c].users
  /\ Forgotten(u)
  /\ IF lookups[c].users = {u} THEN Done(c) ELSE Go(c, [lookups[c] EXCEPT !.users = @ \ {u}])
  /\ UNCHANGED granted

Login(u) == cache[u] # Absent /\ Forgotten(u) /\ UNCHANGED <<granted, lookups>>

\* The process starts anew with an empty cache, and what was under way is lost.
Restart ==
  /\ cache' = [u \in People |-> Absent] /\ overtaken' = {}
  /\ lookups' = [c \in Clerks |-> NoLookup]
  /\ UNCHANGED granted

CacheInit ==
  /\ granted = [u \in People |-> 0] /\ cache = [u \in People |-> Absent]
  /\ lookups = [c \in Clerks |-> NoLookup] /\ overtaken = {}

CacheNext ==
  \/ \E c \in Clerks :
       \/ LoadFails(c) \/ ListUsers(c)
       \/ \E users \in SUBSET People : ReplaceRolePermissions(c, users)
       \/ \E u \in People : \/ ReplaceUserRole(c, u)
                            \/ BeginLoad(c, u) \/ LoadPermissionSet(c, u) \/ Store(c, u)
                            \/ InvalidateUser(c, u)
  \/ \E u \in People : Login(u)
  \/ Restart

CacheSpec == CacheInit /\ [][CacheNext]_cacheVars
\* -------------------------------------------------------------- properties
Invalidating(u) == \E c \in Clerks : lookups[c].step \in {"list", "invalidate"} /\ u \in lookups[c].users

\* A user is judged by the permissions he has: what is cached for him is what the database grants,
\* except while a change is deleting it, when a request loaded the set before the change and
\* stored it after the deletion, and when the change could not read who has the role. Such a set
\* stays until his next login or change.
JudgedByPresentPermissions ==
  \A u \in People :
    cache[u] \in {Absent, granted[u]} \/ Invalidating(u) \/ u \in overtaken
=============================================================================
