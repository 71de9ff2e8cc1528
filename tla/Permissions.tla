---------------------------- MODULE Permissions -----------------------------
(* Permission codes, as the server's middlewares and the web client's gates use them. A demand
   is a set of clauses, each satisfied by any of its codes: RequirePermission and RequireAny are
   one clause, two middlewares in a row are two. *)
EXTENDS FiniteSets

NoCode == {}
Code(code) == {{code}}
AnyOf(codes) == {codes}

\* A demand that nobody meets: that of an endpoint which is not registered.
Nobody == {{}}

Grants(codes, demand) == \A clause \in demand : clause \cap codes # {}

Demanded(demand) == UNION demand
============================================================================
