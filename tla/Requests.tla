------------------------------- MODULE Requests -------------------------------
(* The requests of the server that are under way at once: fiber serves each in a goroutine of its
   own, and nothing but the database orders their statements. *)
CONSTANT Clerks         \* requests served at once
=============================================================================
