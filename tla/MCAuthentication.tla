-------------------------- MODULE MCAuthentication --------------------------
(* Instance of Authentication for TLC: the callers are interchangeable, and *)
(* so are the credentials that the server accepts.                          *)
EXTENDS Authentication, TLC

Symmetry == Permutations(Callers) \cup Permutations(Credentials \ Rejected)
=============================================================================
