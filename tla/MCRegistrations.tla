--------------------------- MODULE MCRegistrations ---------------------------
(***************************************************************************)
(* A small instance of Registrations.                                      *)
(***************************************************************************)
EXTENDS Registrations, TLC

Interchangeable == Permutations(Requests)
=============================================================================
