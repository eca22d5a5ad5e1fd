----------------------------- MODULE MCListings ------------------------------
(***************************************************************************)
(* A small instance of Listings: two log tables with two entries each, the *)
(* ids not in the order of the tables.                                     *)
(***************************************************************************)
EXTENDS Listings

MCSourceOf == <<2, 1, 2, 1>>
=============================================================================
