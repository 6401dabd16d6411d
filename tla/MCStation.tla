------------------------------ MODULE MCStation -----------------------------
(* Station on small rings, for TLC. *)
EXTENDS Station
=============================================================================
