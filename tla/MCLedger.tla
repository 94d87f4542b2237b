--------------------------------- MODULE MCLedger ---------------------------------
(* Instances of Ledger for TLC. *)
EXTENDS Ledger

Renaming == Permutations(Authors)
================================================================================
