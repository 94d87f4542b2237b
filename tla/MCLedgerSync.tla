------------------------------ MODULE MCLedgerSync ------------------------------
(* Instances of LedgerSync for TLC.                                             *)
EXTENDS LedgerSync, TLC

(* Every node has every other one in its peer store.                            *)
Everyone == [n \in Nodes |-> Nodes \ {n}]

(* Two followers of one writer, one behind the other.                           *)
Line == ("w" :> {}) @@ ("a" :> {"w"}) @@ ("b" :> {"a"})
================================================================================
