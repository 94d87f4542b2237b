----------------------------- MODULE MCContactTrust -----------------------------
(* Instances of ContactTrust for TLC.                                           *)
EXTENDS ContactTrust, TLC

(* Bundles: two of one identity, the older of which repeats its place in the    *)
(* sender's sequence, and two of another, with its root and without.            *)
Bundle(k, r, s, h) == [key |-> k, root |-> r, seq |-> s, head |-> h, size |-> h]
Seen == {Bundle("k1", "r1", 2, 1), Bundle("k1", "r1", 1, 1),
         Bundle("k2", "r2", 0, 0), Bundle("k2", None, 0, 0)}
================================================================================
