-------------------------------- MODULE MCParts --------------------------------
(* Two parts of the system that share no state, in one run: a behaviour is one  *)
(* of the part that "active" names, and the other stays as it began.            *)
EXTENDS MCLedgerSync, MCContactTrust

VARIABLE active

partsVars == <<active, syncVars, contactVars>>

PartsInit == active \in {"sync", "contact"} /\ SyncInit /\ ContactInit

PartsNext ==
    /\ active' = active
    /\ \/ active = "sync" /\ SyncNext /\ UNCHANGED contactVars
       \/ active = "contact" /\ ContactNext /\ UNCHANGED syncVars

PartsSpec == PartsInit /\ [][PartsNext]_partsVars
================================================================================
