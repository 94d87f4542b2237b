---------------------------- MODULE AppendOnlyLedger ----------------------------
(***************************************************************************)
(* What class Infonet of mesh_hashchain.py promises to its readers, an     *)
(* "append-only signed event ledger": the chain grows by one valid event   *)
(* at a time, and only a boot may take events off its end.                 *)
(***************************************************************************)
EXTENDS Sequences, SequencesExt

CONSTANTS Genesis

VARIABLES up, chain

vars == <<up, chain>>

Init == up = TRUE /\ chain = <<>>

(* An event that follows the last one, with a number its author has not    *)
(* reached, of a key that is not revoked unless it revokes.                *)
Follows(e, c) ==
  /\ e.prev = (IF c = <<>> THEN Genesis ELSE Last(c).id)
  /\ \A x \in Range(c) : x.author = e.author =>
       x.seq < e.seq /\ (x.kind = "key_revoke" => e.kind = "key_revoke")

Grow(e) ==
  /\ up /\ up' = up
  /\ Follows(e, chain)
  /\ chain' = Append(chain, e)

Stop == up /\ up' = FALSE /\ chain' = chain

(* A boot brings back a first part of the chain, and after it at most the  *)
(* one event that was written ahead.                                       *)
Boot ==
  /\ ~up /\ up' = TRUE
  /\ \/ IsPrefix(chain', chain)
     \/ /\ chain' # <<>> /\ IsPrefix(Front(chain'), chain)
        /\ Follows(Last(chain'), Front(chain'))

Next == Stop \/ Boot \/ (chain' # <<>> /\ Grow(Last(chain')))

Spec == Init /\ [][Next]_vars
================================================================================
