----------------------------- MODULE ReleasePromise -----------------------------
(***************************************************************************)
(* What the private outbox promises to the one who queued a message, with  *)
(* no worker, no transport and no crash in sight: a message that was       *)
(* accepted is kept, it is carried at most one time at a time, it is       *)
(* confirmed only while a carrier holds it, and it is carried again only   *)
(* after the confirmation of the time before was missed.                   *)
(***************************************************************************)
CONSTANT Messages

VARIABLES
  accepted,   \* messages the outbox keeps
  carried,    \* messages a carrier took and that await confirmation
  confirmed   \* messages reported delivered

promiseVars == <<accepted, carried, confirmed>>

PromiseInit ==
  /\ accepted = {}
  /\ carried = {}
  /\ confirmed = {}

Accept(m) ==
  /\ m \notin accepted
  /\ accepted' = accepted \cup {m}
  /\ UNCHANGED <<carried, confirmed>>

Carry(m) ==
  /\ m \in accepted \ (carried \cup confirmed)
  /\ carried' = carried \cup {m}
  /\ UNCHANGED <<accepted, confirmed>>

Confirm(m) ==
  /\ m \in carried
  /\ carried' = carried \ {m}
  /\ confirmed' = confirmed \cup {m}
  /\ UNCHANGED accepted

Miss(m) ==
  /\ m \in carried
  /\ carried' = carried \ {m}
  /\ UNCHANGED <<accepted, confirmed>>

PromiseNext ==
  \E m \in Messages : Accept(m) \/ Carry(m) \/ Confirm(m) \/ Miss(m)

PromiseSpec == PromiseInit /\ [][PromiseNext]_promiseVars
===============================================================================
