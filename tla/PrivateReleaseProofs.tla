------------------------- MODULE PrivateReleaseProofs -------------------------
(***************************************************************************)
(* Proofs about PrivateRelease, for every set of items and peers, every    *)
(* setting and every behaviour of the transports.                          *)
(***************************************************************************)
EXTENDS PrivateRelease, TLAPS

(* The part of TypeOK that a write of the outbox file touches. *)
OutboxTyped ==
  /\ items \in [Keys -> ReleaseStates]
  /\ disk \in [Keys -> ReleaseStates]
  /\ faults \in 0 .. MaxFaults
  /\ crashes \in 0 .. MaxCrashes

(* The witness a step leaves behind is a record of what the turn saw,      *)
(* whatever the step does (the history Witness keeps along every action).  *)
LEMMA WitnessTyped ==
  ASSUME TypeOK, Witness,
         w' \in Worker, env' \in Environments
  PROVE  seen' \in Seen
<1>1. env'.tier \in Tiers /\ env.tier \in Tiers /\ seen.tier \in Tiers
  BY EnvironmentsAssumption DEF TypeOK, Condition, Seen
<1>2. \A a, b \in Tiers : HigherOf(a, b) \in Tiers
  BY DEF HigherOf, Tiers, PublicDegraded, PrivateStrong
<1>3. PublicDegraded \in Tiers /\ 0 \in Tiers
  BY DEF Tiers, PublicDegraded, PrivateStrong
<1> QED  BY <1>1, <1>2, <1>3 DEF Witness, Seen

(* The placeholder of an idle handler and an idle worker is an item.       *)
LEMMA AnyKeyIsKey == AnyKey \in Keys
  BY KeysAssumption DEF AnyKey

(* The state after start-up is typed (PrivateOutbox.__init__, _load on a   *)
(* missing file).                                                          *)
LEMMA InitTyped == Init => TypeOK
<1> SUFFICES ASSUME Init PROVE TypeOK
  OBVIOUS
<1>1. NoSession \in Session
  BY SettingsAssumption DEF NoSession, Session, NotFailing
<1>2. NotRunning \in Worker
  BY AnyKeyIsKey DEF NotRunning, Worker, Points, Tiers, PublicDegraded,
     PrivateStrong
<1>3. NothingSeen \in Seen
  BY DEF NothingSeen, Seen, Tiers, PublicDegraded, PrivateStrong
<1>4. IdleHandler \in [op : HandlerOps, key : Keys]
  BY AnyKeyIsKey DEF IdleHandler, HandlerOps
<1> QED
  BY <1>1, <1>2, <1>3, <1>4, SettingsAssumption
  DEF Init, TypeOK, ReleaseStates, RotationStates

(* A decision of the user overwrites two or three fields of an item's       *)
(* approval state and nothing else (approve_relay_release,                 *)
(* continue_waiting_for_release).                                          *)
LEMMA DecisionTyped ==
  ASSUME NEW s \in Session, NEW a \in BOOLEAN, NEW b \in BOOLEAN
  PROVE  [s EXCEPT !.approved = a, !.wait = b, !.required = FALSE] \in Session
  BY DEF Session

(* A step of the worker that only moves its program point leaves the other *)
(* locals of the turn alone (run_once, _dispatch_dm).                      *)
LEMMA GoToKeepsLocals ==
  ASSUME NEW p, TypeOK, GoTo(p)
  PROVE  /\ w'.pc = p /\ w'.tier = w.tier /\ w'.todo = w.todo
         /\ w'.key = w.key /\ w'.consent = w.consent
         /\ w'.forced = w.forced /\ w'.direct = w.direct
         /\ w'.fallback = w.fallback
  BY DEF GoTo, TypeOK, Worker

(* The updates the actions share keep the kind of what they write          *)
(* (PrivateOutbox._save and the methods that end with it, the worker's     *)
(* locals, the approval state of an item).                                 *)
LEMMA UpdatesTyped ==
  ASSUME TypeOK
  PROVE  /\ Started \in Worker /\ NotRunning \in Worker /\ NextItem \in Worker
         /\ \A p \in Points : GoTo(p) => w' \in Worker
         /\ \A k \in Keys, state \in ReleaseStates : Saved(k, state) =>
              OutboxTyped'
         /\ SaveRaises => OutboxTyped'
         /\ \A k \in Keys : ClearSession(k) => session' \in [Keys -> Session]
         /\ \A k \in Keys : NoteFailure(k) => session' \in [Keys -> Session]
         /\ Requeue => OutboxTyped' /\ w' \in Worker
<1>1. NotRunning \in Worker /\ Started \in Worker /\ NextItem \in Worker
  <2>1. NotRunning \in Worker
    BY AnyKeyIsKey DEF NotRunning, Worker, Points, Tiers, PublicDegraded,
       PrivateStrong
  <2>2. Started \in Worker
    BY <2>1 DEF Started, Worker, Points
  <2>3. NextItem \in Worker
    BY AnyKeyIsKey DEF NextItem, Worker, Points, TypeOK
  <2> QED  BY <2>1, <2>2, <2>3
<1>2. ASSUME NEW p \in Points, GoTo(p) PROVE w' \in Worker
  BY <1>2 DEF GoTo, TypeOK, Worker
<1>3. ASSUME NEW k \in Keys, NEW state \in ReleaseStates, Saved(k, state)
      PROVE  OutboxTyped'
  BY <1>3 DEF Saved, boundVars, TypeOK, OutboxTyped
<1>4. ASSUME SaveRaises PROVE OutboxTyped'
  BY <1>4, SettingsAssumption DEF SaveRaises, TypeOK, OutboxTyped
<1>5. ASSUME NEW k \in Keys, ClearSession(k)
      PROVE  session' \in [Keys -> Session]
  <2>1. NoSession \in Session
    BY SettingsAssumption DEF NoSession, Session, NotFailing
  <2> QED  BY <1>5, <2>1 DEF ClearSession, TypeOK
<1>6. ASSUME NEW k \in Keys, NoteFailure(k)
      PROVE  session' \in [Keys -> Session]
  <2>1. ASSUME NEW s \in Session PROVE Noted(s) \in Session
    <3> DEFINE age == IF s.age = NotFailing THEN 0 ELSE s.age
    <3>1. age \in NotFailing .. Window
      BY SettingsAssumption DEF Session, NotFailing
    <3>2. [s EXCEPT !.age = age] \in Session
      BY <3>1 DEF Session
    <3> QED  BY <3>1 DEF Noted, Session
  <2> QED  BY <1>6, <2>1 DEF NoteFailure, TypeOK
<1>7. ASSUME Requeue PROVE OutboxTyped' /\ w' \in Worker
  <2>1. w.key \in Keys /\ "queued" \in ReleaseStates
    BY DEF TypeOK, Worker, ReleaseStates
  <2> QED  BY <1>1, <1>3, <1>4, <1>7, <2>1 DEF Requeue
<1> QED  BY <1>1, <1>2, <1>3, <1>4, <1>5, <1>6, <1>7

(* Type correctness is kept by every step of the worker. *)
LEMMA WorkerTyped == TypeOK /\ WorkerStep => TypeOK'
<1> SUFFICES ASSUME TypeOK, WorkerStep PROVE TypeOK'
  OBVIOUS
<1> USE UpdatesTyped, WitnessTyped DEF WorkerAlone, outboxVars, boundVars,
        historyVars, userVars, OutboxTyped
<1>0. env \in Condition /\ w.key \in Keys
      /\ {"queued", "releasing", "delivered"} \subseteq ReleaseStates
  BY EnvironmentsAssumption DEF TypeOK, Worker, ReleaseStates
<1>1. CASE StartPass
  BY <1>1, <1>0
  DEF StartPass, TypeOK, Points, TurnPoints, Worker, Condition
<1>2. CASE TakeSnapshot
  BY <1>2, <1>0
  DEF TakeSnapshot, Pending, TypeOK, Points, TurnPoints, Worker
<1>3. CASE EndPass
  BY <1>3, <1>0
  DEF EndPass, TypeOK, Points, TurnPoints
<1>4. ASSUME NEW k \in Keys, BeginTurn(k)
      PROVE  TypeOK'
  BY <1>4, <1>0
  DEF BeginTurn, IsNext, TypeOK, Points, TurnPoints, Worker
<1>5. ASSUME NEW k \in Keys, BelowFloor(k)
      PROVE  TypeOK'
  BY <1>5, <1>0
  DEF BelowFloor, IsNext, TypeOK, Points, TurnPoints, Worker
<1>6. CASE AwaitHidden
  BY <1>6, <1>0
  DEF AwaitHidden, TypeOK, Points, TurnPoints
<1>7. CASE ReadRoutes
  BY <1>7, <1>0
  DEF ReadRoutes, TypeOK, Points, TurnPoints
<1>8. CASE WithdrawApproval
  BY <1>8, <1>0
  DEF WithdrawApproval, TypeOK, Points, TurnPoints
<1>9. CASE NoteNoRoute
  BY <1>9, <1>0
  DEF NoteNoRoute, TypeOK, Points, TurnPoints
<1>10. CASE MarkReleasing
  BY <1>10, <1>0
  DEF MarkReleasing, TypeOK, Points, TurnPoints
<1>11. CASE ReadConsent
  <2>1. ConsentGranted(w.key) \in BOOLEAN
    BY DEF ConsentGranted
  <2>2. w' \in Worker
    BY <1>11, <2>1 DEF ReadConsent, TypeOK, Points, TurnPoints, Worker
  <2> QED
    BY <1>11, <1>0, <2>2 DEF ReadConsent, TypeOK
<1>12. CASE ReadLinks
  <2>1. Masked(env) \in BOOLEAN /\ env.direct \in BOOLEAN
    BY <1>0 DEF Masked, Condition
  <2>2. w' \in Worker
    BY <1>12, <2>1 DEF ReadLinks, Worker, Points, TurnPoints, TypeOK
  <2> QED
    BY <1>12, <2>2 DEF ReadLinks, TypeOK
<1>13. CASE ChooseRoute
  BY <1>13, <1>0
  DEF ChooseRoute, TypeOK, Points, TurnPoints, Worker
<1>14. CASE CarrierAccepts
  BY <1>14, <1>0
  DEF CarrierAccepts, TypeOK, Points, TurnPoints
<1>15. CASE CarrierRefuses
  BY <1>15, <1>0
  DEF CarrierRefuses, TypeOK, Points, TurnPoints
<1>16. CASE DirectFails
  BY <1>16, <1>0
  DEF DirectFails, TypeOK, Points, TurnPoints, Worker
<1>17. CASE NoteAndRequeue
  BY <1>17, <1>0
  DEF NoteAndRequeue, TypeOK, Points, TurnPoints
<1>18. CASE MarkDelivered
  BY <1>18, <1>0
  DEF MarkDelivered, TypeOK, Points, TurnPoints
<1>19. CASE Settle
  BY <1>19, <1>0
  DEF Settle, RotationStates, TypeOK, Points, TurnPoints
<1> QED
  BY <1>1, <1>2, <1>3, <1>4, <1>5, <1>6, <1>7, <1>8, <1>9, <1>10, <1>11,
     <1>12, <1>13, <1>14, <1>15, <1>16, <1>17, <1>18, <1>19 DEF WorkerStep

(* A grant puts a recipient's relay policy at its full lifetime, or leaves *)
(* the policy file as it is (grant_relay_policy).                          *)
LEMMA GrantTyped ==
  ASSUME TypeOK, NEW k \in Keys, GrantPolicy(k)
  PROVE  grants' \in [Recipients -> 0 .. TTL] /\ licensed' \subseteq Recipients
  BY KeysAssumption, SettingsAssumption DEF GrantPolicy, TypeOK

(* Type correctness is kept by the request handlers. *)
LEMMA RequestsTyped ==
  TypeOK /\ (HandlerStep \/ Resume \/ RequestStep) => TypeOK'
<1> SUFFICES ASSUME TypeOK, HandlerStep \/ Resume \/ RequestStep PROVE TypeOK'
  OBVIOUS
<1> USE UpdatesTyped, WitnessTyped DEF outboxVars, boundVars, historyVars,
        userVars, OutboxTyped
<1>0. handler.key \in Keys /\ "queued" \in ReleaseStates
  BY DEF TypeOK, ReleaseStates
<1>1. ASSUME EnsureStarted PROVE w' \in Worker
  BY <1>1 DEF EnsureStarted, TypeOK
<1>2. CASE GrantConnect
  BY <1>2, <1>0, GrantTyped DEF GrantConnect, TypeOK, HandlerOps
<1>3. CASE ApplyRelay
  <2>1. session' \in [Keys -> Session]
    <3>1. session[handler.key] \in Session
      BY <1>0 DEF TypeOK
    <3>2. [session[handler.key] EXCEPT !.approved = TRUE, !.wait = FALSE,
                                       !.required = FALSE] \in Session
      BY <3>1, DecisionTyped
    <3> QED  BY <1>3, <3>2 DEF ApplyRelay, TypeOK
  <2>2. handler' \in [op : HandlerOps, key : Keys]
    BY <1>3, AnyKeyIsKey DEF ApplyRelay, IdleHandler, HandlerOps
  <2>3. grants' \in [Recipients -> 0 .. TTL] /\ licensed' \subseteq Recipients
    BY <1>3, <1>0, GrantTyped DEF ApplyRelay, TypeOK
  <2> QED
    BY <1>3, <1>0, <1>1, <2>1, <2>2, <2>3 DEF ApplyRelay, TypeOK
<1>4. CASE ApplyWait
  <2>1. session' \in [Keys -> Session]
    <3>1. session[handler.key] \in Session
      BY <1>0 DEF TypeOK
    <3>2. [session[handler.key] EXCEPT !.approved = FALSE, !.wait = TRUE,
                                       !.required = FALSE] \in Session
      BY <3>1, DecisionTyped
    <3> QED  BY <1>4, <3>2 DEF ApplyWait, TypeOK
  <2>2. handler' \in [op : HandlerOps, key : Keys]
    BY <1>4, AnyKeyIsKey DEF ApplyWait, IdleHandler, HandlerOps
  <2> QED
    BY <1>4, <1>0, <2>1, <2>2 DEF ApplyWait, TypeOK
<1>5. CASE Resume
  BY <1>5, <1>1 DEF Resume, TypeOK
<1>6. ASSUME NEW k \in Keys, Submit(k) PROVE TypeOK'
  <2>1. OutboxTyped'
    BY <1>6, <1>0 DEF Submit, TypeOK
  <2>2. w' \in Worker
    BY <1>6, <1>1 DEF Submit, TypeOK
  <2>3. handler' \in [op : HandlerOps, key : Keys]
    BY <1>6 DEF Submit, TypeOK, HandlerOps
  <2>4. rotation' \in [Keys -> RotationStates]
    BY <1>6 DEF Submit, TypeOK, RotationStates
  <2> QED
    BY <1>6, <2>1, <2>2, <2>3, <2>4 DEF Submit, TypeOK
<1>7. ASSUME NEW k \in Keys, NEW action \in {"relay", "wait"},
             CheckAction(k, action)
      PROVE  TypeOK'
  BY <1>7 DEF CheckAction, TypeOK, HandlerOps
<1>8. ASSUME NEW r \in Recipients, RevokePolicy(r) PROVE TypeOK'
  BY <1>8, SettingsAssumption DEF RevokePolicy, TypeOK
<1> QED
  BY <1>2, <1>3, <1>4, <1>5, <1>6, <1>7, <1>8 DEF HandlerStep, RequestStep

(* Type correctness is kept by time, the transports and crashes. *)
LEMMA EnvironmentTyped == TypeOK /\ EnvironmentStep => TypeOK'
<1> SUFFICES ASSUME TypeOK, EnvironmentStep PROVE TypeOK'
  OBVIOUS
<1> USE UpdatesTyped, WitnessTyped DEF outboxVars, boundVars, historyVars,
        userVars
<1>1. CASE Tick
  <2>1. ASSUME NEW s \in Session, s.age \in 0 .. Window - 1
        PROVE  [s EXCEPT !.age = @ + 1] \in Session
    BY <2>1, SettingsAssumption DEF Session, NotFailing
  <2>2. session' \in [Keys -> Session]
    BY <1>1, <2>1 DEF Tick, TypeOK
  <2>3. grants' \in [Recipients -> 0 .. TTL]
    BY <1>1, SettingsAssumption DEF Tick, TypeOK
  <2> QED
    BY <1>1, <2>2, <2>3 DEF Tick, TypeOK
<1>2. CASE TransportChanges
  BY <1>2 DEF TransportChanges, TypeOK
<1>3. ASSUME NEW k \in Keys, RotationExpires(k) PROVE TypeOK'
  BY <1>3 DEF RotationExpires, TypeOK, RotationStates
<1>4. CASE Crash
  <2>1. items' \in [Keys -> ReleaseStates]
    BY <1>4 DEF Crash, Normalized, TypeOK, ReleaseStates
  <2>2. handler' \in [op : HandlerOps, key : Keys]
    BY <1>4, AnyKeyIsKey DEF Crash, IdleHandler, HandlerOps
  <2>3. NoSession \in Session
    BY SettingsAssumption DEF NoSession, Session, NotFailing
  <2>4. rotation' \in [Keys -> RotationStates]
    BY <1>4 DEF Crash, TypeOK, RotationStates
  <2>5. lost' \in [Keys -> Nat]
    <3>1. \/ lost' = [lost EXCEPT ![w.key] = @ + 1]
          \/ lost' = lost
      BY <1>4 DEF Crash
    <3>2. lost \in [Keys -> Nat]
      BY DEF TypeOK
    <3> QED  BY <3>1, <3>2
  <2>6. crashes' \in 0 .. MaxCrashes
    BY <1>4, SettingsAssumption DEF Crash, TypeOK
  <2> QED
    BY <1>4, <2>1, <2>2, <2>3, <2>4, <2>5, <2>6 DEF Crash, TypeOK
<1> QED
  BY <1>1, <1>2, <1>3, <1>4 DEF EnvironmentStep

(* Every reachable state has every variable of its kind: in particular the *)
(* worker's key is an item at every point of a pass, and no grant outlives *)
(* its lifetime (run_once, grant_relay_policy).                            *)
THEOREM TypeCorrect == Spec => []TypeOK
<1>1. TypeOK /\ [Next]_vars => TypeOK'
  <2> SUFFICES ASSUME TypeOK, [Next]_vars PROVE TypeOK'
    OBVIOUS
  <2>1. CASE Next
    BY <2>1, WorkerTyped, RequestsTyped, EnvironmentTyped DEF Next
  <2>2. CASE UNCHANGED vars
    BY <2>2 DEF vars, TypeOK
  <2> QED  BY <2>1, <2>2
<1> QED  BY InitTyped, <1>1, PTL DEF Spec
(* Where the worker stands in a pass: what it has left to do is      *)
(* still pending, and so is the item it is at until it is recorded         *)
(* delivered (pending_items, and the order of run_once).                   *)
PendingStates == {"queued", "releasing"}
TurnInv ==
  /\ \A k \in w.todo : items[k] \in PendingStates
  /\ InTurn(w.pc) => w.key \notin w.todo
  /\ InTurn(w.pc) /\ w.pc # "settle" => items[w.key] \in PendingStates
  /\ w.pc = "settle" => items[w.key] = "delivered"

(* The invariant of the items, their file and the worker's place in them. *)
OutboxInv ==
  /\ DurableOutbox
  /\ AcceptancesAccounted
  /\ RotationAfterRelease
  /\ TurnInv

DeliveredStays == \A k \in Keys : items[k] = "delivered" => items'[k] = "delivered"

(* A write of a pending item as pending changes nothing the invariant      *)
(* tells apart (mark_queued, mark_releasing).                              *)
LEMMA PendingWrite ==
  ASSUME TypeOK, DurableOutbox, NEW k \in Keys, items[k] \in PendingStates,
         NEW state \in PendingStates, Saved(k, state) \/ SaveRaises
  PROVE  /\ DurableOutbox'
         /\ \A j \in Keys : items[j] = "delivered" <=> items'[j] = "delivered"
         /\ \A j \in Keys :
              items[j] \in PendingStates => items'[j] \in PendingStates
<1> USE DEF PendingStates
<1>1. CASE Saved(k, state)
  BY <1>1 DEF Saved, TypeOK, DurableOutbox
<1>2. CASE SaveRaises
  BY <1>2 DEF SaveRaises, DurableOutbox
<1> QED  BY <1>1, <1>2

(* A turn that ends before a carrier accepted the item keeps the outbox's  *)
(* invariant, whether the write succeeds or ends the thread (mark_queued). *)
LEMMA TurnAborted ==
  ASSUME TypeOK, OutboxInv, InTurn(w.pc), w.pc \notin {"settle", "acked"},
         NEW state \in PendingStates, Saved(w.key, state) \/ SaveRaises,
         \/ w' = NextItem \/ w' = NotRunning \/ GoTo("consent"),
         UNCHANGED <<sent, lost, rotation>>
  PROVE  OutboxInv' /\ DeliveredStays
<1>1. w.key \in Keys /\ items[w.key] \in PendingStates
  BY DEF TypeOK, Worker, OutboxInv, TurnInv
<1>2. /\ DurableOutbox'
      /\ \A j \in Keys : items[j] = "delivered" <=> items'[j] = "delivered"
      /\ \A j \in Keys :
           items[j] \in PendingStates => items'[j] \in PendingStates
  BY <1>1, PendingWrite DEF OutboxInv
<1>3. w'.pc \in {"next", "dead", "consent"} /\ w'.todo \subseteq w.todo
      /\ (w'.pc = "consent" => w'.key = w.key)
  <2>1. CASE w' = NextItem
    BY <2>1 DEF NextItem, TypeOK, Worker
  <2>2. CASE w' = NotRunning
    BY <2>2 DEF NotRunning, TypeOK, Worker
  <2>3. CASE GoTo("consent")
    BY <2>3 DEF GoTo, TypeOK, Worker
  <2> QED  BY <2>1, <2>2, <2>3
<1>4. w.todo \subseteq Keys /\ InTurn("consent") /\ ~InTurn("next") /\ ~InTurn("dead")
  BY DEF TypeOK, Worker, InTurn, TurnPoints
<1>5. TurnInv'
  BY <1>1, <1>2, <1>3, <1>4 DEF OutboxInv, TurnInv
<1>6. AcceptancesAccounted' /\ RotationAfterRelease' /\ DeliveredStays
  BY <1>2, <1>3 DEF OutboxInv, AcceptancesAccounted, RotationAfterRelease,
     DeliveredStays
<1> QED  BY <1>2, <1>5, <1>6 DEF OutboxInv

(* No step of the worker, a handler, the clock or a crash breaks the       *)
(* outbox's invariant or takes an item back from "delivered".              *)
LEMMA OutboxStep ==
  ASSUME TypeOK, TypeOK', OutboxInv, [Next]_vars
  PROVE  OutboxInv' /\ DeliveredStays
<1> DEFINE Goal == OutboxInv' /\ DeliveredStays
<1> USE DEF outboxVars, boundVars, historyVars, userVars, InTurn, TurnPoints,
        PendingStates
<1>0. TypeOK /\ TypeOK' /\ OutboxInv
  OBVIOUS
<1>1. CASE StartPass
  <2>1. w.pc = "idle" /\ w'.pc = "snapshot" /\ w'.todo = w.todo
    BY <1>1, <1>0 DEF StartPass, TypeOK, Worker
  <2>2. UNCHANGED <<items, disk, rotation, sent, lost>>
    BY <1>1 DEF StartPass
  <2> QED
    BY <1>0, <2>1, <2>2 DEF OutboxInv, TurnInv, DurableOutbox,
       AcceptancesAccounted, RotationAfterRelease, DeliveredStays
<1>2. CASE TakeSnapshot
  <2>1. /\ w.pc = "snapshot" /\ w'.pc = "next" /\ w'.todo = Pending
    BY <1>2, <1>0 DEF TakeSnapshot, TypeOK, Worker
  <2>2. UNCHANGED <<items, disk, rotation, sent, lost>>
    BY <1>2 DEF TakeSnapshot
  <2> QED
    BY <1>0, <2>1, <2>2 DEF Pending, OutboxInv, TurnInv, DurableOutbox,
       AcceptancesAccounted, RotationAfterRelease, DeliveredStays
<1>3. CASE EndPass
  BY <1>3, <1>0 DEF EndPass, Started, NotRunning, OutboxInv, TurnInv,
     DurableOutbox,
     AcceptancesAccounted, RotationAfterRelease, DeliveredStays, TypeOK, Worker
<1>4. ASSUME NEW k \in Keys, BeginTurn(k) PROVE Goal
  BY <1>4, <1>0 DEF BeginTurn, IsNext, OutboxInv, TurnInv, DurableOutbox,
     AcceptancesAccounted, RotationAfterRelease, DeliveredStays, TypeOK, Worker
<1>5. ASSUME NEW k \in Keys, BelowFloor(k) PROVE Goal
  BY <1>5, <1>0 DEF BelowFloor, IsNext, Saved, SaveRaises, NotRunning,
     OutboxInv, TurnInv, DurableOutbox,
     AcceptancesAccounted, RotationAfterRelease, DeliveredStays, TypeOK, Worker
<1>6. CASE AwaitHidden
  <2>1. CASE env.anon /\ ~Masked(env)
    BY <1>6, <1>0, <2>1, TurnAborted DEF AwaitHidden
  <2>2. CASE ~(env.anon /\ ~Masked(env))
    BY <1>6, <1>0, <2>2 DEF AwaitHidden, GoTo, OutboxInv, TurnInv,
       DurableOutbox,
       AcceptancesAccounted, RotationAfterRelease, DeliveredStays, TypeOK,
       Worker
  <2> QED  BY <2>1, <2>2
<1>7. CASE ReadRoutes
  BY <1>7, <1>0 DEF ReadRoutes, GoTo, OutboxInv, TurnInv, DurableOutbox,
     AcceptancesAccounted, RotationAfterRelease, DeliveredStays, TypeOK, Worker
<1>8. CASE WithdrawApproval
  BY <1>8, <1>0 DEF WithdrawApproval, GoTo, OutboxInv, TurnInv, DurableOutbox,
     AcceptancesAccounted, RotationAfterRelease, DeliveredStays, TypeOK, Worker
<1>9. CASE NoteNoRoute
  <2>1. CASE session[w.key].approved
    BY <1>9, <1>0, <2>1 DEF NoteNoRoute, GoTo, OutboxInv, TurnInv,
       DurableOutbox,
       AcceptancesAccounted, RotationAfterRelease, DeliveredStays, TypeOK,
       Worker
  <2>2. CASE ~session[w.key].approved
    BY <1>9, <1>0, <2>2, TurnAborted DEF NoteNoRoute, Requeue
  <2> QED  BY <2>1, <2>2
<1>10. CASE MarkReleasing
  BY <1>10, <1>0, TurnAborted DEF MarkReleasing, Requeue
<1>11. CASE ReadConsent
  BY <1>11, <1>0 DEF ReadConsent, OutboxInv, TurnInv, DurableOutbox,
     AcceptancesAccounted, RotationAfterRelease, DeliveredStays, TypeOK, Worker
<1>12. CASE ReadLinks
  BY <1>12, <1>0 DEF ReadLinks, OutboxInv, TurnInv, DurableOutbox,
     AcceptancesAccounted, RotationAfterRelease, DeliveredStays, TypeOK, Worker
<1>13. CASE ChooseRoute
  <2>1. /\ w.pc = "requested"
        /\ w'.pc \in {"failed", "direct", "deposit"}
        /\ w'.key = w.key /\ w'.todo = w.todo
    <3>1. CASE \E p \in {"failed", "direct", "deposit"} : GoTo(p)
      BY <1>13, <1>0, <3>1, GoToKeepsLocals DEF ChooseRoute
    <3>2. CASE w' = [w EXCEPT !.pc = "failed", !.fallback = TRUE]
      BY <1>13, <1>0, <3>2 DEF ChooseRoute, TypeOK, Worker
    <3> QED  BY <1>13, <3>1, <3>2 DEF ChooseRoute
  <2>2. UNCHANGED <<items, disk, rotation, sent, lost>>
    BY <1>13 DEF ChooseRoute
  <2> QED
    BY <1>0, <2>1, <2>2 DEF OutboxInv, TurnInv, DurableOutbox,
       AcceptancesAccounted, RotationAfterRelease, DeliveredStays
<1>14. CASE CarrierAccepts
  BY <1>14, <1>0 DEF CarrierAccepts, GoTo, OutboxInv, TurnInv, DurableOutbox,
     AcceptancesAccounted, RotationAfterRelease, DeliveredStays, TypeOK, Worker
<1>15. CASE CarrierRefuses
  BY <1>15, <1>0 DEF CarrierRefuses, GoTo, OutboxInv, TurnInv, DurableOutbox,
     AcceptancesAccounted, RotationAfterRelease, DeliveredStays, TypeOK, Worker
<1>16. CASE DirectFails
  BY <1>16, <1>0 DEF DirectFails, OutboxInv, TurnInv, DurableOutbox,
     AcceptancesAccounted, RotationAfterRelease, DeliveredStays, TypeOK, Worker
<1>17. CASE NoteAndRequeue
  BY <1>17, <1>0, TurnAborted DEF NoteAndRequeue, Requeue
<1>18. CASE MarkDelivered
  BY <1>18, <1>0 DEF MarkDelivered, Saved, SaveRaises, NotRunning, GoTo,
     OutboxInv, TurnInv, DurableOutbox,
     AcceptancesAccounted, RotationAfterRelease, DeliveredStays, TypeOK, Worker
<1>19. CASE Settle
  BY <1>19, <1>0 DEF Settle, NextItem, OutboxInv, TurnInv, DurableOutbox,
     AcceptancesAccounted, RotationAfterRelease, DeliveredStays, TypeOK, Worker
<1>20. CASE GrantConnect
  BY <1>20, <1>0 DEF GrantConnect, OutboxInv, TurnInv, DurableOutbox,
     AcceptancesAccounted, RotationAfterRelease, DeliveredStays, TypeOK, Worker
<1>21. CASE ApplyRelay
  BY <1>21, <1>0 DEF ApplyRelay, EnsureStarted, Started, NotRunning,
     OutboxInv, TurnInv, DurableOutbox,
     AcceptancesAccounted, RotationAfterRelease, DeliveredStays, TypeOK, Worker
<1>22. CASE ApplyWait
  BY <1>22, <1>0 DEF ApplyWait, OutboxInv, TurnInv, DurableOutbox,
     AcceptancesAccounted, RotationAfterRelease, DeliveredStays, TypeOK, Worker
<1>23. CASE Resume
  BY <1>23, <1>0 DEF Resume, EnsureStarted, Started, NotRunning, OutboxInv,
     TurnInv, DurableOutbox,
     AcceptancesAccounted, RotationAfterRelease, DeliveredStays, TypeOK, Worker
<1>24. ASSUME NEW k \in Keys, Submit(k) PROVE Goal
  BY <1>24, <1>0 DEF Submit, Saved, SaveRaises, EnsureStarted, Started,
     NotRunning, OutboxInv, TurnInv, DurableOutbox,
     AcceptancesAccounted, RotationAfterRelease, DeliveredStays, TypeOK, Worker
<1>25. ASSUME NEW k \in Keys, NEW a \in {"relay", "wait"}, CheckAction(k, a) PROVE Goal
  BY <1>25, <1>0 DEF CheckAction, OutboxInv, TurnInv, DurableOutbox,
     AcceptancesAccounted, RotationAfterRelease, DeliveredStays, TypeOK, Worker
<1>26. ASSUME NEW r \in Recipients, RevokePolicy(r) PROVE Goal
  BY <1>26, <1>0 DEF RevokePolicy, OutboxInv, TurnInv, DurableOutbox,
     AcceptancesAccounted, RotationAfterRelease, DeliveredStays, TypeOK, Worker
<1>27. CASE Tick
  BY <1>27, <1>0 DEF Tick, OutboxInv, TurnInv, DurableOutbox,
     AcceptancesAccounted, RotationAfterRelease, DeliveredStays, TypeOK, Worker
<1>28. CASE TransportChanges
  BY <1>28, <1>0 DEF TransportChanges, OutboxInv, TurnInv, DurableOutbox,
     AcceptancesAccounted, RotationAfterRelease, DeliveredStays, TypeOK, Worker
<1>29. ASSUME NEW k \in Keys, RotationExpires(k) PROVE Goal
  BY <1>29, <1>0 DEF RotationExpires, OutboxInv, TurnInv, DurableOutbox,
     AcceptancesAccounted, RotationAfterRelease, DeliveredStays, TypeOK, Worker
<1>30. CASE Crash
  BY <1>30, <1>0 DEF Crash, NotRunning, Normalized, OutboxInv, TurnInv,
     DurableOutbox,
     AcceptancesAccounted, RotationAfterRelease, DeliveredStays, TypeOK, Worker
<1>31. CASE UNCHANGED vars
  BY <1>31, <1>0 DEF vars, OutboxInv, TurnInv, DurableOutbox,
     AcceptancesAccounted,
     RotationAfterRelease, DeliveredStays
<1> QED
  BY <1>1, <1>2, <1>3, <1>4, <1>5, <1>6, <1>7, <1>8, <1>9, <1>10, <1>11,
     <1>12, <1>13, <1>14, <1>15, <1>16, <1>17, <1>18, <1>19, <1>20, <1>21,
     <1>22, <1>23, <1>24, <1>25, <1>26, <1>27, <1>28, <1>29, <1>30, <1>31
  DEF Next, WorkerStep, HandlerStep, RequestStep, EnvironmentStep
(* The inductive invariant holds after start-up.                           *)
LEMMA OutboxInit == Init => OutboxInv
  BY KeysAssumption DEF Init, OutboxInv, DurableOutbox, AcceptancesAccounted,
     RotationAfterRelease, TurnInv, NotRunning, InTurn, TurnPoints

(* The inductive invariant of the outbox holds throughout.                 *)
LEMMA OutboxAlways == Spec => [](TypeOK /\ OutboxInv)
<1>1. TypeOK /\ TypeOK' /\ OutboxInv /\ [Next]_vars => OutboxInv'
  BY OutboxStep
<1> QED  BY <1>1, OutboxInit, TypeCorrect, PTL DEF Spec

(* What the outbox acknowledged is in its file and what it forgot is not,  *)
(* for any number of failed writes and crashes (PrivateOutbox._save, its   *)
(* roll-backs and _load).                                                  *)
THEOREM OutboxIsDurable == Spec => []DurableOutbox
<1>1. OutboxInv => DurableOutbox
  BY DEF OutboxInv
<1> QED  BY <1>1, OutboxAlways, PTL

(* Every acceptance by a carrier is recorded, about to be recorded, or     *)
(* was lost to a failed write or a crash at that point (run_once,          *)
(* mark_delivered).                                                        *)
THEOREM EveryAcceptanceAccounted == Spec => []AcceptancesAccounted
<1>1. OutboxInv => AcceptancesAccounted
  BY DEF OutboxInv
<1> QED  BY <1>1, OutboxAlways, PTL

(* An alias rotation is committed only once its message is recorded        *)
(* delivered (_commit_dm_alias_rotation_if_present).                       *)
THEOREM RotationFollowsRelease == Spec => []RotationAfterRelease
<1>1. OutboxInv => RotationAfterRelease
  BY DEF OutboxInv
<1> QED  BY <1>1, OutboxAlways, PTL

(* No step takes an item back from "delivered", although mark_queued and   *)
(* mark_releasing overwrite whatever state they find.                      *)
THEOREM DeliveredForGood == Spec => DeliveredIsFinal
<1>1. TypeOK /\ TypeOK' /\ OutboxInv /\ [Next]_vars
        => [\A k \in Keys : items[k] = "delivered" => items'[k] = "delivered"]_vars
  BY OutboxStep DEF DeliveredStays
<1> QED  BY <1>1, TypeCorrect, OutboxAlways, PTL DEF Spec, DeliveredIsFinal

-------------------------------------------------------------------------------
(* The refinement of ReleasePromise.                                       *)

Accepted == {k \in Keys : items[k] # "none"}
Carried == {k \in Keys : w.pc = "acked" /\ w.key = k}
Confirmed == {k \in Keys : items[k] = "delivered"}
Silent == UNCHANGED <<Accepted, Carried, Confirmed>>

(* A step that neither takes an item in or out of the outbox nor moves the *)
(* worker to or from a carrier's acceptance is a stutter of the promise.   *)
LEMMA SilentStep ==
  ASSUME \A j \in Keys : /\ items[j] = "none" <=> items'[j] = "none"
                         /\ items[j] = "delivered" <=> items'[j] = "delivered",
         \/ w.pc # "acked" /\ w'.pc # "acked"
         \/ w' = w
  PROVE  Silent
  BY DEF Silent, Accepted, Carried, Confirmed

(* Where the worker stands after a jump, after a turn and after its death. *)
LEMMA Places ==
  ASSUME TypeOK
  PROVE  /\ NextItem.pc = "next" /\ NotRunning.pc = "dead"
         /\ \A p : GoTo(p) => w'.pc = p
  BY DEF NextItem, NotRunning, GoTo, TypeOK, Worker

(* Every step of the outbox, its worker, its handlers and its environment  *)
(* is a step of ReleasePromise or a stutter.                               *)
LEMMA PromiseStep ==
  ASSUME TypeOK, TypeOK', OutboxInv, [Next]_vars
  PROVE  Promise!PromiseNext \/ Silent
<1> DEFINE Goal == Promise!PromiseNext \/ Silent
<1> USE DEF outboxVars, boundVars, historyVars, userVars
<1>0. TypeOK /\ TypeOK' /\ OutboxInv
  OBVIOUS
<1>q. ASSUME items' = items,
             (w.pc # "acked" /\ w'.pc # "acked") \/ w' = w
      PROVE  Goal
  BY <1>q, SilentStep
<1>1. CASE StartPass
  BY <1>1, <1>0, <1>q DEF StartPass, TypeOK, Worker
<1>2. CASE TakeSnapshot
  BY <1>2, <1>0, <1>q DEF TakeSnapshot, TypeOK, Worker
<1>3. CASE EndPass
  BY <1>3, <1>0, <1>q DEF EndPass, Started, NotRunning, TypeOK, Worker
<1>4. ASSUME NEW k \in Keys, BeginTurn(k) PROVE Goal
  BY <1>4, <1>0, <1>q DEF BeginTurn, IsNext, TypeOK, Worker
<1>5. CASE ReadRoutes
  BY <1>5, <1>0, <1>q DEF ReadRoutes, GoTo, TypeOK, Worker
<1>6. CASE WithdrawApproval
  BY <1>6, <1>0, <1>q DEF WithdrawApproval, GoTo, TypeOK, Worker
<1>7. CASE ReadConsent
  BY <1>7, <1>0, <1>q DEF ReadConsent, TypeOK, Worker
<1>8. CASE ReadLinks
  BY <1>8, <1>0, <1>q DEF ReadLinks, TypeOK, Worker
<1>9. CASE CarrierRefuses
  BY <1>9, <1>0, <1>q DEF CarrierRefuses, GoTo, TypeOK, Worker
<1>10. CASE DirectFails
  BY <1>10, <1>0, <1>q DEF DirectFails, TypeOK, Worker
<1>11. CASE Settle
  BY <1>11, <1>0, <1>q DEF Settle, NextItem, TypeOK, Worker
<1>12. CASE GrantConnect
  BY <1>12, <1>0, <1>q DEF GrantConnect, TypeOK, Worker
<1>13. CASE ApplyRelay
  BY <1>13, <1>0, <1>q DEF ApplyRelay, EnsureStarted, Started, NotRunning,
     TypeOK, Worker
<1>14. CASE ApplyWait
  BY <1>14, <1>0, <1>q DEF ApplyWait, TypeOK, Worker
<1>15. CASE Resume
  BY <1>15, <1>0, <1>q DEF Resume, EnsureStarted, Started, NotRunning, TypeOK,
     Worker
<1>16. ASSUME NEW k \in Keys, NEW a \in {"relay", "wait"}, CheckAction(k, a) PROVE Goal
  BY <1>16, <1>0, <1>q DEF CheckAction, TypeOK, Worker
<1>17. ASSUME NEW r \in Recipients, RevokePolicy(r) PROVE Goal
  BY <1>17, <1>0, <1>q DEF RevokePolicy, TypeOK, Worker
<1>18. CASE Tick
  BY <1>18, <1>0, <1>q DEF Tick, TypeOK, Worker
<1>19. CASE TransportChanges
  BY <1>19, <1>0, <1>q DEF TransportChanges, TypeOK, Worker
<1>20. ASSUME NEW k \in Keys, RotationExpires(k) PROVE Goal
  BY <1>20, <1>0, <1>q DEF RotationExpires, TypeOK, Worker
<1>21. CASE ChooseRoute
  <2>1. w.pc # "acked" /\ w'.pc # "acked" /\ items' = items
    BY <1>21, <1>0 DEF ChooseRoute, GoTo, TypeOK, Worker
  <2> QED  BY <2>1, <1>q
<1>22. ASSUME NEW k \in Keys, BelowFloor(k) PROVE Goal
  <2>1. items[k] \in PendingStates
    BY <1>22, <1>0 DEF BelowFloor, IsNext, OutboxInv, TurnInv
  <2>2. \A j \in Keys : /\ items[j] = "none" <=> items'[j] = "none"
                        /\ items[j] = "delivered" <=> items'[j] = "delivered"
    BY <1>22, <1>0, <2>1 DEF BelowFloor, Saved, SaveRaises, TypeOK,
       PendingStates
  <2>3. w.pc # "acked" /\ w'.pc # "acked"
    BY <1>22, <1>0 DEF BelowFloor, IsNext, NotRunning, TypeOK, Worker
  <2> QED  BY <2>2, <2>3, SilentStep
<1>23. CASE AwaitHidden
  <2>1. w.key \in Keys /\ items[w.key] \in PendingStates
    BY <1>23, <1>0 DEF AwaitHidden, OutboxInv, TurnInv, InTurn, TurnPoints,
       TypeOK, Worker
  <2>2. \A j \in Keys : /\ items[j] = "none" <=> items'[j] = "none"
                        /\ items[j] = "delivered" <=> items'[j] = "delivered"
    BY <1>23, <1>0, <2>1 DEF AwaitHidden, Requeue, Saved, SaveRaises, TypeOK,
       PendingStates
  <2>3. w.pc # "acked" /\ w'.pc # "acked"
    BY <1>23, <1>0, Places DEF AwaitHidden, Requeue
  <2> QED  BY <2>2, <2>3, SilentStep
<1>24. CASE NoteNoRoute
  <2>1. w.key \in Keys /\ items[w.key] \in PendingStates
    BY <1>24, <1>0 DEF NoteNoRoute, OutboxInv, TurnInv, InTurn, TurnPoints,
       TypeOK, Worker
  <2>2. \A j \in Keys : /\ items[j] = "none" <=> items'[j] = "none"
                        /\ items[j] = "delivered" <=> items'[j] = "delivered"
    BY <1>24, <1>0, <2>1 DEF NoteNoRoute, Requeue, Saved, SaveRaises, TypeOK,
       PendingStates
  <2>3. w.pc # "acked" /\ w'.pc # "acked"
    BY <1>24, <1>0, Places DEF NoteNoRoute, Requeue
  <2> QED  BY <2>2, <2>3, SilentStep
<1>25. CASE MarkReleasing
  <2>1. w.key \in Keys /\ items[w.key] \in PendingStates
    BY <1>25, <1>0 DEF MarkReleasing, OutboxInv, TurnInv, InTurn, TurnPoints,
       TypeOK, Worker
  <2>2. \A j \in Keys : /\ items[j] = "none" <=> items'[j] = "none"
                        /\ items[j] = "delivered" <=> items'[j] = "delivered"
    BY <1>25, <1>0, <2>1 DEF MarkReleasing, Requeue, Saved, SaveRaises,
       TypeOK, PendingStates
  <2>3. w.pc # "acked" /\ w'.pc # "acked"
    BY <1>25, <1>0, Places DEF MarkReleasing, Requeue
  <2> QED  BY <2>2, <2>3, SilentStep
<1>26. CASE NoteAndRequeue
  <2>1. w.key \in Keys /\ items[w.key] \in PendingStates
    BY <1>26, <1>0 DEF NoteAndRequeue, OutboxInv, TurnInv, InTurn, TurnPoints,
       TypeOK, Worker
  <2>2. \A j \in Keys : /\ items[j] = "none" <=> items'[j] = "none"
                        /\ items[j] = "delivered" <=> items'[j] = "delivered"
    BY <1>26, <1>0, <2>1 DEF NoteAndRequeue, Requeue, Saved, SaveRaises,
       TypeOK, PendingStates
  <2>3. w.pc # "acked" /\ w'.pc # "acked"
    BY <1>26, <1>0, Places DEF NoteAndRequeue, Requeue
  <2> QED  BY <2>2, <2>3, SilentStep
<1>27. CASE CarrierAccepts
  <2>1. w.key \in Keys /\ items[w.key] \in PendingStates
    BY <1>27, <1>0 DEF CarrierAccepts, OutboxInv, TurnInv, InTurn, TurnPoints,
       TypeOK, Worker
  <2>2. w.pc # "acked" /\ w'.pc = "acked" /\ w'.key = w.key /\ items' = items
    BY <1>27, <1>0 DEF CarrierAccepts, GoTo, TypeOK, Worker
  <2>m. PICK m \in Keys : m = w.key
    BY <2>1
  <2>3. Promise!Carry(m)
    <3>1. Carried = {} /\ Carried' = {w.key}
      BY <2>1, <2>2 DEF Carried
    <3>2. Accepted' = Accepted /\ Confirmed' = Confirmed
      BY <2>2 DEF Accepted, Confirmed
    <3>3. w.key \in Accepted /\ w.key \notin Confirmed
      BY <2>1 DEF Accepted, Confirmed, PendingStates
    <3> QED
      BY <2>m, <3>1, <3>2, <3>3 DEF Promise!Carry, Accepted, Carried, Confirmed
  <2> QED  BY <2>3 DEF Promise!PromiseNext
<1>28. CASE MarkDelivered
  <2>1. w.key \in Keys /\ w.pc = "acked" /\ items[w.key] \in PendingStates
    BY <1>28, <1>0 DEF MarkDelivered, OutboxInv, TurnInv, InTurn, TurnPoints,
       TypeOK, Worker
  <2>2. w'.pc # "acked"
    BY <1>28, <1>0 DEF MarkDelivered, GoTo, NotRunning, TypeOK, Worker
  <2>m. PICK m \in Keys : m = w.key
    BY <2>1
  <2>3. CASE Saved(w.key, "delivered")
    <3>1. /\ items'[w.key] = "delivered"
          /\ \A j \in Keys : j # w.key => items'[j] = items[j]
      BY <1>0, <2>1, <2>3 DEF Saved, TypeOK
    <3>2. Promise!Confirm(m)
      <4>1. Carried = {w.key} /\ Carried' = {}
        BY <2>1, <2>2 DEF Carried
      <4>2. Accepted' = Accepted
        BY <2>1, <3>1 DEF Accepted, PendingStates
      <4>3. Confirmed' = Confirmed \cup {w.key}
        BY <2>1, <3>1 DEF Confirmed
      <4> QED
        BY <2>m, <4>1, <4>2, <4>3 DEF Promise!Confirm, Accepted, Carried,
           Confirmed
    <3> QED  BY <3>2 DEF Promise!PromiseNext
  <2>4. CASE SaveRaises
    <3>1. Promise!Miss(m)
      <4>1. Carried = {w.key} /\ Carried' = {}
        BY <2>1, <2>2 DEF Carried
      <4>2. Accepted' = Accepted /\ Confirmed' = Confirmed
        BY <2>4 DEF SaveRaises, Accepted, Confirmed
      <4> QED
        BY <2>m, <4>1, <4>2 DEF Promise!Miss, Accepted, Carried, Confirmed
    <3> QED  BY <3>1 DEF Promise!PromiseNext
  <2> QED  BY <1>28, <2>3, <2>4 DEF MarkDelivered
<1>29. ASSUME NEW k \in Keys, Submit(k) PROVE Goal
  <2>1. w' = w \/ (w.pc # "acked" /\ w'.pc # "acked")
    BY <1>29, <1>0 DEF Submit, EnsureStarted, Started, NotRunning, TypeOK,
       Worker
  <2>2. CASE items' = items
    BY <2>1, <2>2, <1>q
  <2>3. CASE items[k] = "none" /\ Saved(k, "queued")
    <3>1. /\ items'[k] = "queued"
          /\ \A j \in Keys : j # k => items'[j] = items[j]
      BY <1>0, <2>3 DEF Saved, TypeOK
    <3>2. Promise!Accept(k)
      BY <2>1, <2>3, <3>1 DEF Promise!Accept
    <3> QED  BY <3>2 DEF Promise!PromiseNext
  <2>4. items' = items \/ (items[k] = "none" /\ Saved(k, "queued"))
    BY <1>29, <1>0 DEF Submit, Saved, SaveRaises, TypeOK
  <2> QED  BY <2>2, <2>3, <2>4
<1>30. CASE Crash
  <2>1. \A j \in Keys : /\ items[j] = "none" <=> items'[j] = "none"
                        /\ items[j] = "delivered" <=> items'[j] = "delivered"
    BY <1>30, <1>0 DEF Crash, Normalized, OutboxInv, DurableOutbox, TypeOK
  <2>2. w'.pc = "dead"
    BY <1>30 DEF Crash, NotRunning
  <2>3. CASE w.pc # "acked"
    BY <2>1, <2>2, <2>3, SilentStep
  <2>4. CASE w.pc = "acked"
    <3>1. w.key \in Keys
      BY <1>0 DEF TypeOK, Worker
    <3>m. PICK m \in Keys : m = w.key
      BY <3>1
    <3>2. Promise!Miss(m)
      <4>1. Carried = {w.key} /\ Carried' = {}
        BY <2>2, <2>4, <3>1 DEF Carried
      <4>2. Accepted' = Accepted /\ Confirmed' = Confirmed
        BY <2>1 DEF Accepted, Confirmed
      <4> QED
        BY <3>m, <4>1, <4>2 DEF Promise!Miss, Accepted, Carried, Confirmed
    <3> QED  BY <3>2 DEF Promise!PromiseNext
  <2> QED  BY <2>3, <2>4
<1>31. CASE UNCHANGED vars
  BY <1>31, <1>q DEF vars
<1> QED
  BY <1>1, <1>2, <1>3, <1>4, <1>5, <1>6, <1>7, <1>8, <1>9, <1>10, <1>11,
     <1>12, <1>13, <1>14, <1>15, <1>16, <1>17, <1>18, <1>19, <1>20, <1>21,
     <1>22, <1>23, <1>24, <1>25, <1>26, <1>27, <1>28, <1>29, <1>30, <1>31
  DEF Next, WorkerStep, HandlerStep, RequestStep, EnvironmentStep

(* The outbox, its worker and its crashes implement ReleasePromise: what   *)
(* is accepted is kept, carried by one carrier at a time, confirmed only   *)
(* when carried, and carried again only after a missed confirmation        *)
(* (mesh_private_outbox, mesh_private_release_worker).                     *)
THEOREM OutboxKeepsPromise == Spec => KeepsPromise
<1>1. Init => Promise!PromiseInit
  BY DEF Init, Promise!PromiseInit, NotRunning
<1>2. TypeOK /\ TypeOK' /\ OutboxInv /\ [Next]_vars
        => [Promise!PromiseNext]_Promise!promiseVars
  BY PromiseStep DEF Silent, Accepted, Carried, Confirmed, Promise!promiseVars
<1> QED
  BY <1>1, <1>2, TypeCorrect, OutboxAlways, PTL
  DEF Spec, KeepsPromise, Promise!PromiseSpec
-------------------------------------------------------------------------------
(* Decisions of the user.                                                  *)

(* The approval state s of an item agrees with the last decision c on it   *)
(* and with its release state i.                                           *)
Fits(s, c, i) ==
  /\ s.approved => c = "relay"
  /\ s.wait => c = "wait"
  /\ s.required => /\ i \in PendingStates
                   /\ s.age = Window
                   /\ ~s.approved
                   /\ ~s.wait

(* What the approval states and the policy file hold was decided by the    *)
(* user or authorised, and a prompt stands only on an item that earned it. *)
DecisionInv ==
  /\ \A k \in Keys : Fits(session[k], choice[k], items[k])
  /\ \A r \in Recipients : grants[r] > 0 => r \in licensed

(* A cleared approval state agrees with every decision                     *)
(* (clear_release_session_state).                                          *)
LEMMA ClearFits == \A c, i : Fits(NoSession, c, i)
  BY DEF Fits, NoSession

(* A note keeps the decision and asks only at the end of the window        *)
(* (note_release_revalidation_failure).                                    *)
LEMMA NoteFits ==
  ASSUME NEW s \in Session, NEW c, NEW i \in PendingStates, Fits(s, c, i)
  PROVE  Fits(Noted(s), c, i)
<1> DEFINE age == IF s.age = NotFailing THEN 0 ELSE s.age
<1>1. age \in 0 .. Window
  BY SettingsAssumption DEF Session, NotFailing
<1>2. /\ Noted(s).approved = s.approved
      /\ Noted(s).wait = s.wait
      /\ Noted(s).age = age
  BY DEF Noted, Session
<1>3. Noted(s).required => ~s.approved /\ ~s.wait /\ age >= Window
  BY DEF Noted, Session
<1>4. Noted(s).required => age = Window
  BY <1>1, <1>3, SettingsAssumption
<1> QED  BY <1>2, <1>3, <1>4 DEF Fits

PendingStays ==
  \A j \in Keys : items[j] \in PendingStates => items'[j] \in PendingStates

(* Clearing, noting or leaving alone the approval state of a pending item  *)
(* keeps the invariant as long as no decision is taken.                    *)
LEMMA SessionKept ==
  ASSUME TypeOK, DecisionInv, PendingStays, UNCHANGED choice,
         \/ \E k \in Keys : \/ ClearSession(k)
                            \/ NoteFailure(k) /\ items[k] \in PendingStates
         \/ UNCHANGED session
  PROVE  \A k \in Keys : Fits(session'[k], choice'[k], items'[k])
<1> SUFFICES ASSUME NEW j \in Keys
             PROVE  Fits(session'[j], choice[j], items'[j])
  OBVIOUS
<1>1. Fits(session[j], choice[j], items[j]) /\ session[j] \in Session
  BY DEF DecisionInv, TypeOK
<1>2. Fits(session[j], choice[j], items'[j])
  BY <1>1 DEF Fits, PendingStays
<1>3. \/ session'[j] = session[j]
      \/ session'[j] = NoSession
      \/ session'[j] = Noted(session[j]) /\ items[j] \in PendingStates
  BY DEF ClearSession, NoteFailure, TypeOK
<1>4. items[j] \in PendingStates => items'[j] \in PendingStates
  BY DEF PendingStays
<1>5. CASE session'[j] = session[j]
  BY <1>2, <1>5
<1>6. CASE session'[j] = NoSession
  BY <1>6, ClearFits
<1>7. CASE session'[j] = Noted(session[j]) /\ items[j] \in PendingStates
  BY <1>1, <1>2, <1>4, <1>7, NoteFits
<1> QED  BY <1>3, <1>5, <1>6, <1>7

(* A step that leaves the policy file alone leaves its grants licensed.    *)
LEMMA LicenseKept ==
  ASSUME DecisionInv, UNCHANGED <<grants, licensed>>
  PROVE  \A r \in Recipients : grants'[r] > 0 => r \in licensed'
  BY DEF DecisionInv

(* The decisions survive every step of the worker. *)
LEMMA WorkerDecisions ==
  ASSUME TypeOK, TypeOK', OutboxInv, DecisionInv, WorkerStep
  PROVE  DecisionInv'
<1> USE DEF outboxVars, boundVars, historyVars, userVars
<1>0. TypeOK /\ OutboxInv /\ DecisionInv
  OBVIOUS
<1>a. ASSUME WorkerAlone, PendingStays,
             \/ \E k \in Keys : \/ ClearSession(k)
                                \/ NoteFailure(k) /\ items[k] \in PendingStates
             \/ UNCHANGED session
      PROVE  DecisionInv'
  BY <1>0, <1>a, SessionKept, LicenseKept DEF WorkerAlone, DecisionInv
<1>b. UNCHANGED items => PendingStays
  BY DEF PendingStays
<1>c. ASSUME NEW k \in Keys, items[k] \in PendingStates,
             NEW state \in PendingStates, Saved(k, state) \/ SaveRaises
      PROVE  PendingStays
  BY <1>0, <1>c, PendingWrite DEF OutboxInv, PendingStays
<1>d. w.key \in Keys
      /\ (InTurn(w.pc) /\ w.pc # "settle" => items[w.key] \in PendingStates)
  BY <1>0 DEF OutboxInv, TurnInv, TypeOK, Worker
<1>e. "queued" \in PendingStates /\ "releasing" \in PendingStates
  BY DEF PendingStates
<1>1. CASE StartPass
  BY <1>1, <1>a, <1>b DEF StartPass
<1>2. CASE TakeSnapshot
  BY <1>2, <1>a, <1>b DEF TakeSnapshot
<1>3. CASE EndPass
  BY <1>3, <1>a, <1>b DEF EndPass
<1>4. ASSUME NEW k \in Keys, BeginTurn(k) PROVE DecisionInv'
  BY <1>4, <1>a, <1>b DEF BeginTurn
<1>5. CASE ReadRoutes
  BY <1>5, <1>a, <1>b DEF ReadRoutes
<1>6. CASE ReadConsent
  BY <1>6, <1>a, <1>b DEF ReadConsent
<1>7. CASE ReadLinks
  BY <1>7, <1>a, <1>b DEF ReadLinks
<1>8. CASE ChooseRoute
  BY <1>8, <1>a, <1>b DEF ChooseRoute
<1>9. CASE CarrierAccepts
  BY <1>9, <1>a, <1>b DEF CarrierAccepts
<1>10. CASE CarrierRefuses
  BY <1>10, <1>a, <1>b DEF CarrierRefuses
<1>11. CASE DirectFails
  BY <1>11, <1>a, <1>b DEF DirectFails
<1>12. CASE WithdrawApproval
  BY <1>12, <1>a, <1>b, <1>d DEF WithdrawApproval
<1>13. CASE Settle
  BY <1>13, <1>a, <1>b, <1>d DEF Settle
<1>14. ASSUME NEW k \in Keys, BelowFloor(k) PROVE DecisionInv'
  <2>1. items[k] \in PendingStates
    BY <1>14, <1>0 DEF BelowFloor, IsNext, OutboxInv, TurnInv
  <2>2. PendingStays
    BY <1>14, <2>1, <1>c, <1>e DEF BelowFloor
  <2> QED  BY <1>14, <1>a, <2>1, <2>2 DEF BelowFloor
<1>15. CASE AwaitHidden
  <2>1. items[w.key] \in PendingStates
    BY <1>15, <1>d DEF AwaitHidden, InTurn, TurnPoints
  <2>2. PendingStays
    BY <1>15, <2>1, <1>b, <1>c, <1>d, <1>e DEF AwaitHidden
  <2> QED  BY <1>15, <1>a, <1>d, <2>1, <2>2 DEF AwaitHidden
<1>16. CASE NoteNoRoute
  <2>1. items[w.key] \in PendingStates
    BY <1>16, <1>d DEF NoteNoRoute, InTurn, TurnPoints
  <2>2. PendingStays
    BY <1>16, <2>1, <1>b, <1>c, <1>d, <1>e DEF NoteNoRoute, Requeue
  <2> QED  BY <1>16, <1>a, <1>d, <2>1, <2>2 DEF NoteNoRoute
<1>17. CASE MarkReleasing
  <2>1. items[w.key] \in PendingStates
    BY <1>17, <1>d DEF MarkReleasing, InTurn, TurnPoints
  <2>2. PendingStays
    BY <1>17, <2>1, <1>b, <1>c, <1>d, <1>e DEF MarkReleasing, Requeue
  <2> QED  BY <1>17, <1>a, <1>d, <2>1, <2>2 DEF MarkReleasing
<1>18. CASE NoteAndRequeue
  <2>1. items[w.key] \in PendingStates
    BY <1>18, <1>d DEF NoteAndRequeue, InTurn, TurnPoints
  <2>2. PendingStays
    BY <1>18, <2>1, <1>b, <1>c, <1>d, <1>e DEF NoteAndRequeue, Requeue
  <2> QED  BY <1>18, <1>a, <1>d, <2>1, <2>2 DEF NoteAndRequeue
<1>19. CASE MarkDelivered
  <2>1. CASE SaveRaises /\ UNCHANGED session
    BY <1>19, <2>1, <1>a, <1>b DEF MarkDelivered, SaveRaises
  <2>2. CASE Saved(w.key, "delivered") /\ ClearSession(w.key)
    <3>1. /\ session'[w.key] = NoSession
          /\ \A j \in Keys : j # w.key => /\ session'[j] = session[j]
                                         /\ items'[j] = items[j]
      BY <1>0, <2>2, <1>d DEF Saved, ClearSession, TypeOK
    <3>2. UNCHANGED choice
      BY <1>19 DEF MarkDelivered, WorkerAlone
    <3>3. \A j \in Keys : Fits(session'[j], choice'[j], items'[j])
      BY <1>0, <3>1, <3>2, ClearFits DEF DecisionInv
    <3> QED
      BY <1>0, <1>19, <3>3, LicenseKept
      DEF MarkDelivered, WorkerAlone, DecisionInv
  <2> QED  BY <1>19, <2>1, <2>2 DEF MarkDelivered
<1> QED
  BY <1>1, <1>2, <1>3, <1>4, <1>5, <1>6, <1>7, <1>8, <1>9, <1>10, <1>11,
     <1>12, <1>13, <1>14, <1>15, <1>16, <1>17, <1>18, <1>19 DEF WorkerStep
(* The decisions survive every request: a handler that changes the      *)
(* approval of an item records the decision it carries out.                *)
LEMMA RequestDecisions ==
  ASSUME TypeOK, TypeOK', DecisionInv, HandlerStep \/ Resume \/ RequestStep
  PROVE  DecisionInv'
<1> USE DEF outboxVars, boundVars, historyVars, userVars
<1>0. TypeOK /\ DecisionInv
  OBVIOUS
<1>a. ASSUME UNCHANGED <<session, choice, grants, licensed>>, PendingStays
      PROVE  DecisionInv'
  BY <1>0, <1>a, SessionKept, LicenseKept DEF DecisionInv
<1>b. ASSUME NEW k \in Keys, GrantPolicy(k)
      PROVE  \A r \in Recipients : grants'[r] > 0 => r \in licensed'
  BY <1>0, <1>b DEF GrantPolicy, DecisionInv, TypeOK
<1>c. handler.key \in Keys
  BY <1>0 DEF TypeOK
<1>1. CASE GrantConnect
  <2>1. PendingStays
    BY <1>1 DEF GrantConnect, PendingStays
  <2> QED
    BY <1>0, <1>1, <1>b, <1>c, <2>1, SessionKept DEF GrantConnect, DecisionInv
<1>2. CASE ApplyRelay
  <2>1. /\ ~session'[handler.key].wait
        /\ ~session'[handler.key].required
        /\ choice'[handler.key] = "relay"
    BY <1>0, <1>2, <1>c DEF ApplyRelay, TypeOK, Session
  <2>2. \A j \in Keys : j # handler.key =>
          session'[j] = session[j] /\ choice'[j] = choice[j]
    BY <1>0, <1>2 DEF ApplyRelay, TypeOK
  <2>3. items' = items
    BY <1>2 DEF ApplyRelay
  <2>4. \A j \in Keys : Fits(session'[j], choice'[j], items'[j])
    BY <1>0, <2>1, <2>2, <2>3 DEF DecisionInv, Fits
  <2>5. \A r \in Recipients : grants'[r] > 0 => r \in licensed'
    BY <1>0, <1>2, <1>b, <1>c, LicenseKept DEF ApplyRelay
  <2> QED  BY <2>4, <2>5 DEF DecisionInv
<1>3. CASE ApplyWait
  <2>1. /\ ~session'[handler.key].approved
        /\ ~session'[handler.key].required
        /\ choice'[handler.key] = "wait"
    BY <1>0, <1>3, <1>c DEF ApplyWait, TypeOK, Session
  <2>2. \A j \in Keys : j # handler.key =>
          session'[j] = session[j] /\ choice'[j] = choice[j]
    BY <1>0, <1>3 DEF ApplyWait, TypeOK
  <2>3. items' = items
    BY <1>3 DEF ApplyWait
  <2>4. \A j \in Keys : Fits(session'[j], choice'[j], items'[j])
    BY <1>0, <2>1, <2>2, <2>3 DEF DecisionInv, Fits
  <2>5. UNCHANGED <<grants, licensed>>
    BY <1>3 DEF ApplyWait
  <2> QED  BY <1>0, <2>4, <2>5, LicenseKept DEF DecisionInv
<1>4. CASE Resume
  BY <1>4, <1>a DEF Resume, PendingStays
<1>5. ASSUME NEW k \in Keys, Submit(k) PROVE DecisionInv'
  <2>1. PendingStays
    BY <1>0, <1>5 DEF Submit, Saved, SaveRaises, PendingStays, PendingStates,
       TypeOK
  <2> QED  BY <1>5, <1>a, <2>1 DEF Submit
<1>6. ASSUME NEW k \in Keys, NEW action \in {"relay", "wait"},
             CheckAction(k, action)
      PROVE  DecisionInv'
  BY <1>6, <1>a DEF CheckAction, PendingStays
<1>7. ASSUME NEW r \in Recipients, RevokePolicy(r) PROVE DecisionInv'
  <2>1. \A q \in Recipients : grants'[q] > 0 => q \in licensed'
    BY <1>0, <1>7 DEF RevokePolicy, DecisionInv, TypeOK
  <2>2. PendingStays
    BY <1>7 DEF RevokePolicy, PendingStays
  <2> QED
    BY <1>0, <1>7, <2>1, <2>2, SessionKept DEF RevokePolicy, DecisionInv
<1> QED
  BY <1>1, <1>2, <1>3, <1>4, <1>5, <1>6, <1>7 DEF HandlerStep, RequestStep

(* The decisions survive the clock, the transports and crashes. *)
LEMMA EnvironmentDecisions ==
  ASSUME TypeOK, TypeOK', DecisionInv, EnvironmentStep
  PROVE  DecisionInv'
<1> USE DEF outboxVars, boundVars, historyVars, userVars
<1>0. TypeOK /\ DecisionInv
  OBVIOUS
<1>1. CASE Tick
  <2>1. ASSUME NEW j \in Keys
        PROVE  Fits(session'[j], choice'[j], items'[j])
    <3>1. /\ Fits(session[j], choice[j], items[j])
          /\ choice' = choice /\ items' = items
      BY <1>0, <1>1 DEF Tick, DecisionInv
    <3>2. CASE session[j].age \in 0 .. Window - 1
      <4>1. /\ session'[j].approved = session[j].approved
            /\ session'[j].wait = session[j].wait
            /\ session'[j].required = session[j].required
        BY <1>0, <1>1, <3>2 DEF Tick, TypeOK, Session
      <4>2. ~session[j].required
        BY <3>1, <3>2, SettingsAssumption DEF Fits
      <4> QED  BY <3>1, <4>1, <4>2 DEF Fits
    <3>3. CASE session[j].age \notin 0 .. Window - 1
      BY <1>0, <1>1, <3>1, <3>3 DEF Tick, TypeOK
    <3> QED  BY <3>2, <3>3
  <2>2. \A r \in Recipients : grants'[r] > 0 => r \in licensed'
    BY <1>0, <1>1, SettingsAssumption DEF Tick, DecisionInv, TypeOK
  <2> QED  BY <2>1, <2>2 DEF DecisionInv
<1>2. CASE TransportChanges
  BY <1>0, <1>2, SessionKept, LicenseKept DEF TransportChanges, DecisionInv,
     PendingStays
<1>3. ASSUME NEW k \in Keys, RotationExpires(k) PROVE DecisionInv'
  BY <1>0, <1>3, SessionKept, LicenseKept DEF RotationExpires, DecisionInv,
     PendingStays
<1>4. CASE Crash
  <2>1. \A j \in Keys : session'[j] = NoSession
    BY <1>4 DEF Crash
  <2> QED
    BY <1>0, <1>4, <2>1, ClearFits, LicenseKept DEF Crash, DecisionInv
<1> QED  BY <1>1, <1>2, <1>3, <1>4 DEF EnvironmentStep

(* The inductive invariant of the decisions holds throughout.              *)
LEMMA DecisionAlways == Spec => []DecisionInv
<1>1. Init => DecisionInv
  BY ClearFits DEF Init, DecisionInv
<1>2. TypeOK /\ TypeOK' /\ OutboxInv /\ DecisionInv /\ [Next]_vars => DecisionInv'
  <2> SUFFICES ASSUME TypeOK, TypeOK', OutboxInv, DecisionInv, [Next]_vars
               PROVE  DecisionInv'
    OBVIOUS
  <2>1. CASE Next
    BY <2>1, WorkerDecisions, RequestDecisions, EnvironmentDecisions DEF Next
  <2>2. CASE UNCHANGED vars
    BY <2>2 DEF vars, DecisionInv
  <2> QED  BY <2>1, <2>2
<1> QED  BY <1>1, <1>2, TypeCorrect, OutboxAlways, PTL DEF Spec

(* The approval state of an item agrees with the last decision on it,      *)
(* through clears, notes, expiries and crashes (approve_relay_release,     *)
(* continue_waiting_for_release).                                          *)
THEOREM DecisionStands == Spec => []StandingDecision
<1>1. DecisionInv => StandingDecision
  BY DEF DecisionInv, Fits, StandingDecision
<1> QED  BY <1>1, DecisionAlways, PTL

(* A prompt stands only on a pending item, at the end of a whole window,   *)
(* and against no standing decision (note_release_revalidation_failure).   *)
THEOREM PromptEarned == Spec => []PromptIsEarned
<1>1. DecisionInv => PromptIsEarned
  BY DEF DecisionInv, Fits, PromptIsEarned, PendingStates
<1> QED  BY <1>1, DecisionAlways, PTL
-------------------------------------------------------------------------------
(* What a turn saw before an item left.                                *)

(* The worker's reads were true when it made them: the history of the turn *)
(* has seen the tier, the consent and the masking its locals record.       *)
SeenInv ==
  /\ InPass(w.pc) => seen.tier >= w.tier
  /\ InTurn(w.pc) => w.tier >= Floor(w.key)
  /\ ~InTurn(w.pc) => ~w.consent /\ ~w.forced
  /\ InTurn(w.pc) /\ w.consent /\ ApprovalEnabled => seen.consent
  /\ InTurn(w.pc) /\ w.forced => seen.masked
  /\ w.pc = "direct" => seen.plain
  /\ w.pc = "deposit" => seen.plain \/ seen.masked
  /\ w.pc = "deposit" => w.forced \/ w.consent \/ ~SecureDM

(* Within a pass and a turn the history only grows, and it includes the    *)
(* moment after the step.                                                  *)
LEMMA SeenGrows ==
  ASSUME TypeOK, TypeOK', Witness
  PROVE  /\ InPass(w.pc) /\ InPass(w'.pc) => seen'.tier >= seen.tier
         /\ InPass(w'.pc) => seen'.tier >= env'.tier
         /\ InTurn(w.pc) /\ InTurn(w'.pc) =>
              /\ seen.consent => seen'.consent
              /\ seen.masked => seen'.masked
              /\ seen.plain => seen'.plain
         /\ InTurn(w'.pc) =>
              /\ Authorised(w.key)' => seen'.consent
              /\ Masked(env') => seen'.masked
              /\ ~env'.anon => seen'.plain
<1>1. /\ env'.tier \in Int /\ seen.tier \in Int
  BY EnvironmentsAssumption DEF TypeOK, Condition, Seen, Tiers, PublicDegraded,
     PrivateStrong
<1>2. \A a, b \in Int : HigherOf(a, b) >= a /\ HigherOf(a, b) >= b
  BY DEF HigherOf
<1> QED
  BY <1>1, <1>2 DEF Witness

(* Consent that is granted was authorised: by the decision on the item or  *)
(* by a grant of the policy that nobody revoked (_relay_consent_granted).  *)
LEMMA ConsentIsAuthorised ==
  ASSUME TypeOK, DecisionInv, NEW k \in Keys, ConsentGranted(k), ApprovalEnabled
  PROVE  Authorised(k)
<1>1. session[k].approved => choice[k] = "relay"
  BY DEF DecisionInv, Fits
<1>2. PolicyGranted(k) => k \in DmKeys /\ Recipient[k] \in licensed /\ env.hidden
  BY KeysAssumption DEF DecisionInv, PolicyGranted
<1> QED  BY <1>1, <1>2 DEF ConsentGranted, Authorised

(* A step that leaves the worker where it is, ends its thread or starts it *)
(* keeps the invariant.                                                    *)
LEMMA SeenElsewhere ==
  ASSUME TypeOK, TypeOK', SeenInv, Witness
  PROVE  /\ w' \in {w, NotRunning, Started} => SeenInv'
         /\ w' = NextItem /\ InPass(w.pc) => SeenInv'
<1>1. ASSUME w' = w PROVE SeenInv'
  <2>1. seen'.tier \in Int /\ seen.tier \in Int /\ w.tier \in Int
    BY DEF TypeOK, Seen, Worker, Tiers, PublicDegraded, PrivateStrong
  <2>2. InPass(w.pc) => seen'.tier >= seen.tier
    BY <1>1, SeenGrows
  <2>3. InTurn(w.pc) => /\ seen.consent => seen'.consent
                        /\ seen.masked => seen'.masked
                        /\ seen.plain => seen'.plain
    BY <1>1, SeenGrows
  <2>4. w.pc \in {"direct", "deposit"} => InTurn(w.pc)
    BY DEF InTurn, TurnPoints
  <2>5. InPass(w.pc) => seen'.tier >= w.tier
    <3>1. InPass(w.pc) => seen.tier >= w.tier
      BY DEF SeenInv
    <3> QED  BY <2>1, <2>2, <3>1
  <2>6. /\ InTurn(w.pc) => w.tier >= Floor(w.key)
        /\ ~InTurn(w.pc) => ~w.consent /\ ~w.forced
        /\ w.pc = "deposit" => w.forced \/ w.consent \/ ~SecureDM
    BY DEF SeenInv
  <2>7. /\ InTurn(w.pc) /\ w.consent /\ ApprovalEnabled => seen'.consent
        /\ InTurn(w.pc) /\ w.forced => seen'.masked
    BY <2>3 DEF SeenInv
  <2>8. /\ w.pc = "direct" => seen'.plain
        /\ w.pc = "deposit" => seen'.plain \/ seen'.masked
    BY <2>3, <2>4 DEF SeenInv
  <2> QED  BY <1>1, <2>5, <2>6, <2>7, <2>8 DEF SeenInv, InPass, InTurn, Floor
<1>2. ASSUME w' = NotRunning PROVE SeenInv'
  BY <1>2 DEF NotRunning, SeenInv, InPass, InTurn, TurnPoints
<1>3. ASSUME w' = Started PROVE SeenInv'
  BY <1>3 DEF NotRunning, Started, SeenInv, InPass, InTurn, TurnPoints
<1>4. ASSUME w' = NextItem, InPass(w.pc) PROVE SeenInv'
  <2>1. /\ w'.pc = "next" /\ w'.tier = w.tier /\ ~w'.consent /\ ~w'.forced
    BY <1>4 DEF NextItem, TypeOK, Worker
  <2>2. seen'.tier >= seen.tier
    BY <1>4, <2>1, SeenGrows DEF InPass
  <2>3. seen'.tier \in Int /\ seen.tier \in Int /\ w.tier \in Int
    BY DEF TypeOK, Seen, Worker, Tiers, PublicDegraded, PrivateStrong
  <2> QED
    BY <1>4, <2>1, <2>2, <2>3 DEF SeenInv, InPass, InTurn, TurnPoints
<1> QED  BY <1>1, <1>2, <1>3, <1>4

(* Every step of the worker keeps what the turn saw in line with its       *)
(* locals.                                                                 *)
LEMMA WorkerSeen ==
  ASSUME TypeOK, TypeOK', DecisionInv, SeenInv, WorkerStep
  PROVE  SeenInv'
<1>0. TypeOK /\ TypeOK' /\ DecisionInv /\ SeenInv
  OBVIOUS
<1>w. Witness /\ UNCHANGED <<env, choice, licensed>>
  BY DEF WorkerStep, WorkerAlone, userVars, StartPass, TakeSnapshot, EndPass,
     BeginTurn, BelowFloor, AwaitHidden, ReadRoutes, WithdrawApproval,
     NoteNoRoute, MarkReleasing, ReadConsent, ReadLinks, ChooseRoute,
     CarrierAccepts, CarrierRefuses, DirectFails, NoteAndRequeue,
     MarkDelivered, Settle
<1>i. seen'.tier \in Int /\ seen.tier \in Int /\ w.tier \in Int /\ w'.tier \in Int
  BY DEF TypeOK, Seen, Worker, Tiers, PublicDegraded, PrivateStrong
(* A move inside a turn that does not touch the locals. *)
<1>m. ASSUME InTurn(w.pc), InTurn(w'.pc), UNCHANGED <<w.tier, w.key, w.consent, w.forced>>,
             w'.pc \notin {"direct", "deposit"}
      PROVE  SeenInv'
  <2>1. InPass(w.pc) /\ InPass(w'.pc)
    BY <1>m DEF InPass, InTurn, TurnPoints
  <2> QED
    BY <1>0, <1>i, <1>w, <1>m, <2>1, SeenGrows DEF SeenInv
<1>1. CASE StartPass
  <2>1. w'.pc = "snapshot" /\ w'.tier = env'.tier /\ ~w'.consent /\ ~w'.forced
    BY <1>0, <1>1 DEF StartPass, WorkerAlone, TypeOK, Worker, SeenInv, InTurn,
       TurnPoints
  <2> QED
    BY <1>0, <1>w, <2>1, SeenGrows DEF SeenInv, InPass, InTurn, TurnPoints
<1>2. CASE TakeSnapshot
  <2>1. /\ w.pc = "snapshot" /\ w'.pc = "next" /\ w'.tier = w.tier
        /\ ~w'.consent /\ ~w'.forced
    BY <1>0, <1>2 DEF TakeSnapshot, TypeOK, Worker, SeenInv, InTurn, TurnPoints
  <2>2. seen'.tier >= seen.tier /\ seen.tier >= w.tier
    BY <1>0, <1>w, <2>1, SeenGrows DEF InPass, SeenInv
  <2> QED
    BY <1>i, <2>1, <2>2 DEF SeenInv, InPass, InTurn, TurnPoints
<1>3. CASE EndPass
  BY <1>0, <1>3, <1>w, SeenElsewhere DEF EndPass
<1>4. ASSUME NEW k \in Keys, BeginTurn(k) PROVE SeenInv'
  <2>1. /\ w.pc = "next" /\ w'.pc \in {"hidden", "attest"}
        /\ w'.tier = w.tier /\ w'.key = k /\ w.tier >= Floor(k)
        /\ ~w'.consent /\ ~w'.forced
    BY <1>0, <1>4 DEF BeginTurn, IsNext, TypeOK, Worker, SeenInv, InTurn,
       TurnPoints
  <2>2. seen'.tier >= seen.tier /\ seen.tier >= w.tier
    BY <1>0, <1>w, <2>1, SeenGrows DEF InPass, SeenInv
  <2>3. w'.tier >= Floor(w'.key)
    BY <2>1
  <2> QED
    BY <1>i, <2>1, <2>2, <2>3 DEF SeenInv, InPass, InTurn, TurnPoints, Floor
<1>5. ASSUME NEW k \in Keys, BelowFloor(k) PROVE SeenInv'
  <2>1. CASE w' = NotRunning
    BY <1>0, <1>w, <2>1, SeenElsewhere
  <2>2. CASE w' = [w EXCEPT !.todo = @ \ {k}]
    <3>1. /\ w.pc = "next" /\ w'.pc = "next" /\ w'.tier = w.tier
          /\ ~w'.consent /\ ~w'.forced
      BY <1>0, <1>5, <2>2 DEF BelowFloor, IsNext, TypeOK, Worker, SeenInv,
         InTurn, TurnPoints
    <3>2. seen'.tier >= seen.tier /\ seen.tier >= w.tier
      BY <1>0, <1>w, <3>1, SeenGrows DEF InPass, SeenInv
    <3> QED
      BY <1>i, <3>1, <3>2 DEF SeenInv, InPass, InTurn, TurnPoints
  <2> QED  BY <1>5, <2>1, <2>2 DEF BelowFloor
(* The steps that only move on within the turn, or end it. *)
<1>g. ASSUME NEW p \in TurnPoints \ {"direct", "deposit"}, InTurn(w.pc), GoTo(p)
      PROVE  SeenInv'
  <2>1. w'.pc = p /\ UNCHANGED <<w.tier, w.key, w.consent, w.forced>>
    BY <1>0, <1>g DEF GoTo, TypeOK, Worker
  <2> QED  BY <1>g, <2>1, <1>m DEF InTurn
<1>e. ASSUME InTurn(w.pc), w' = NextItem \/ w' = NotRunning
      PROVE  SeenInv'
  <2>1. InPass(w.pc)
    BY <1>e DEF InTurn, InPass, TurnPoints
  <2> QED  BY <1>0, <1>w, <1>e, <2>1, SeenElsewhere
<1>6. CASE AwaitHidden
  BY <1>6, <1>g, <1>e DEF AwaitHidden, InTurn, TurnPoints
<1>7. CASE ReadRoutes
  BY <1>7, <1>g DEF ReadRoutes, InTurn, TurnPoints
<1>8. CASE WithdrawApproval
  BY <1>8, <1>g DEF WithdrawApproval, InTurn, TurnPoints
<1>9. CASE NoteNoRoute
  BY <1>9, <1>g, <1>e DEF NoteNoRoute, Requeue, InTurn, TurnPoints
<1>10. CASE MarkReleasing
  BY <1>10, <1>g, <1>e DEF MarkReleasing, Requeue, InTurn, TurnPoints
<1>11. CASE CarrierAccepts
  BY <1>11, <1>g DEF CarrierAccepts, InTurn, TurnPoints
<1>12. CASE CarrierRefuses
  BY <1>12, <1>g DEF CarrierRefuses, InTurn, TurnPoints
<1>13. CASE NoteAndRequeue
  BY <1>13, <1>e DEF NoteAndRequeue, Requeue, InTurn, TurnPoints
<1>14. CASE MarkDelivered
  BY <1>14, <1>g, <1>e DEF MarkDelivered, InTurn, TurnPoints
<1>15. CASE Settle
  BY <1>15, <1>e DEF Settle, InTurn, TurnPoints
<1>16. CASE ReadConsent
  <2>1. /\ w.pc = "consent" /\ w'.pc = "route"
        /\ UNCHANGED <<w.tier, w.key, w.forced>>
        /\ w'.consent = ConsentGranted(w.key)
    BY <1>0, <1>16 DEF ReadConsent, TypeOK, Worker
  <2>2. w'.consent /\ ApprovalEnabled => seen'.consent
    <3>1. w.key \in Keys /\ InTurn(w'.pc)
      BY <1>0, <2>1 DEF TypeOK, Worker, InTurn, TurnPoints
    <3>2. Authorised(w.key) => Authorised(w.key)'
      BY <1>w, <2>1 DEF Authorised
    <3>3. Authorised(w.key)' => seen'.consent
      BY <1>0, <1>w, <3>1, SeenGrows
    <3>4. ConsentGranted(w.key) /\ ApprovalEnabled => Authorised(w.key)
      BY <1>0, <3>1, ConsentIsAuthorised
    <3> QED  BY <2>1, <3>2, <3>3, <3>4
  <2>3. InTurn(w.pc) /\ InTurn(w'.pc) /\ InPass(w.pc) /\ InPass(w'.pc)
    BY <2>1 DEF InTurn, InPass, TurnPoints
  <2>4. seen'.tier >= w'.tier
    BY <1>0, <1>i, <1>w, <2>1, <2>3, SeenGrows DEF SeenInv
  <2>5. w'.forced => seen'.masked
    BY <1>0, <1>w, <2>1, <2>3, SeenGrows DEF SeenInv
  <2>6. w'.tier >= Floor(w'.key)
    BY <1>0, <2>1, <2>3 DEF SeenInv, Floor
  <2> QED  BY <2>1, <2>2, <2>3, <2>4, <2>5, <2>6 DEF SeenInv
<1>17. CASE ReadLinks
  <2>1. /\ w.pc = "route" /\ w'.pc \in {"requested", "publish"}
        /\ UNCHANGED <<w.tier, w.key, w.consent>>
        /\ w'.forced => w.forced \/ Masked(env')
    BY <1>0, <1>17, <1>w DEF ReadLinks, TypeOK, Worker
  <2>2. InTurn(w.pc) /\ InTurn(w'.pc) /\ InPass(w.pc) /\ InPass(w'.pc)
    BY <2>1 DEF InTurn, InPass, TurnPoints
  <2>3. w'.forced => seen'.masked
    BY <1>0, <1>w, <2>1, <2>2, SeenGrows DEF SeenInv
  <2>4. seen'.tier >= w'.tier
    BY <1>0, <1>i, <1>w, <2>1, <2>2, SeenGrows DEF SeenInv
  <2>5. w'.consent /\ ApprovalEnabled => seen'.consent
    BY <1>0, <1>w, <2>1, <2>2, SeenGrows DEF SeenInv
  <2>6. w'.tier >= Floor(w'.key)
    BY <1>0, <2>1, <2>2 DEF SeenInv, Floor
  <2> QED  BY <2>1, <2>2, <2>3, <2>4, <2>5, <2>6 DEF SeenInv
<1>18. CASE ChooseRoute
  <2>1. /\ w.pc = "requested" /\ w'.pc \in {"failed", "direct", "deposit"}
        /\ UNCHANGED <<w.tier, w.key, w.consent, w.forced>>
        /\ w'.pc = "direct" => ~env'.anon
        /\ w'.pc = "deposit" =>
             w.forced \/ (~env'.anon /\ (w.consent \/ ~SecureDM))
    <3>0. env' = env
      BY <1>w
    <3>1. CASE env.anon /\ ~w.forced /\ GoTo("failed")
      BY <1>0, <1>18, <3>1, GoToKeepsLocals DEF ChooseRoute
    <3>2. CASE ~env.anon /\ GoTo("direct")
      BY <1>0, <1>18, <3>0, <3>2, GoToKeepsLocals DEF ChooseRoute
    <3>3. CASE w' = [w EXCEPT !.pc = "failed", !.fallback = TRUE]
      BY <1>0, <1>18, <3>3 DEF ChooseRoute, TypeOK, Worker
    <3>4. CASE /\ w.forced \/ (~env.anon /\ (w.consent \/ ~SecureDM))
               /\ GoTo("deposit")
      BY <1>0, <1>18, <3>0, <3>4, GoToKeepsLocals DEF ChooseRoute
    <3> QED  BY <1>18, <3>1, <3>2, <3>3, <3>4 DEF ChooseRoute
  <2>2. InTurn(w.pc) /\ InTurn(w'.pc) /\ InPass(w.pc) /\ InPass(w'.pc)
    BY <2>1 DEF InTurn, InPass, TurnPoints
  <2>3. /\ w'.forced => seen'.masked
        /\ w'.consent /\ ApprovalEnabled => seen'.consent
        /\ w'.pc = "direct" => seen'.plain
        /\ w'.pc = "deposit" => seen'.plain \/ seen'.masked
    BY <1>0, <1>w, <2>1, <2>2, SeenGrows DEF SeenInv
  <2>4. seen'.tier >= w'.tier
    BY <1>0, <1>i, <1>w, <2>1, <2>2, SeenGrows DEF SeenInv
  <2>5. w'.tier >= Floor(w'.key)
    BY <1>0, <2>1, <2>2 DEF SeenInv, Floor
  <2> QED  BY <2>1, <2>2, <2>3, <2>4, <2>5 DEF SeenInv
<1>19. CASE DirectFails
  <2>1. /\ w.pc = "direct" /\ w'.pc \in {"failed", "deposit"}
        /\ UNCHANGED <<w.tier, w.key, w.consent, w.forced>>
        /\ w'.pc = "deposit" => w.consent
    BY <1>0, <1>19 DEF DirectFails, TypeOK, Worker
  <2>2. InTurn(w.pc) /\ InTurn(w'.pc) /\ InPass(w.pc) /\ InPass(w'.pc)
    BY <2>1 DEF InTurn, InPass, TurnPoints
  <2>3. /\ w'.forced => seen'.masked
        /\ w'.consent /\ ApprovalEnabled => seen'.consent
        /\ seen'.plain
    BY <1>0, <1>w, <2>1, <2>2, SeenGrows DEF SeenInv
  <2>4. seen'.tier >= w'.tier
    BY <1>0, <1>i, <1>w, <2>1, <2>2, SeenGrows DEF SeenInv
  <2>5. w'.tier >= Floor(w'.key)
    BY <1>0, <2>1, <2>2 DEF SeenInv, Floor
  <2> QED  BY <2>1, <2>2, <2>3, <2>4, <2>5 DEF SeenInv
<1> QED
  BY <1>1, <1>2, <1>3, <1>4, <1>5, <1>6, <1>7, <1>8, <1>9, <1>10, <1>11, <1>12,
     <1>13, <1>14, <1>15, <1>16, <1>17, <1>18, <1>19 DEF WorkerStep

(* The inductive invariant of a turn and its witness holds throughout.     *)
LEMMA SeenAlways == Spec => []SeenInv
<1>1. Init => SeenInv
  BY DEF Init, SeenInv, NotRunning, InPass, InTurn, TurnPoints
<1>2. TypeOK /\ TypeOK' /\ DecisionInv /\ SeenInv /\ [Next]_vars => SeenInv'
  <2> SUFFICES ASSUME TypeOK, TypeOK', DecisionInv, SeenInv, [Next]_vars
               PROVE  SeenInv'
    OBVIOUS
  <2>1. CASE WorkerStep
    BY <2>1, WorkerSeen
  <2>2. CASE HandlerStep \/ Resume \/ RequestStep \/ EnvironmentStep
    <3>1. Witness
      BY <2>2 DEF HandlerStep, Resume, RequestStep, EnvironmentStep,
         GrantConnect, ApplyRelay, ApplyWait, Submit, CheckAction, RevokePolicy,
         Tick, TransportChanges, RotationExpires, Crash
    <3>2. w' = w \/ w' = NotRunning \/ w' = Started
      BY <2>2 DEF HandlerStep, Resume, RequestStep, EnvironmentStep,
         GrantConnect, ApplyRelay, ApplyWait, Submit, CheckAction, RevokePolicy,
         Tick, TransportChanges, RotationExpires, Crash, EnsureStarted
    <3> QED  BY <3>1, <3>2, SeenElsewhere
  <2>3. CASE UNCHANGED vars
    BY <2>3 DEF vars, SeenInv, Floor
  <2> QED  BY <2>1, <2>2, <2>3 DEF Next
<1> QED  BY <1>1, <1>2, TypeCorrect, DecisionAlways, PTL DEF Spec

(* Nothing is handed to a carrier in a pass during which the transport     *)
(* never met the floor of the lane (evaluate_network_release in run_once). *)
THEOREM PassMeetsFloor == Spec => PassMetFloor
<1>1. TypeOK /\ TypeOK' /\ SeenInv /\ [Next]_vars
        => [\A point \in {"direct", "deposit", "publish"} :
              LeavesFrom(point) => seen.tier >= Floor(w.key)]_vars
  <2> SUFFICES ASSUME TypeOK, SeenInv,
                      NEW point \in {"direct", "deposit", "publish"}, w.pc = point
               PROVE  seen.tier >= Floor(w.key)
    BY DEF LeavesFrom
  <2>1. InPass(w.pc) /\ InTurn(w.pc)
    BY DEF InPass, InTurn, TurnPoints
  <2>2. /\ seen.tier \in Int /\ w.tier \in Int /\ Floor(w.key) \in Int
        /\ seen.tier >= w.tier /\ w.tier >= Floor(w.key)
    BY <2>1 DEF SeenInv, TypeOK, Seen, Worker, Floor, Tiers, PublicDegraded,
       PrivateTransitional, PrivateStrong
  <2> QED  BY <2>2
<1> QED  BY <1>1, TypeCorrect, SeenAlways, PTL DEF Spec, PassMetFloor

(* A secure direct message goes to the relay only with consent that stood  *)
(* at some moment of its turn, or because anonymous mode forced it.        *)
THEOREM RelayIsConsented == Spec => RelayNeedsConsent
<1>1. SeenInv /\ [Next]_vars
        => [LeavesFrom("deposit") /\ ApprovalEnabled /\ SecureDM
              => seen.consent \/ seen.masked]_vars
  BY DEF SeenInv, LeavesFrom, InTurn, TurnPoints
<1> QED  BY <1>1, SeenAlways, PTL DEF Spec, RelayNeedsConsent

(* Anonymous mode is never undercut: no direct message leaves over RNS     *)
(* unless anonymous mode was off during its turn, nor by the relay unless  *)
(* it was off or its hidden transport was up.                              *)
THEOREM AnonymityKept == Spec => AnonymousStaysHidden
<1>1. SeenInv /\ [Next]_vars
        => [/\ LeavesFrom("direct") => seen.plain
            /\ LeavesFrom("deposit") => seen.plain \/ seen.masked]_vars
  BY DEF SeenInv, LeavesFrom
<1> QED  BY <1>1, SeenAlways, PTL DEF Spec, AnonymousStaysHidden
===============================================================================
