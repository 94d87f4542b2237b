---------------------------- MODULE PrivateRelease ----------------------------
(***************************************************************************)
(* The private delivery outbox of the mesh backend and everything that     *)
(* acts on it: the release worker thread, the dispatcher it calls, the     *)
(* request handlers (send, user decision, contact removal), the persisted  *)
(* relay policy, and crashes.                                              *)
(*                                                                         *)
(*   mesh_private_outbox.py          items, disk, session                  *)
(*   mesh_relay_policy.py            grants                                *)
(*   mesh_private_release_worker.py  w                                     *)
(*   mesh_private_dispatcher.py      w, from "route" to "acked" or "failed"*)
(*   main.py, routers/wormhole.py    handler                               *)
(*                                                                         *)
(* The worker is a thread of its own; the handlers run on the event loop   *)
(* and never await between their steps, so at most one of them is under    *)
(* way.  One step of the model is one critical section of the outbox or of *)
(* the policy store, or one read of the transport's condition; a read and  *)
(* the critical section after it are one step when they commute.           *)
(***************************************************************************)
EXTENDS Integers, FiniteSets

CONSTANTS
  Keys,            \* outbox items, one per (lane, release_key)
  DmKeys,          \* the items of lane "dm"; the others are of lane "gate"
  Recipients,      \* the peers direct messages are addressed to
  Recipient,       \* payload.recipient_id of an item
  ConnectKeys,     \* direct messages should_auto_release_dm_payload accepts
  RotatingKeys,    \* direct messages whose ciphertext carries an alias update
  ApprovalEnabled, \* MESH_PRIVATE_RELEASE_APPROVAL_ENABLE
  SecureDM,        \* MESH_DM_SECURE_MODE
  RnsEnabled,      \* rns_enabled of the wormhole state
  DevProfile,      \* current_release_profile() is "dev"
  Window,          \* _RELAY_APPROVAL_WINDOW_S, in ticks
  TTL,             \* MESH_PRIVATE_RELAY_POLICY_TTL_S, in ticks
  Environments,    \* the conditions of the transport that are considered
  MaxFaults,       \* bound: failed writes of the outbox file
  MaxCrashes       \* bound: crashes of the backend process

Lanes == {"dm", "gate"}
Lane(k) == IF k \in DmKeys THEN "dm" ELSE "gate"

(* TRANSPORT_TIER_ORDER. *)
PublicDegraded == 0
PrivateControlOnly == 1
PrivateTransitional == 2
PrivateStrong == 3
Tiers == PublicDegraded .. PrivateStrong

(***************************************************************************)
(* What the backend reads of its transports.  anon: the user asked for     *)
(* anonymous mode; hidden: a hidden transport (Tor, I2P, a mixnet) is      *)
(* running and ready; direct: RNS reports private_dm_direct_ready;         *)
(* attested: privacy_core_attestation() is "attested_current".             *)
(***************************************************************************)
Condition == [tier : Tiers, anon : BOOLEAN, hidden : BOOLEAN,
              direct : BOOLEAN, attested : BOOLEAN]

ASSUME KeysAssumption ==
  /\ Keys # {}
  /\ DmKeys \subseteq Keys
  /\ ConnectKeys \subseteq DmKeys
  /\ RotatingKeys \subseteq DmKeys
  /\ Recipient \in [Keys -> Recipients]

ASSUME SettingsAssumption ==
  /\ {ApprovalEnabled, SecureDM, RnsEnabled, DevProfile} \subseteq BOOLEAN
  /\ Window \in Nat /\ TTL \in Nat \ {0}
  /\ MaxFaults \in Nat /\ MaxCrashes \in Nat

ASSUME EnvironmentsAssumption ==
  /\ Environments \subseteq Condition
  /\ Environments # {}

VARIABLES
  items,     \* release_state of each item in memory, "none" before enqueue
  disk,      \* release_state of each item in the outbox file
  session,   \* _session_release_state: volatile approval state of each item
  grants,    \* relay policy file: ticks left of each dm_contact grant
  rotation,  \* _PENDING_ALIAS_COMMITS, and what became of each entry
  handler,   \* the request handler under way
  w,         \* the release worker's thread
  env,       \* the condition of the transports
  faults,    \* writes that failed so far
  crashes,   \* crashes so far
  sent,      \* history: dispatches of each item a carrier accepted
  lost,      \* history: acceptances the outbox never recorded
  choice,    \* history: the last decision applied to each item
  licensed,  \* history: recipients relay was authorised for and not revoked
  seen       \* history: what was true at some moment of the worker's turn

vars == <<items, disk, session, grants, rotation, handler, w, env, faults,
          crashes, sent, lost, choice, licensed, seen>>

outboxVars  == <<items, disk>>
userVars    == <<choice, licensed>>
boundVars   == <<faults, crashes>>
historyVars == <<sent, lost>>

ReleaseStates == {"none", "queued", "releasing", "delivered"}
RotationStates == {"none", "pending", "committed", "dropped"}

(***************************************************************************)
(* An entry of _session_release_state.  age is the time since              *)
(* first_failure_at, NotFailing when that is unset; beyond Window the code *)
(* no longer tells ages apart.  A missing entry reads as NoSession.        *)
(***************************************************************************)
NotFailing == -1
Session == [approved : BOOLEAN, wait : BOOLEAN, required : BOOLEAN,
            age : NotFailing .. Window]
NoSession == [approved |-> FALSE, wait |-> FALSE, required |-> FALSE,
              age |-> NotFailing]

AnyKey == CHOOSE k \in Keys : TRUE

HandlerOps == {"idle", "grant", "approve", "relay", "wait"}
IdleHandler == [op |-> "idle", key |-> AnyKey]

(* Program points of the worker inside the turn it gives to one item. *)
TurnPoints == {"hidden", "approval", "withdraw", "note", "attest", "consent",
               "route", "requested", "direct", "deposit", "publish", "failed",
               "acked", "settle"}
Points == {"dead", "idle", "snapshot", "next"} \cup TurnPoints

(***************************************************************************)
(* The worker: tier and todo are the locals of run_once read once per      *)
(* pass, the others the locals of one item's turn (consent:                *)
(* relay_consent_granted, forced: anonymous_hidden, direct: direct_ready,  *)
(* fallback: the result carries a fallback_reason).                        *)
(***************************************************************************)
Worker == [pc : Points, tier : Tiers, todo : SUBSET Keys, key : Keys,
           consent : BOOLEAN, forced : BOOLEAN, direct : BOOLEAN,
           fallback : BOOLEAN]
NotRunning == [pc |-> "dead", tier |-> PublicDegraded, todo |-> {},
               key |-> AnyKey, consent |-> FALSE, forced |-> FALSE,
               direct |-> FALSE, fallback |-> FALSE]
Started == [NotRunning EXCEPT !.pc = "idle"]
NextItem == [w EXCEPT !.pc = "next", !.key = AnyKey, !.consent = FALSE,
                      !.forced = FALSE, !.direct = FALSE, !.fallback = FALSE]
GoTo(p) == w' = [w EXCEPT !.pc = p]

Seen == [tier : Tiers, consent : BOOLEAN, masked : BOOLEAN, plain : BOOLEAN]
NothingSeen == [tier |-> PublicDegraded, consent |-> FALSE, masked |-> FALSE, plain |-> FALSE]

Init ==
  /\ items = [k \in Keys |-> "none"]
  /\ disk = [k \in Keys |-> "none"]
  /\ session = [k \in Keys |-> NoSession]
  /\ grants = [r \in Recipients |-> 0]
  /\ rotation = [k \in Keys |-> "none"]
  /\ handler = IdleHandler
  /\ w = NotRunning
  /\ env \in Environments
  /\ faults = 0
  /\ crashes = 0
  /\ sent = [k \in Keys |-> 0]
  /\ lost = [k \in Keys |-> 0]
  /\ choice = [k \in Keys |-> "none"]
  /\ licensed = {}
  /\ seen = NothingSeen

-------------------------------------------------------------------------------
(* The privacy policy.                                                     *)

(* release_lane_required_tier: a node without RNS never reaches strong. *)
Floor(k) == IF k \in DmKeys /\ ~RnsEnabled THEN PrivateTransitional
                                           ELSE PrivateStrong

(* The reason evaluate_network_release gives at a tier below the floor is  *)
(* one of _RELAY_APPROVAL_TRIGGER_REASONS; waiting for                     *)
(* private_transitional is not among them.                                 *)
TriggersApproval(k, tier) ==
  /\ k \in DmKeys
  /\ ApprovalEnabled
  /\ tier = PublicDegraded \/ Floor(k) = PrivateStrong

Masked(e) == e.anon /\ e.hidden  \* _anonymous_dm_hidden_transport_enforced

(* relay_policy_grants_dm: every grant of the program requires the hidden  *)
(* transport.                                                              *)
PolicyGranted(k) == k \in DmKeys /\ grants[Recipient[k]] > 0 /\ env.hidden

(* Mutant: only the policy file counts. *)
ConsentByPolicyOnly(k) == ~ApprovalEnabled \/ PolicyGranted(k)

(* _relay_consent_granted *)
ConsentGranted(k) ==
  \/ ~ApprovalEnabled
  \/ session[k].approved
  \/ PolicyGranted(k)

RuntimeReady == DevProfile \/ env.attested

-------------------------------------------------------------------------------
(* The outbox.                                                             *)

(* Mutant: the transition is not written. *)
SavedInMemoryOnly(k, state) ==
  /\ items' = [items EXCEPT ![k] = state]
  /\ UNCHANGED <<disk, faults, crashes>>

(* A transition of one item, saved: the whole list is written. *)
Saved(k, state) ==
  /\ items' = [items EXCEPT ![k] = state]
  /\ disk' = items'
  /\ UNCHANGED boundVars

(* _save raises: the atomic write left the old file, the transition is     *)
(* rolled back in memory.                                                  *)
SaveRaises ==
  /\ faults < MaxFaults
  /\ faults' = faults + 1
  /\ UNCHANGED <<items, disk, crashes>>

(* Mutants: the prompt comes at the first failure; the window restarts at  *)
(* every failure. *)
NotedAtOnce(s) ==
  [s EXCEPT !.age = IF @ = NotFailing THEN 0 ELSE @,
            !.required = ~s.approved /\ ~s.wait]
NotedFromLastFailure(s) ==
  [s EXCEPT !.age = 0, !.required = ~s.approved /\ ~s.wait /\ 0 >= Window]

(* note_release_revalidation_failure: the window runs from the first note. *)
Noted(s) ==
  LET age == IF s.age = NotFailing THEN 0 ELSE s.age
  IN  [s EXCEPT !.age = age,
                !.required = ~s.approved /\ ~s.wait /\ age >= Window]
NoteFailure(k) ==
  session' = IF ApprovalEnabled THEN [session EXCEPT ![k] = Noted(@)]
                                ELSE session

ClearSession(k) == session' = [session EXCEPT ![k] = NoSession]

(* Mutants: delivered items are handed out again; items left "releasing"   *)
(* by a dead worker are not. *)
PendingWithDelivered == {k \in Keys : items[k] # "none"}
PendingOnlyQueued == {k \in Keys : items[k] = "queued"}

Pending == {k \in Keys : items[k] \in {"queued", "releasing"}}

-------------------------------------------------------------------------------
(* History of a turn: what held at some moment since the pass (tier) or    *)
(* since the item's turn (the rest) began.  It constrains nothing.         *)

HigherOf(a, b) == IF a >= b THEN a ELSE b

(* The user chose relay for this item, or relay to its recipient was       *)
(* authorised and the hidden transport is up.                              *)
Authorised(k) ==
  \/ choice[k] = "relay"
  \/ k \in DmKeys /\ Recipient[k] \in licensed /\ env.hidden

InPass(p) == p \notin {"dead", "idle"}
InTurn(p) == p \in TurnPoints

Witness ==
  seen' =
    [tier |-> IF InPass(w'.pc)
              THEN HigherOf(IF InPass(w.pc) THEN seen.tier ELSE 0, env'.tier)
              ELSE PublicDegraded,
     consent |-> /\ InTurn(w'.pc)
                 /\ (InTurn(w.pc) /\ seen.consent) \/ Authorised(w.key)',
     masked |-> /\ InTurn(w'.pc)
                /\ (InTurn(w.pc) /\ seen.masked) \/ Masked(env'),
     plain |-> /\ InTurn(w'.pc)
               /\ (InTurn(w.pc) /\ seen.plain) \/ ~env'.anon]

-------------------------------------------------------------------------------
(* The release worker, one pass of run_once.                               *)

(* What no step of the worker touches; the history is kept along. *)
WorkerAlone == UNCHANGED <<grants, handler, env, userVars>> /\ Witness

StartPass ==
  /\ w.pc = "idle"
  /\ w' = [w EXCEPT !.pc = "snapshot", !.tier = env.tier]
  /\ WorkerAlone
  /\ UNCHANGED <<outboxVars, session, rotation, boundVars, historyVars>>

TakeSnapshot ==
  /\ w.pc = "snapshot"
  /\ w' = [w EXCEPT !.pc = "next", !.todo = Pending]
  /\ WorkerAlone
  /\ UNCHANGED <<outboxVars, session, rotation, boundVars, historyVars>>

EndPass ==
  /\ w.pc = "next"
  /\ w.todo = {}
  /\ w' = Started
  /\ WorkerAlone
  /\ UNCHANGED <<outboxVars, session, rotation, boundVars, historyVars>>

(* pending_items sorts by lane, so direct messages come before gate        *)
(* messages; within a lane the order of creation is left open.             *)
IsNext(k) ==
  /\ w.pc = "next"
  /\ k \in w.todo
  /\ k \in DmKeys \/ w.todo \cap DmKeys = {}

(* Mutant: the floor is not checked. *)
BeginTurnAnyTier(k) ==
  /\ IsNext(k)
  /\ w' = [w EXCEPT !.pc = IF k \in DmKeys THEN "hidden" ELSE "attest",
                    !.key = k, !.todo = @ \ {k}]
  /\ WorkerAlone
  /\ UNCHANGED <<outboxVars, session, rotation, boundVars, historyVars>>

BeginTurn(k) ==
  /\ IsNext(k)
  /\ w.tier >= Floor(k)
  /\ w' = [w EXCEPT !.pc = IF k \in DmKeys THEN "hidden" ELSE "attest",
                    !.key = k, !.todo = @ \ {k}]
  /\ WorkerAlone
  /\ UNCHANGED <<outboxVars, session, rotation, boundVars, historyVars>>

(* Below the floor the item is requeued; the failure is noted, or the      *)
(* approval state cleared.                                                 *)
BelowFloor(k) ==
  /\ IsNext(k)
  /\ w.tier < Floor(k)
  /\ \/ /\ Saved(k, "queued")
        /\ IF TriggersApproval(k, w.tier) THEN NoteFailure(k)
                                          ELSE ClearSession(k)
        /\ w' = [w EXCEPT !.todo = @ \ {k}]
     \/ /\ SaveRaises
        /\ w' = NotRunning
        /\ UNCHANGED session
  /\ WorkerAlone
  /\ UNCHANGED <<rotation, historyVars>>

(* mark_queued at the end of a turn; a failed write ends the thread. *)
Requeue ==
  \/ Saved(w.key, "queued") /\ w' = NextItem
  \/ SaveRaises /\ w' = NotRunning

AwaitHidden ==
  /\ w.pc = "hidden"
  /\ IF env.anon /\ ~Masked(env)
     THEN \/ Saved(w.key, "queued") /\ ClearSession(w.key) /\ w' = NextItem
          \/ SaveRaises /\ w' = NotRunning /\ UNCHANGED session
     ELSE GoTo("approval") /\ UNCHANGED <<outboxVars, session, boundVars>>
  /\ WorkerAlone
  /\ UNCHANGED <<rotation, historyVars>>

(* _dm_release_approval_pending reads the transports and the policy file   *)
(* before it takes the outbox lock.                                        *)
ReadRoutes ==
  /\ w.pc = "approval"
  /\ GoTo(IF \/ ~ApprovalEnabled
             \/ ~SecureDM
             \/ env.anon
             \/ env.direct
             \/ PolicyGranted(w.key)
          THEN "withdraw" ELSE "note")
  /\ WorkerAlone
  /\ UNCHANGED <<outboxVars, session, rotation, boundVars, historyVars>>

WithdrawApproval ==
  /\ w.pc = "withdraw"
  /\ ClearSession(w.key)
  /\ GoTo("attest")
  /\ WorkerAlone
  /\ UNCHANGED <<outboxVars, rotation, boundVars, historyVars>>

NoteNoRoute ==
  /\ w.pc = "note"
  /\ NoteFailure(w.key)
  /\ IF session[w.key].approved
     THEN GoTo("attest") /\ UNCHANGED <<outboxVars, boundVars>>
     ELSE Requeue
  /\ WorkerAlone
  /\ UNCHANGED <<rotation, historyVars>>

(* The attestation gate, then mark_releasing. *)
MarkReleasing ==
  /\ w.pc = "attest"
  /\ IF RuntimeReady
     THEN \/ Saved(w.key, "releasing") /\ GoTo("consent")
          \/ SaveRaises /\ w' = NotRunning
     ELSE Requeue
  /\ WorkerAlone
  /\ UNCHANGED <<session, rotation, historyVars>>

ReadConsent ==
  /\ w.pc = "consent"
  /\ w' = [w EXCEPT !.pc = "route", !.consent = ConsentGranted(w.key)]
  /\ WorkerAlone
  /\ UNCHANGED <<outboxVars, session, rotation, boundVars, historyVars>>

-------------------------------------------------------------------------------
(* The dispatcher, attempt_private_release.                                *)

(* _dispatch_dm samples anonymous mode and the direct link first. *)
ReadLinks ==
  /\ w.pc = "route"
  /\ w' = IF w.key \in DmKeys
          THEN [w EXCEPT !.pc = "requested", !.forced = Masked(env),
                         !.direct = env.direct]
          ELSE [w EXCEPT !.pc = "publish"]
  /\ WorkerAlone
  /\ UNCHANGED <<outboxVars, session, rotation, boundVars, historyVars>>

(* Mutant: anonymous mode is not asked for a second time. *)
ChooseRouteOnce ==
  /\ w.pc = "requested"
  /\ \/ ~w.forced /\ SecureDM /\ w.direct /\ GoTo("direct")
     \/ /\ ~w.forced /\ SecureDM /\ ~w.direct /\ ~w.consent
        /\ w' = [w EXCEPT !.pc = "failed", !.fallback = TRUE]
     \/ /\ w.forced \/ ~SecureDM \/ (~w.direct /\ w.consent)
        /\ GoTo("deposit")
  /\ WorkerAlone
  /\ UNCHANGED <<outboxVars, session, rotation, boundVars, historyVars>>

(* ... and then asks again whether anonymous mode is requested. *)
ChooseRoute ==
  /\ w.pc = "requested"
  /\ \/ /\ env.anon /\ ~w.forced
        /\ GoTo("failed")
     \/ /\ ~env.anon /\ ~w.forced
        /\ SecureDM /\ w.direct
        /\ GoTo("direct")
     \/ /\ ~env.anon /\ ~w.forced
        /\ SecureDM /\ ~w.direct /\ ~w.consent
        /\ w' = [w EXCEPT !.pc = "failed", !.fallback = TRUE]
     \/ /\ w.forced \/ (~env.anon /\ (~SecureDM \/ (~w.direct /\ w.consent)))
        /\ GoTo("deposit")
  /\ WorkerAlone
  /\ UNCHANGED <<outboxVars, session, rotation, boundVars, historyVars>>

(* Mutant: the alias rotation is committed when the message is sent. *)
CarrierAcceptsAndRotates ==
  /\ w.pc \in {"direct", "deposit", "publish"}
  /\ GoTo("acked")
  /\ sent' = [sent EXCEPT ![w.key] = @ + 1]
  /\ rotation' = [rotation EXCEPT ![w.key] = IF @ = "pending" THEN "committed"
                                                              ELSE @]
  /\ WorkerAlone
  /\ UNCHANGED <<outboxVars, session, boundVars, lost>>

(* A carrier took the item: result.ok. *)
CarrierAccepts ==
  /\ w.pc \in {"direct", "deposit", "publish"}
  /\ GoTo("acked")
  /\ sent' = [sent EXCEPT ![w.key] = @ + 1]
  /\ WorkerAlone
  /\ UNCHANGED <<outboxVars, session, rotation, boundVars, lost>>

(* The recipient blocks the sender, the relay refuses or only parks the    *)
(* message locally, or no gate publisher is reachable.                     *)
CarrierRefuses ==
  /\ w.pc \in {"direct", "deposit", "publish"}
  /\ GoTo("failed")
  /\ WorkerAlone
  /\ UNCHANGED <<outboxVars, session, rotation, boundVars, historyVars>>

(* Mutant: the fallback does not ask for consent. *)
DirectFailsOpen ==
  /\ w.pc = "direct"
  /\ GoTo("deposit")
  /\ WorkerAlone
  /\ UNCHANGED <<outboxVars, session, rotation, boundVars, historyVars>>

(* send_private_dm returns False: the relay is the fallback, with consent. *)
DirectFails ==
  /\ w.pc = "direct"
  /\ w' = IF w.consent THEN [w EXCEPT !.pc = "deposit"]
          ELSE [w EXCEPT !.pc = "failed", !.fallback = TRUE]
  /\ WorkerAlone
  /\ UNCHANGED <<outboxVars, session, rotation, boundVars, historyVars>>

-------------------------------------------------------------------------------
(* The worker, after the dispatcher returned.                              *)

NoteAndRequeue ==
  /\ w.pc = "failed"
  /\ IF w.fallback /\ ApprovalEnabled THEN NoteFailure(w.key)
                                      ELSE UNCHANGED session
  /\ Requeue
  /\ WorkerAlone
  /\ UNCHANGED <<rotation, historyVars>>

(* mark_delivered drops the approval state only once the file is written. *)
MarkDelivered ==
  /\ w.pc = "acked"
  /\ \/ /\ Saved(w.key, "delivered")
        /\ ClearSession(w.key)
        /\ GoTo("settle")
        /\ UNCHANGED lost
     \/ /\ SaveRaises
        /\ lost' = [lost EXCEPT ![w.key] = @ + 1]
        /\ w' = NotRunning
        /\ UNCHANGED session
  /\ WorkerAlone
  /\ UNCHANGED <<rotation, sent>>

(* _commit_dm_alias_rotation_if_present, then the last clear. *)
Settle ==
  /\ w.pc = "settle"
  /\ rotation' = IF rotation[w.key] = "pending"
                 THEN [rotation EXCEPT ![w.key] = "committed"]
                 ELSE rotation
  /\ ClearSession(w.key)
  /\ w' = NextItem
  /\ WorkerAlone
  /\ UNCHANGED <<outboxVars, boundVars, historyVars>>

WorkerStep ==
  \/ StartPass \/ TakeSnapshot \/ EndPass
  \/ \E k \in Keys : BeginTurn(k) \/ BelowFloor(k)
  \/ AwaitHidden \/ ReadRoutes \/ WithdrawApproval \/ NoteNoRoute
  \/ MarkReleasing \/ ReadConsent
  \/ ReadLinks \/ ChooseRoute
  \/ CarrierAccepts \/ CarrierRefuses \/ DirectFails
  \/ NoteAndRequeue \/ MarkDelivered \/ Settle

-------------------------------------------------------------------------------
(* The request handlers.                                                   *)

EnsureStarted == w' = IF w.pc = "dead" THEN Started ELSE w

(* _queue_dm_release and _queue_gate_release: enqueue, then start the      *)
(* worker.  An item that is still pending keeps its state but is saved     *)
(* again; a delivered one is left alone.  When the write of a new item     *)
(* raises, the item is dropped and the request fails.                      *)
Submit(k) ==
  /\ handler.op = "idle"
  /\ \/ /\ CASE items[k] = "none"      -> Saved(k, "queued")
             [] items[k] = "delivered" -> UNCHANGED <<outboxVars, boundVars>>
             [] OTHER                  -> Saved(k, items[k])
        /\ EnsureStarted
        /\ handler' = IF k \in ConnectKeys THEN [op |-> "grant", key |-> k]
                                           ELSE handler
        /\ rotation' = IF k \in RotatingKeys /\ items[k] = "none"
                       THEN [rotation EXCEPT ![k] = "pending"]
                       ELSE rotation
     \/ /\ items[k] # "delivered"
        /\ SaveRaises
        /\ UNCHANGED <<w, handler, rotation>>
  /\ UNCHANGED <<session, grants, env, historyVars, userVars>>
  /\ Witness

(* grant_relay_policy; a write that fails is swallowed by the callers. *)
GrantPolicy(k) ==
  /\ \/ grants' = [grants EXCEPT ![Recipient[k]] = TTL]
     \/ grants' = grants
  /\ licensed' = licensed \cup {Recipient[k]}

(* auto_release_connect_dm_outbox grants the policy before it approves. *)
GrantConnect ==
  /\ handler.op = "grant"
  /\ GrantPolicy(handler.key)
  /\ handler' = [handler EXCEPT !.op = "approve"]
  /\ UNCHANGED <<outboxVars, session, rotation, w, env, boundVars,
                 historyVars, choice>>
  /\ Witness

(* approve_relay_release, from the connect path ("approve", which also     *)
(* restarts the worker) or from the user's action ("relay", which only     *)
(* wakes it).                                                              *)
ApplyRelay ==
  /\ handler.op \in {"approve", "relay"}
  /\ session' = [session EXCEPT ![handler.key] =
       [@ EXCEPT !.approved = TRUE, !.wait = FALSE, !.required = FALSE]]
  /\ choice' = [choice EXCEPT ![handler.key] = "relay"]
  /\ IF handler.key \in DmKeys THEN GrantPolicy(handler.key)
                               ELSE UNCHANGED <<grants, licensed>>
  /\ IF handler.op = "approve" THEN EnsureStarted ELSE UNCHANGED w
  /\ handler' = IdleHandler
  /\ UNCHANGED <<outboxVars, rotation, env, boundVars, historyVars>>
  /\ Witness

(* api_wormhole_private_delivery_action looks the item up first: a         *)
(* delivered one is refused.                                               *)
CheckAction(k, action) ==
  /\ handler.op = "idle"
  /\ items[k] \notin {"none", "delivered"}
  /\ handler' = [op |-> action, key |-> k]
  /\ UNCHANGED <<outboxVars, session, grants, rotation, w, env, boundVars,
                 historyVars, userVars>>
  /\ Witness

(* Mutant: the approval survives the decision to wait. *)
ApplyWaitKeepsApproval ==
  /\ handler.op = "wait"
  /\ session' = [session EXCEPT ![handler.key] =
       [@ EXCEPT !.wait = TRUE, !.required = FALSE]]
  /\ choice' = [choice EXCEPT ![handler.key] = "wait"]
  /\ handler' = IdleHandler
  /\ UNCHANGED <<outboxVars, grants, rotation, w, env, boundVars,
                 historyVars, licensed>>
  /\ Witness

(* continue_waiting_for_release leaves the policy file as it is. *)
ApplyWait ==
  /\ handler.op = "wait"
  /\ session' = [session EXCEPT ![handler.key] =
       [@ EXCEPT !.approved = FALSE, !.wait = TRUE, !.required = FALSE]]
  /\ choice' = [choice EXCEPT ![handler.key] = "wait"]
  /\ handler' = IdleHandler
  /\ UNCHANGED <<outboxVars, grants, rotation, w, env, boundVars,
                 historyVars, licensed>>
  /\ Witness

(* revoke_connect_relay_policy, when a contact is removed. *)
RevokePolicy(r) ==
  /\ handler.op = "idle"
  /\ grants' = [grants EXCEPT ![r] = 0]
  /\ licensed' = licensed \ {r}
  /\ UNCHANGED <<outboxVars, session, rotation, handler, w, env, boundVars,
                 historyVars, choice>>
  /\ Witness

(* _resume_private_delivery_background_work, at startup and on every poll  *)
(* of the wormhole's status.                                               *)
Resume ==
  /\ Pending # {}
  /\ EnsureStarted
  /\ UNCHANGED <<outboxVars, session, grants, rotation, handler, env,
                 boundVars, historyVars, userVars>>
  /\ Witness

HandlerStep == GrantConnect \/ ApplyRelay \/ ApplyWait

RequestStep ==
  \/ \E k \in Keys : Submit(k)
  \/ \E k \in Keys, action \in {"relay", "wait"} : CheckAction(k, action)
  \/ \E r \in Recipients : RevokePolicy(r)

(* Mutant: an expired grant is not dropped. *)
TickPastExpiry ==
  /\ grants' = [r \in Recipients |-> grants[r] - 1]
  /\ UNCHANGED <<outboxVars, session, rotation, handler, w, env, boundVars,
                 historyVars, userVars>>
  /\ Witness

-------------------------------------------------------------------------------
(* Time, the transports and crashes.                                       *)

Tick ==
  /\ session' = [k \in Keys |->
       IF session[k].age \in 0 .. Window - 1
       THEN [session[k] EXCEPT !.age = @ + 1] ELSE session[k]]
  /\ grants' = [r \in Recipients |->
       IF grants[r] > 0 THEN grants[r] - 1 ELSE 0]
  /\ UNCHANGED <<outboxVars, rotation, handler, w, env, boundVars,
                 historyVars, userVars>>
  /\ Witness

TransportChanges ==
  /\ env' \in Environments
  /\ UNCHANGED <<outboxVars, session, grants, rotation, handler, w,
                 boundVars, historyVars, userVars>>
  /\ Witness

(* PAIRWISE_ALIAS_PENDING_COMMIT_TTL_MS ran out. *)
RotationExpires(k) ==
  /\ rotation[k] = "pending"
  /\ rotation' = [rotation EXCEPT ![k] = "dropped"]
  /\ UNCHANGED <<outboxVars, session, grants, handler, w, env, boundVars,
                 historyVars, userVars>>
  /\ Witness

(* Mutant: whatever the file holds is queued again. *)
NormalizedToQueued(state) == IF state = "none" THEN "none" ELSE "queued"

(* Mutant: the restart does not load the file. *)
CrashForgets ==
  /\ crashes < MaxCrashes
  /\ crashes' = crashes + 1
  /\ items' = [k \in Keys |-> "none"]
  /\ session' = [k \in Keys |-> NoSession]
  /\ rotation' = [k \in Keys |-> "dropped"]
  /\ handler' = IdleHandler
  /\ w' = NotRunning
  /\ lost' = IF w.pc = "acked" THEN [lost EXCEPT ![w.key] = @ + 1] ELSE lost
  /\ UNCHANGED <<disk, grants, env, faults, sent, userVars>>
  /\ Witness

(* _load at the next start: what was being released is queued again; the   *)
(* file is not rewritten.                                                  *)
Normalized(state) == IF state = "releasing" THEN "queued" ELSE state

Crash ==
  /\ crashes < MaxCrashes
  /\ crashes' = crashes + 1
  /\ items' = [k \in Keys |-> Normalized(disk[k])]
  /\ session' = [k \in Keys |-> NoSession]
  /\ rotation' = [k \in Keys |->
       IF rotation[k] = "pending" THEN "dropped" ELSE rotation[k]]
  /\ handler' = IdleHandler
  /\ w' = NotRunning
  /\ lost' = IF w.pc = "acked" THEN [lost EXCEPT ![w.key] = @ + 1] ELSE lost
  /\ UNCHANGED <<disk, grants, env, faults, sent, userVars>>
  /\ Witness

EnvironmentStep ==
  \/ Tick
  \/ TransportChanges
  \/ \E k \in Keys : RotationExpires(k)
  \/ Crash

-------------------------------------------------------------------------------
Next == WorkerStep \/ HandlerStep \/ Resume \/ RequestStep \/ EnvironmentStep

(***************************************************************************)
(* The thread and the handlers keep running, the wormhole status is        *)
(* polled, time passes, and a carrier that is tried again and again takes  *)
(* the item in the end.  Nothing makes users act or transports change.     *)
(***************************************************************************)
Fairness ==
  /\ WF_vars(WorkerStep)
  /\ WF_vars(HandlerStep)
  /\ WF_vars(Resume)
  /\ WF_vars(Tick)
  /\ \A k \in Keys : SF_vars(CarrierAccepts /\ w.key = k)

Spec == Init /\ [][Next]_vars
LiveSpec == Spec /\ Fairness
-------------------------------------------------------------------------------
(* Properties.                                                             *)

(* Every variable holds values of its kind; in particular the worker only  *)
(* works on items, and the turn's locals are reset between items           *)
(* (mesh_private_release_worker.run_once, mesh_private_outbox.PrivateOutbox).*)
TypeOK ==
  /\ items \in [Keys -> ReleaseStates]
  /\ disk \in [Keys -> ReleaseStates]
  /\ session \in [Keys -> Session]
  /\ grants \in [Recipients -> 0 .. TTL]
  /\ rotation \in [Keys -> RotationStates]
  /\ handler \in [op : HandlerOps, key : Keys]
  /\ w \in Worker
  /\ env \in Environments
  /\ faults \in 0 .. MaxFaults
  /\ crashes \in 0 .. MaxCrashes
  /\ sent \in [Keys -> Nat]
  /\ lost \in [Keys -> Nat]
  /\ choice \in [Keys -> {"none", "relay", "wait"}]
  /\ licensed \subseteq Recipients
  /\ seen \in Seen

(* What PrivateOutbox acknowledged is in its file and what it forgot is    *)
(* not, whatever writes failed and whenever the process died: a caller     *)
(* that saw an item queued or delivered finds it so after a restart        *)
(* (the roll-backs of enqueue and mark_*, and _load).                      *)
DurableOutbox ==
  \A k \in Keys :
    /\ items[k] = "none" <=> disk[k] = "none"
    /\ items[k] = "delivered" <=> disk[k] = "delivered"

(* Each acceptance by a carrier is recorded as the delivery of its item,   *)
(* is about to be, or was lost to a failed write or a crash at that very   *)
(* point: no other path sends an item twice, and no item is reported       *)
(* delivered that no carrier took (run_once, mark_delivered, enqueue of a  *)
(* known release_key).                                                     *)
AcceptancesAccounted ==
  \A k \in Keys :
    sent[k] = lost[k] + (IF \/ items[k] = "delivered"
                            \/ w.pc = "acked" /\ w.key = k
                         THEN 1 ELSE 0)

(* A delivered item stays delivered: mark_queued and mark_releasing do not *)
(* look at the state they overwrite, so this rests on the snapshot the     *)
(* pass works from and on what a restart loads.                            *)
DeliveredIsFinal ==
  [][\A k \in Keys : items[k] = "delivered" => items'[k] = "delivered"]_vars

(* The approval state agrees with the last decision applied to the item:   *)
(* approved only after "relay", waiting only after "wait", through clears, *)
(* notes and crashes (approve_relay_release, continue_waiting_for_release).*)
StandingDecision ==
  \A k \in Keys :
    /\ session[k].approved => choice[k] = "relay"
    /\ session[k].wait => choice[k] = "wait"

(* The user is asked to approve a relay only for an item still pending,    *)
(* after a whole window without a private route, and not against a         *)
(* decision that still stands (note_release_revalidation_failure).         *)
PromptIsEarned ==
  \A k \in Keys : session[k].required =>
    /\ items[k] \in {"queued", "releasing"}
    /\ session[k].age = Window
    /\ ~session[k].approved
    /\ ~session[k].wait

(* An alias rotation is committed only once the message that announces it  *)
(* is recorded delivered (_commit_dm_alias_rotation_if_present).           *)
RotationAfterRelease ==
  \A k \in Keys : rotation[k] = "committed" => items[k] = "delivered"

(* The worker hands an item to the relay, to RNS or to a gate publisher. *)
LeavesFrom(point) == w.pc = point /\ w'.pc \in {"acked", "failed"}

(* With approvals on, a secure direct message goes to the relay only if    *)
(* during its turn the user's decision or an unrevoked authorisation of    *)
(* its recipient stood, or anonymous mode forced the hidden relay          *)
(* (_relay_consent_granted and _dispatch_dm).                              *)
RelayNeedsConsent ==
  [][LeavesFrom("deposit") /\ ApprovalEnabled /\ SecureDM
       => seen.consent \/ seen.masked]_vars

(* Anonymous mode is never undercut: a direct message leaves over RNS only *)
(* if anonymous mode was off at some moment of its turn, and by the relay  *)
(* only if it was off or its hidden transport was up (_dispatch_dm).       *)
AnonymousStaysHidden ==
  [][/\ LeavesFrom("direct") => seen.plain
     /\ LeavesFrom("deposit") => seen.plain \/ seen.masked]_vars

(* Nothing leaves unless the transport reached the lane's floor at some    *)
(* moment of the pass (evaluate_network_release in run_once).              *)
PassMetFloor ==
  [][\A point \in {"direct", "deposit", "publish"} :
       LeavesFrom(point) => seen.tier >= Floor(w.key)]_vars

(* Once the transports stay good, every queued item is delivered, whatever *)
(* failed writes and crashes came before: no item is stuck behind another, *)
(* in a dead worker or in a lost approval (run_once, ensure_started,       *)
(* _resume_private_delivery_background_work).                              *)
Good ==
  /\ env.tier = PrivateStrong /\ env.direct /\ ~env.anon /\ RuntimeReady
QueuedIsDelivered ==
  \A k \in Keys : <>[]Good => (items[k] = "queued" ~> items[k] = "delivered")

(* With a private lane but no direct link, an approved message is relayed  *)
(* unless the approval goes away (run_once, _relay_consent_granted).       *)
RelayOnly ==
  /\ env.tier = PrivateStrong /\ ~env.direct /\ ~env.anon /\ RuntimeReady
ApprovedIsRelayed ==
  \A k \in DmKeys :
    <>[]RelayOnly => (session[k].approved /\ items[k] # "delivered" ~>
                        items[k] = "delivered" \/ ~session[k].approved)

(* A direct message with no private route left does not wait in silence:   *)
(* the user is asked, unless they decided before or it left all the same   *)
(* (the approval window of note_release_revalidation_failure).             *)
Stuck == RelayOnly /\ ~env.hidden
PromptAppears ==
  \A k \in DmKeys :
    <>[]Stuck => (items[k] = "queued" ~>
                    \/ session[k].required
                    \/ items[k] = "delivered"
                    \/ choice[k] # "none")

-------------------------------------------------------------------------------
(* The outbox, its worker and its crashes keep the promise of              *)
(* ReleasePromise: the release states of the items and the one item the    *)
(* worker holds between a carrier's acceptance and mark_delivered.         *)
Promise == INSTANCE ReleasePromise WITH
  Messages  <- Keys,
  accepted  <- {k \in Keys : items[k] # "none"},
  carried   <- {k \in Keys : w.pc = "acked" /\ w.key = k},
  confirmed <- {k \in Keys : items[k] = "delivered"}

(* Every behaviour of the outbox is one the promise allows.                *)
KeepsPromise == Promise!PromiseSpec
===============================================================================
