-------------------------------- MODULE DMRelay --------------------------------
(***************************************************************************)
(* The store-and-forward relay for direct messages (mesh_dm_relay.py) on   *)
(* several nodes, for the mailboxes of one recipient: deposits at the      *)
(* senders' nodes, their replication to other nodes, and the recipient's   *)
(* polls, counts and blocks.                                               *)
(*                                                                         *)
(* An entry point of DMRelay holds the instance's lock from start to end,  *)
(* so it is one step; accept_replica, which takes it twice, is two.  The   *)
(* replication push runs outside the lock, in the depositing thread        *)
(* (scoped) or a thread of its own.  Time is relative: Tick makes          *)
(* everything older and drops what expired, which _cleanup_expired does at *)
(* the start of each entry point that looks.                               *)
(***************************************************************************)
EXTENDS Integers, FiniteSets, Sequences

CONSTANTS
  Nodes,         \* backends running a relay
  Home,          \* the recipient's own node
  PollNodes,     \* the nodes the recipient logs into
  Senders,
  Msgs,
  Sender,        \* the sender of each message
  Origin,        \* the node each message is deposited at
  SharedMsgs,    \* messages of class "shared"; the others are "request"
  Scoped,        \* messages sent with replication_peer_urls, which name Home
  Fleet,         \* authenticated_push_peer_urls of each node, in order
  Pepper,        \* MESH_DM_TOKEN_PEPPER of each node
  TTL,           \* TTL_SECONDS, in ticks
  EpochTicks,    \* EPOCH_SECONDS, in ticks
  IdleTicks,     \* _mailbox_binding_idle_ttl_seconds, in ticks
  RequestLimit,  \* MESH_DM_REQUEST_MAILBOX_LIMIT
  SharedLimit,   \* MESH_DM_SHARED_MAILBOX_LIMIT
  SenderLimit,   \* MESH_DM_PENDING_PER_SENDER_LIMIT
  BatchLimit,    \* DM_POLL_BATCH_LIMIT
  MaxLosses,     \* bound: requests or answers of pushes lost
  MaxCrashes     \* bound: crashes of nodes

(* No node is its own peer, a push goes to each peer once, and a scoped    *)
(* message comes from another node than the recipient's.                   *)
ASSUME NetworkAssumption ==
  /\ Home \in PollNodes
  /\ PollNodes \subseteq Nodes
  /\ Sender \in [Msgs -> Senders]
  /\ Origin \in [Msgs -> Nodes]
  /\ SharedMsgs \subseteq Msgs
  /\ Scoped \subseteq Msgs
  /\ Fleet \in [Nodes -> Seq(Nodes)]
  /\ \A n \in Nodes : \A i \in 1 .. Len(Fleet[n]) : Fleet[n][i] # n
  /\ \A n \in Nodes : \A i, j \in 1 .. Len(Fleet[n]) :
       Fleet[n][i] = Fleet[n][j] => i = j
  /\ \A m \in Scoped : Origin[m] # Home

(* The code's values: an hour, six hours, twelve hours. *)
ASSUME TimesAssumption ==
  /\ {TTL, EpochTicks, IdleTicks} \subseteq Nat \ {0}
  /\ TTL <= EpochTicks

ASSUME LimitsAssumption ==
  /\ {RequestLimit, SharedLimit, SenderLimit, BatchLimit} \subseteq Nat \ {0}
  /\ MaxLosses \in Nat /\ MaxCrashes \in Nat

VARIABLES
  box,      \* _mailboxes of each node, the recipient's slots
  bound,    \* _mailbox_bindings of each node: the recipient's request token
  blocks,   \* _blocks of each node: senders the recipient blocked there
  saved,    \* _blocks in each node's relay file
  claim,    \* the poll or count request under way on each node
  push,     \* the replication of each message under way
  outcome,  \* what the sender's outbox knows of each message
  tick,     \* ticks since the epoch began
  losses,   \* lost requests and answers so far
  crashes,  \* crashes so far
  handed,   \* history: messages each node gave the recipient
  again,    \* history: messages some node gave the recipient twice
  gone      \* history: messages that left Home's mailboxes unread

vars == <<box, bound, blocks, saved, claim, push, outcome, tick, losses,
          crashes, handed, again, gone>>

relayVars   == <<box, bound, blocks, saved>>
pushVars    == <<push, outcome>>
boundVars   == <<losses, crashes>>
historyVars == <<handed, again, gone>>

(***************************************************************************)
(* A slot is a key of _mailboxes.  A request lies under the key of its     *)
(* epoch or, once the recipient has polled the node, under the hash of     *)
(* the claim token of that time; the recipient's client derives a new      *)
(* token for each epoch.  age counts the epochs since the key was current. *)
(***************************************************************************)
Slots == [kind : {"epoch", "token", "shared"}, age : Nat]
EpochSlot(age) == [kind |-> "epoch", age |-> age]
TokenSlot(age) == [kind |-> "token", age |-> age]
SharedSlot == [kind |-> "shared", age |-> 0]
NoSlot == [kind |-> "none", age |-> 0]

(* A stored DMMessage; left is the time until timestamp + TTL. *)
Entries == [msg : Msgs, slot : Slots, left : 1 .. TTL]

NoBinding == [age |-> 0, idle |-> IdleTicks]
IsBound(n) == bound[n].idle < IdleTicks

(* _sender_block_ref, and with it sender_block_ref of a message: a hash    *)
(* with the pepper of the node that computed it.                           *)
Ref(n, s) == <<Pepper[n], s>>
MsgRef(m) == Ref(Origin[m], Sender[m])

(* The thread of one push: the peers to come, the attempts left for the    *)
(* first of them, the mailbox that peer's accept_replica found, the time   *)
(* the envelope has left and whether some peer took it.                    *)
NoPush == [todo |-> <<>>, tries |-> 0, slot |-> NoSlot, left |-> 0,
           pushed |-> FALSE]
Pushing(m) == push[m].todo # <<>>
Peer(m) == Head(push[m].todo)
Handled(m) == push[m].slot # NoSlot
Peers(m) == IF m \in Scoped THEN <<Home>> ELSE Fleet[Origin[m]]
Attempts(m) == IF m \in Scoped THEN 3 ELSE 2

Outcomes == {"unsent", "pushing", "failed", "delivered"}

Init ==
  /\ box = [n \in Nodes |-> {}]
  /\ bound = [n \in Nodes |-> NoBinding]
  /\ blocks = [n \in Nodes |-> {}]
  /\ saved = [n \in Nodes |-> {}]
  /\ claim = [n \in PollNodes |-> "idle"]
  /\ push = [m \in Msgs |-> NoPush]
  /\ outcome = [m \in Msgs |-> "unsent"]
  /\ tick = 0
  /\ losses = 0
  /\ crashes = 0
  /\ handed = [n \in PollNodes |-> {}]
  /\ again = {}
  /\ gone = {}

-------------------------------------------------------------------------------
(* The mailboxes of one node.                                              *)

In(n, slot) == {e \in box[n] : e.slot = slot}
Holds(n, slot, m) == \E e \in In(n, slot) : e.msg = m

(* _per_sender_pending_count *)
FromSender(n, slot, m) == {e \in In(n, slot) : MsgRef(e.msg) = MsgRef(m)}

ClassLimit(m) == IF m \in SharedMsgs THEN SharedLimit ELSE RequestLimit

(* Mutant: the cap of a sender is checked one too late. *)
RoomForOneMore(n, slot, m) ==
  /\ Cardinality(In(n, slot)) < ClassLimit(m)
  /\ Cardinality(FromSender(n, slot, m)) <= SenderLimit

(* The two caps, which deposit and accept_replica both apply. *)
RoomFor(n, slot, m) ==
  /\ Cardinality(In(n, slot)) < ClassLimit(m)
  /\ Cardinality(FromSender(n, slot, m)) < SenderLimit

(* deposit always files a request under the epoch's key; accept_replica    *)
(* asks mailbox_key_for_delivery, which prefers the bound token.           *)
DepositSlot(m) == IF m \in SharedMsgs THEN SharedSlot ELSE EpochSlot(0)
ReplicaSlot(n, m) ==
  IF m \notin SharedMsgs /\ IsBound(n) THEN TokenSlot(bound[n].age)
                                       ELSE DepositSlot(m)

(* _mailbox_keys_for_claim, for a request claim and a shared claim.  The   *)
(* binding was renewed by claim_mailbox_keys a moment before, so the       *)
(* previous token and the request's are the same.                          *)
ClaimedSlots(n) ==
  {TokenSlot(bound[n].age), EpochSlot(0), EpochSlot(1), SharedSlot}

(* Mutant: a block purges the current mailboxes only. *)
PurgedSlotsNow(n) ==
  {EpochSlot(0)} \cup (IF IsBound(n) THEN {TokenSlot(bound[n].age)} ELSE {})

(* The request mailboxes block() purges. *)
PurgedSlots(n) ==
  {EpochSlot(0), EpochSlot(1)}
    \cup (IF IsBound(n) THEN {TokenSlot(bound[n].age)} ELSE {})

(* What leaves a mailbox of Home other than by a poll. *)
Vanish(n, M) == gone' = IF n = Home THEN gone \cup M ELSE gone

-------------------------------------------------------------------------------
(* Deposit, by the sender's release worker or request handler.             *)

Accepts(m) ==
  LET n == Origin[m]
  IN  /\ Sender[m] \notin blocks[n]
      /\ RoomFor(n, DepositSlot(m), m)

(* The outbox sends a message until it is delivered, always under the same *)
(* msg_id.                                                                 *)
Sendable(m) == outcome[m] \in {"unsent", "failed"}

(* The envelope is read back under the lock and carries the timestamp of   *)
(* the entry that is there, the first deposit's if this one is a retry.    *)
Deposit(m) ==
  LET n    == Origin[m]
      slot == DepositSlot(m)
      new  == [msg |-> m, slot |-> slot, left |-> TTL]
      left == IF Holds(n, slot, m)
              THEN (CHOOSE e \in In(n, slot) : e.msg = m).left ELSE TTL
  IN  /\ Sendable(m)
      /\ Accepts(m)
      /\ box' = IF Holds(n, slot, m) THEN box
                ELSE [box EXCEPT ![n] = @ \cup {new}]
      /\ push' = [push EXCEPT ![m] =
           IF Peers(m) = <<>> THEN NoPush
           ELSE [todo |-> Peers(m), tries |-> Attempts(m), slot |-> NoSlot,
                 left |-> left, pushed |-> FALSE]]
      /\ outcome' = [outcome EXCEPT ![m] =
           IF m \in Scoped THEN "pushing" ELSE "delivered"]
      /\ UNCHANGED <<bound, blocks, saved, claim, tick, boundVars, historyVars>>

DepositRefused(m) ==
  /\ Sendable(m)
  /\ ~Accepts(m)
  /\ outcome' = [outcome EXCEPT ![m] = "failed"]
  /\ UNCHANGED <<relayVars, claim, push, tick, boundVars, historyVars>>

-------------------------------------------------------------------------------
(* _replicate_envelope_to_peers and the accept_replica it reaches.         *)

(* On to the next peer. *)
AfterPeer(m, ok) ==
  LET p == push[m]
  IN  IF Len(p.todo) = 1 THEN NoPush
      ELSE [todo |-> Tail(p.todo), tries |-> Attempts(m), slot |-> NoSlot,
            left |-> p.left, pushed |-> p.pushed \/ ok]

(* Mutant: a scoped push that reached nobody is not reported. *)
OutcomeIfReached(m, ok) ==
  IF m \in Scoped /\ Len(push[m].todo) = 1 /\ (push[m].pushed \/ ok)
  THEN "delivered" ELSE outcome[m]

(* At the end of a scoped push the dispatcher learns whether any peer took *)
(* the envelope.                                                           *)
OutcomeAfterPeer(m, ok) ==
  IF m \in Scoped /\ Len(push[m].todo) = 1
  THEN IF push[m].pushed \/ ok THEN "delivered" ELSE "failed"
  ELSE outcome[m]

(* An attempt without an answer is repeated while there are any left. *)
AfterFailure(m) ==
  IF push[m].tries > 1 THEN [push[m] EXCEPT !.tries = @ - 1, !.slot = NoSlot]
                       ELSE AfterPeer(m, FALSE)
OutcomeAfterFailure(m) ==
  IF push[m].tries > 1 THEN outcome[m] ELSE OutcomeAfterPeer(m, FALSE)

Answered(m, ok) ==
  /\ push' = [push EXCEPT ![m] = AfterPeer(m, ok)]
  /\ outcome' = [outcome EXCEPT ![m] = OutcomeAfterPeer(m, ok)]
  /\ UNCHANGED boundVars

(* The request or its answer did not get through. *)
Exception(m) ==
  /\ losses < MaxLosses
  /\ losses' = losses + 1
  /\ push' = [push EXCEPT ![m] = AfterFailure(m)]
  /\ outcome' = [outcome EXCEPT ![m] = OutcomeAfterFailure(m)]
  /\ UNCHANGED crashes

(* accept_replica, up to mailbox_key_for_delivery. *)
FindSlot(m) ==
  /\ Pushing(m)
  /\ ~Handled(m)
  /\ push' = [push EXCEPT ![m].slot = ReplicaSlot(Peer(m), m)]
  /\ UNCHANGED <<relayVars, claim, outcome, tick, boundVars, historyVars>>

(* The rest of it: a message already in that mailbox is accepted again in  *)
(* silence; an envelope that expired on its way is taken, and dropped when *)
(* next somebody looks.                                                    *)
Duplicate(m) == Holds(Peer(m), push[m].slot, m)
Takes(m) == Duplicate(m) \/ RoomFor(Peer(m), push[m].slot, m)
AcceptReplica(m) ==
  LET left == push[m].left
      new  == [msg |-> m, slot |-> push[m].slot, left |-> left]
  IN  /\ box' = IF Duplicate(m) \/ ~Takes(m) \/ left = 0 THEN box
                ELSE [box EXCEPT ![Peer(m)] = @ \cup {new}]
      /\ Vanish(Peer(m), IF left = 0 THEN {m} ELSE {})

PushArrives(m) ==
  /\ Pushing(m)
  /\ Handled(m)
  /\ AcceptReplica(m)
  /\ Answered(m, Takes(m)) \/ Exception(m)
  /\ UNCHANGED <<bound, blocks, saved, claim, tick, handed, again>>

PushLost(m) ==
  /\ Pushing(m)
  /\ ~Handled(m)
  /\ Exception(m)
  /\ UNCHANGED <<relayVars, claim, tick, historyVars>>

-------------------------------------------------------------------------------
(* The recipient, logged in on node n.                                     *)

(* claim_mailbox_keys, which both handlers call first: the node now files  *)
(* requests under the request's token.                                     *)
Rebind(n, age) == bound' = [bound EXCEPT ![n] = [age |-> age, idle |-> 0]]

Claim(n, purpose) ==
  /\ claim[n] = "idle"
  /\ Rebind(n, 0)
  /\ claim' = [claim EXCEPT ![n] = purpose]
  /\ UNCHANGED <<box, blocks, saved, pushVars, tick, boundVars, historyVars>>

Available(n) == {e \in box[n] : e.slot \in ClaimedSlots(n)}
MsgsOf(E) == {e.msg : e \in E}

(* The oldest messages, BatchLimit of them at most. *)
Batches(n) ==
  LET all == MsgsOf(Available(n))
  IN  {M \in SUBSET all :
         /\ Cardinality(M) <= BatchLimit
         /\ Cardinality(M) = BatchLimit \/ M = all
         /\ \A d \in Available(n), e \in Available(n) :
              d.msg \in M /\ e.msg \notin M => d.left <= e.left}

(* Mutants: what does not fit in the batch is gone; what was handed out    *)
(* stays.                                                                  *)
RemainingNone(n, batch) == box[n] \ Available(n)
RemainingAll(n, batch) == box[n]

(* _collect_from_keys pops the mailboxes and puts back what was not handed *)
(* out, every copy of a message together.                                  *)
Remaining(n, batch) ==
  {e \in box[n] : e.slot \in ClaimedSlots(n) => e.msg \notin batch}

(* collect_claims *)
Collect(n) ==
  /\ claim[n] = "poll"
  /\ \E batch \in Batches(n) :
       /\ box' = [box EXCEPT ![n] = Remaining(n, batch)]
       /\ handed' = [handed EXCEPT ![n] = @ \cup batch]
       /\ again' = again \cup (batch \cap handed[n])
  /\ Rebind(n, bound[n].age)
  /\ claim' = [claim EXCEPT ![n] = "idle"]
  /\ UNCHANGED <<blocks, saved, pushVars, tick, boundVars, gone>>

(* claim_message_ids *)
Count(n) ==
  /\ claim[n] = "count"
  /\ Rebind(n, bound[n].age)
  /\ claim' = [claim EXCEPT ![n] = "idle"]
  /\ UNCHANGED <<box, blocks, saved, pushVars, tick, boundVars, historyVars>>

(* block: by the reference this node computes. *)
Block(n, s) ==
  LET purged == {e \in box[n] : e.slot \in PurgedSlots(n)
                                /\ MsgRef(e.msg) = Ref(n, s)}
  IN  /\ blocks' = [blocks EXCEPT ![n] = @ \cup {s}]
      /\ box' = [box EXCEPT ![n] = @ \ purged]
      /\ Vanish(n, MsgsOf(purged))
      /\ UNCHANGED <<bound, saved, claim, pushVars, tick, boundVars, handed,
                     again>>

Unblock(n, s) ==
  /\ s \in blocks[n]
  /\ blocks' = [blocks EXCEPT ![n] = @ \ {s}]
  /\ UNCHANGED <<box, bound, saved, claim, pushVars, tick, boundVars,
                 historyVars>>

-------------------------------------------------------------------------------
(* The relay file, crashes and time.                                       *)

(* _flush, by the timer _save starts: the spool and the bindings are not   *)
(* written unless the operator asks for it.                                *)
Flush(n) ==
  /\ saved[n] # blocks[n]
  /\ saved' = [saved EXCEPT ![n] = blocks[n]]
  /\ UNCHANGED <<box, bound, blocks, claim, pushVars, tick, boundVars,
                 historyVars>>

(* A crash ends the pushes of the node and the requests it was handling. *)
DiesIn(n, m) == Pushing(m) /\ Peer(m) = n /\ Handled(m)
Crash(n) ==
  /\ crashes < MaxCrashes
  /\ crashes' = crashes + 1
  /\ box' = [box EXCEPT ![n] = {}]
  /\ bound' = [bound EXCEPT ![n] = NoBinding]
  /\ blocks' = [blocks EXCEPT ![n] = saved[n]]
  /\ claim' = IF n \in PollNodes THEN [claim EXCEPT ![n] = "idle"] ELSE claim
  /\ push' = [m \in Msgs |-> IF Origin[m] = n THEN NoPush
                             ELSE IF DiesIn(n, m) THEN AfterFailure(m)
                             ELSE push[m]]
  /\ outcome' = [m \in Msgs |->
       IF Origin[m] = n /\ outcome[m] = "pushing" THEN "failed"
       ELSE IF Origin[m] # n /\ DiesIn(n, m) THEN OutcomeAfterFailure(m)
       ELSE outcome[m]]
  /\ Vanish(n, MsgsOf(box[n]))
  /\ UNCHANGED <<saved, tick, losses, handed, again>>

EpochEnds == tick = EpochTicks - 1
Older(slot) ==
  IF EpochEnds /\ slot # SharedSlot THEN [slot EXCEPT !.age = @ + 1] ELSE slot

(* _cleanup_expired *)
Aged(E) ==
  {[e EXCEPT !.left = @ - 1, !.slot = Older(@)] : e \in {d \in E : d.left > 1}}

OlderBinding(b) ==
  IF b.idle + 1 >= IdleTicks THEN NoBinding
  ELSE [age |-> IF EpochEnds THEN b.age + 1 ELSE b.age, idle |-> b.idle + 1]

(* No request takes as long as a tick. *)
Tick ==
  /\ \A m \in Msgs : ~Handled(m)
  /\ tick' = IF EpochEnds THEN 0 ELSE tick + 1
  /\ box' = [n \in Nodes |-> Aged(box[n])]
  /\ bound' = [n \in Nodes |-> OlderBinding(bound[n])]
  /\ push' = [m \in Msgs |->
       IF push[m].left > 0 THEN [push[m] EXCEPT !.left = @ - 1] ELSE push[m]]
  /\ Vanish(Home, MsgsOf({e \in box[Home] : e.left = 1}))
  /\ UNCHANGED <<blocks, saved, claim, outcome, boundVars, handed, again>>

-------------------------------------------------------------------------------
SenderStep ==
  \E m \in Msgs : Deposit(m) \/ DepositRefused(m) \/ FindSlot(m)
                    \/ PushArrives(m) \/ PushLost(m)

RecipientStep ==
  \E n \in PollNodes :
    \/ \E purpose \in {"poll", "count"} : Claim(n, purpose)
    \/ Collect(n)
    \/ Count(n)
    \/ \E s \in Senders : Block(n, s) \/ Unblock(n, s)

NodeStep == Tick \/ \E n \in Nodes : Flush(n) \/ Crash(n)

Next == SenderStep \/ RecipientStep \/ NodeStep

(***************************************************************************)
(* A push goes on, time passes however many requests there are, and the    *)
(* release worker's passes try every undelivered message again and again,  *)
(* so one that could be deposited over and over is.                        *)
(***************************************************************************)
Fairness ==
  /\ SF_vars(Tick)
  /\ \A m \in Msgs : /\ WF_vars(FindSlot(m)) /\ WF_vars(PushArrives(m))
                     /\ SF_vars(Deposit(m))

Spec == Init /\ [][Next]_vars
LiveSpec == Spec /\ Fairness
-------------------------------------------------------------------------------
(* Properties.                                                             *)

(* Every variable holds values of its kind; no mailbox keeps an entry past *)
(* its time (_cleanup_expired).                                            *)
TypeOK ==
  /\ box \in [Nodes -> SUBSET Entries]
  /\ bound \in [Nodes -> [age : Nat, idle : 0 .. IdleTicks]]
  /\ blocks \in [Nodes -> SUBSET Senders]
  /\ saved \in [Nodes -> SUBSET Senders]
  /\ claim \in [PollNodes -> {"idle", "poll", "count"}]
  /\ push \in [Msgs -> [todo : Seq(Nodes), tries : 0 .. 3,
                        slot : Slots \cup {NoSlot}, left : 0 .. TTL,
                        pushed : BOOLEAN]]
  /\ outcome \in [Msgs -> Outcomes]
  /\ tick \in 0 .. EpochTicks - 1
  /\ losses \in 0 .. MaxLosses
  /\ crashes \in 0 .. MaxCrashes
  /\ handed \in [PollNodes -> SUBSET Msgs]
  /\ again \subseteq Msgs
  /\ gone \subseteq Msgs

(* No mailbox of any node ever holds more of one sender than the sender's  *)
(* cap, or more than its class allows, whatever was deposited, replicated, *)
(* put back by a short poll or aged into an older epoch (deposit,          *)
(* accept_replica, _collect_from_keys).                                    *)
CapsHold ==
  \A n \in Nodes : \A e \in box[n] :
    /\ Cardinality(FromSender(n, e.slot, e.msg)) <= SenderLimit
    /\ Cardinality(In(n, e.slot)) <= ClassLimit(e.msg)

(* What the sender was told reached the recipient's node is there, has     *)
(* been handed to the recipient, or left for a reason the code has:        *)
(* expiry, a block, a restart (accept_replica's ok, the put-back of        *)
(* _collect_from_keys, the answer a retry may lose).                       *)
DeliveredIsKept ==
  \A m \in Scoped : outcome[m] = "delivered" =>
    m \in MsgsOf(box[Home]) \cup handed[Home] \cup gone

(* Without lost answers and crashes no node hands out a message twice:     *)
(* neither a second copy in another mailbox nor a retry of the outbox      *)
(* brings it back (collect_claims, the duplicate check of accept_replica), *)
(* as long as no scoped message is deposited where the recipient polls.    *)
HandedOutOnce == losses = 0 /\ crashes = 0 => again = {}

(* No request of a blocked sender, deposited on the node where the block   *)
(* was made, is left in the recipient's mailboxes there: the purge reaches *)
(* every mailbox such a request may lie in (block, deposit).               *)
BlockedStaysOut ==
  \A n \in PollNodes : \A e \in box[n] :
    Origin[e.msg] = n /\ e.msg \notin SharedMsgs => Sender[e.msg] \notin blocks[n]

(* A scoped message gets through once its sender is not blocked any more:  *)
(* the caps at both ends, its own unread copy and failed pushes hold it up *)
(* only for a time (deposit, _replicate_envelope_to_peers, the retries of  *)
(* the outbox).                                                            *)
RetriesGetThrough ==
  \A m \in Scoped :
    <>[](Sender[m] \notin blocks[Origin[m]])
      => (outcome[m] = "failed" ~> outcome[m] = "delivered")

(* "so the recipient can log into any peer node and find their messages":  *)
(* a poll that was not cut short leaves nothing behind on its node         *)
(* (accept_replica, collect_claims).                                       *)
PollFindsAll ==
  [][\A n \in PollNodes : claim[n] = "poll" /\ claim'[n] = "idle" =>
       box'[n] \subseteq Available(n)]_vars

===============================================================================
