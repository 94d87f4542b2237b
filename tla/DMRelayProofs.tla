----------------------------- MODULE DMRelayProofs -----------------------------
(***************************************************************************)
(* What holds of DMRelay for every network, every set of messages and      *)
(* every limit: its typing, that a block keeps a sender's requests out,    *)
(* that a message reported delivered is not lost by the relay itself, that *)
(* no mailbox outgrows its caps, and that without faults nothing is handed *)
(* out twice.                                                              *)
(***************************************************************************)
EXTENDS DMRelay, FiniteSetTheorems, TLAPS

PushRecord == [todo : Seq(Nodes), tries : 0 .. 3, slot : Slots \cup {NoSlot},
               left : 0 .. TTL, pushed : BOOLEAN]
Binding == [age : Nat, idle : 0 .. IdleTicks]

(* The slots of the model are slots, the next epoch's included             *)
(* (_mailbox_key, _hashed_mailbox_token).                                  *)
LEMMA SlotsTyped ==
  /\ SharedSlot \in Slots
  /\ \A age \in Nat : EpochSlot(age) \in Slots /\ TokenSlot(age) \in Slots
  /\ \A slot \in Slots : Older(slot) \in Slots
  /\ NoSlot \notin Slots
  BY DEF SharedSlot, EpochSlot, TokenSlot, NoSlot, Older, Slots

(* A new entry is an entry (the DMMessage deposit and accept_replica       *)
(* append).                                                                *)
LEMMA EntryTyped ==
  ASSUME NEW m \in Msgs, NEW slot \in Slots, NEW left \in 1 .. TTL
  PROVE  [msg |-> m, slot |-> slot, left |-> left] \in Entries
  BY DEF Entries

(* The thread of a push stays well-formed when it turns to the next peer   *)
(* and when it tries again (_replicate_envelope_to_peers).                 *)
LEMMA PushTyped ==
  ASSUME TypeOK, NEW m \in Msgs, Pushing(m)
  PROVE  /\ \A ok \in BOOLEAN : /\ AfterPeer(m, ok) \in PushRecord
                               /\ OutcomeAfterPeer(m, ok) \in Outcomes
         /\ AfterFailure(m) \in PushRecord
         /\ OutcomeAfterFailure(m) \in Outcomes
<1>0. /\ push[m] \in PushRecord /\ outcome[m] \in Outcomes
      /\ push[m].todo \in Seq(Nodes) /\ push[m].todo # <<>>
      /\ Attempts(m) \in 0 .. 3
  BY DEF TypeOK, PushRecord, Pushing, Attempts
<1>1. NoPush \in PushRecord
  BY TimesAssumption DEF NoPush, PushRecord
<1>2. Tail(push[m].todo) \in Seq(Nodes)
  BY <1>0
<1>3. ASSUME NEW ok \in BOOLEAN PROVE AfterPeer(m, ok) \in PushRecord
  <2>1. (push[m].pushed \/ ok) \in BOOLEAN
    OBVIOUS
  <2>2. [todo |-> Tail(push[m].todo), tries |-> Attempts(m), slot |-> NoSlot,
         left |-> push[m].left, pushed |-> push[m].pushed \/ ok] \in PushRecord
    BY <1>0, <1>2, <2>1 DEF PushRecord
  <2> QED  BY <1>1, <2>2 DEF AfterPeer
<1>4. ASSUME NEW ok \in BOOLEAN PROVE OutcomeAfterPeer(m, ok) \in Outcomes
  BY <1>0 DEF OutcomeAfterPeer, Outcomes
<1>5. ASSUME push[m].tries > 1
      PROVE  [push[m] EXCEPT !.tries = push[m].tries - 1, !.slot = NoSlot]
               \in PushRecord
  <2>1. push[m].tries - 1 \in 0 .. 3
    BY <1>0, <1>5 DEF PushRecord
  <2> QED  BY <1>0, <2>1 DEF PushRecord
<1>6. AfterFailure(m) \in PushRecord
  BY <1>3, <1>5 DEF AfterFailure
<1>7. OutcomeAfterFailure(m) \in Outcomes
  BY <1>0, <1>4 DEF OutcomeAfterFailure
<1> QED  BY <1>3, <1>4, <1>6, <1>7

(* accept_replica leaves entries of the recipient's mailboxes behind and   *)
(* nothing else.                                                           *)
LEMMA ReplicaTyped ==
  ASSUME TypeOK, NEW m \in Msgs, Pushing(m), Handled(m), AcceptReplica(m)
  PROVE  box' \in [Nodes -> SUBSET Entries] /\ gone' \subseteq Msgs
<1>1. push[m].slot \in Slots /\ push[m].left \in 0 .. TTL
  BY DEF TypeOK, Handled
<1>2. Peer(m) \in Nodes
  BY DEF TypeOK, Pushing, Peer
<1>3. CASE push[m].left = 0
  BY <1>2, <1>3 DEF AcceptReplica, Vanish, TypeOK
<1>4. CASE push[m].left # 0
  <2>1. [msg |-> m, slot |-> push[m].slot, left |-> push[m].left] \in Entries
    BY <1>1, <1>4, TimesAssumption, EntryTyped
  <2> QED  BY <1>2, <1>4, <2>1 DEF AcceptReplica, Vanish, TypeOK
<1> QED  BY <1>3, <1>4

(* One tick makes every entry older, or drops it (_cleanup_expired), and   *)
(* every binding (_mailbox_binding_expires_at).                            *)
LEMMA AgedTyped ==
  ASSUME TypeOK
  PROVE  /\ \A n \in Nodes : Aged(box[n]) \subseteq Entries
         /\ \A n \in Nodes : OlderBinding(bound[n]) \in Binding
<1>1. ASSUME NEW n \in Nodes, NEW e \in box[n], e.left > 1
      PROVE  [e EXCEPT !.left = e.left - 1, !.slot = Older(e.slot)] \in Entries
  <2>1. e \in Entries
    BY <1>1 DEF TypeOK
  <2>2. e.left - 1 \in 1 .. TTL /\ Older(e.slot) \in Slots
    BY <1>1, <2>1, TimesAssumption, SlotsTyped DEF Entries
  <2> QED  BY <2>1, <2>2 DEF Entries
<1>2. ASSUME NEW n \in Nodes PROVE Aged(box[n]) \subseteq Entries
  BY <1>1, <1>2 DEF Aged
<1>3. ASSUME NEW n \in Nodes PROVE OlderBinding(bound[n]) \in Binding
  <2>1. bound[n] \in Binding
    BY <1>3 DEF TypeOK, Binding
  <2> QED
    BY <2>1, TimesAssumption DEF OlderBinding, NoBinding, Binding
<1> QED  BY <1>2, <1>3

(* The relay starts empty (DMRelay.__init__). *)
LEMMA InitTyped == Init => TypeOK
<1> SUFFICES ASSUME Init PROVE TypeOK
  OBVIOUS
<1>1. NoPush \in PushRecord /\ NoBinding \in Binding
  BY TimesAssumption DEF NoPush, PushRecord, NoBinding, Binding
<1> QED
  BY <1>1, TimesAssumption, LimitsAssumption
  DEF Init, TypeOK, PushRecord, Binding, Outcomes

(* Every step keeps every variable of its kind. *)
LEMMA StepTyped == TypeOK /\ [Next]_vars => TypeOK'
<1> SUFFICES ASSUME TypeOK, [Next]_vars PROVE TypeOK'
  OBVIOUS
<1> USE DEF relayVars, pushVars, boundVars, historyVars
<1>0. /\ push \in [Msgs -> PushRecord]
      /\ bound \in [Nodes -> Binding]
      /\ PollNodes \subseteq Nodes /\ Home \in Nodes
  BY NetworkAssumption DEF TypeOK, PushRecord, Binding
<1>1. ASSUME NEW m \in Msgs, Deposit(m) PROVE TypeOK'
  <2>1. Origin[m] \in Nodes /\ DepositSlot(m) \in Slots
    BY NetworkAssumption, SlotsTyped DEF DepositSlot
  <2>2. [msg |-> m, slot |-> DepositSlot(m), left |-> TTL] \in Entries
    BY <2>1, TimesAssumption, EntryTyped
  <2>3. box' \in [Nodes -> SUBSET Entries]
    BY <1>1, <2>1, <2>2 DEF Deposit, TypeOK
  <2>4. push' \in [Msgs -> PushRecord]
    <3>1. Peers(m) \in Seq(Nodes) /\ Attempts(m) \in 0 .. 3
      BY <1>0, <2>1, NetworkAssumption DEF Peers, Attempts
    <3> DEFINE slot == DepositSlot(m)
               left == IF Holds(Origin[m], slot, m)
                       THEN (CHOOSE e \in In(Origin[m], slot) : e.msg = m).left
                       ELSE TTL
    <3>2. left \in 0 .. TTL
      <4>1. In(Origin[m], slot) \subseteq Entries
        BY <2>1 DEF In, TypeOK
      <4>2. \A e \in Entries : e.left \in 0 .. TTL
        BY TimesAssumption DEF Entries
      <4>3. CASE Holds(Origin[m], slot, m)
        <5>1. (CHOOSE e \in In(Origin[m], slot) : e.msg = m)
                \in In(Origin[m], slot)
          BY <4>3 DEF Holds
        <5> QED  BY <4>1, <4>2, <4>3, <5>1
      <4>4. CASE ~Holds(Origin[m], slot, m)
        BY <4>4, TimesAssumption
      <4> QED  BY <4>3, <4>4
    <3>3. NoPush \in PushRecord
      BY TimesAssumption DEF NoPush, PushRecord
    <3>4. [todo |-> Peers(m), tries |-> Attempts(m), slot |-> NoSlot,
           left |-> left, pushed |-> FALSE] \in PushRecord
      BY <3>1, <3>2 DEF PushRecord
    <3>5. push' = [push EXCEPT ![m] =
             IF Peers(m) = <<>> THEN NoPush
             ELSE [todo |-> Peers(m), tries |-> Attempts(m), slot |-> NoSlot,
                   left |-> left, pushed |-> FALSE]]
      BY <1>1 DEF Deposit
    <3> QED  BY <1>0, <3>3, <3>4, <3>5
  <2>5. outcome' \in [Msgs -> Outcomes]
    BY <1>1 DEF Deposit, TypeOK, Outcomes
  <2> QED
    BY <1>1, <2>3, <2>4, <2>5 DEF Deposit, TypeOK, PushRecord
<1>2. ASSUME NEW m \in Msgs, DepositRefused(m) PROVE TypeOK'
  BY <1>2 DEF DepositRefused, TypeOK, Outcomes
<1>3. ASSUME NEW m \in Msgs, PushArrives(m) PROVE TypeOK'
  <2>1. box' \in [Nodes -> SUBSET Entries] /\ gone' \subseteq Msgs
    BY <1>3, ReplicaTyped DEF PushArrives
  <2>2. Takes(m) \in BOOLEAN
    BY DEF Takes, Duplicate, Holds, RoomFor
  <2>3. /\ push' \in [Msgs -> PushRecord]
        /\ outcome' \in [Msgs -> Outcomes]
        /\ losses' \in 0 .. MaxLosses
        /\ crashes' \in 0 .. MaxCrashes
    <3>1. CASE Answered(m, Takes(m))
      BY <1>0, <1>3, <2>2, <3>1, PushTyped DEF PushArrives, Answered, TypeOK
    <3>2. CASE Exception(m)
      <4>1. AfterFailure(m) \in PushRecord /\ OutcomeAfterFailure(m) \in Outcomes
        BY <1>3, PushTyped DEF PushArrives
      <4>2. push' \in [Msgs -> PushRecord] /\ outcome' \in [Msgs -> Outcomes]
        BY <1>0, <3>2, <4>1 DEF Exception, TypeOK
      <4>3. losses' \in 0 .. MaxLosses /\ crashes' \in 0 .. MaxCrashes
        BY <3>2, LimitsAssumption DEF Exception, TypeOK
      <4> QED  BY <4>2, <4>3
    <3> QED  BY <1>3, <3>1, <3>2 DEF PushArrives
  <2> QED
    BY <1>3, <2>1, <2>3 DEF PushArrives, TypeOK, PushRecord
<1>4. ASSUME NEW m \in Msgs, PushLost(m) \/ FindSlot(m) PROVE TypeOK'
  <2>1. CASE PushLost(m)
    <3>1. /\ push' \in [Msgs -> PushRecord]
          /\ outcome' \in [Msgs -> Outcomes]
          /\ losses' \in 0 .. MaxLosses
      <4>1. AfterFailure(m) \in PushRecord /\ OutcomeAfterFailure(m) \in Outcomes
        BY <2>1, PushTyped DEF PushLost
      <4>2. push' \in [Msgs -> PushRecord] /\ outcome' \in [Msgs -> Outcomes]
        BY <1>0, <2>1, <4>1 DEF PushLost, Exception, TypeOK
      <4>3. losses' \in 0 .. MaxLosses
        BY <2>1, LimitsAssumption DEF PushLost, Exception, TypeOK
      <4> QED  BY <4>2, <4>3
    <3> QED
      BY <2>1, <3>1 DEF PushLost, Exception, TypeOK, PushRecord
  <2>2. CASE FindSlot(m)
    <3>1. ReplicaSlot(Peer(m), m) \in Slots
      <4>1. Peer(m) \in Nodes
        BY <2>2 DEF FindSlot, Pushing, Peer, TypeOK
      <4> QED  BY <4>1, SlotsTyped DEF ReplicaSlot, DepositSlot, TypeOK
    <3>2. [push[m] EXCEPT !.slot = ReplicaSlot(Peer(m), m)] \in PushRecord
      BY <1>0, <3>1 DEF PushRecord
    <3>3. push' \in [Msgs -> PushRecord]
      BY <1>0, <2>2, <3>2 DEF FindSlot
    <3> QED
      BY <2>2, <3>3 DEF FindSlot, TypeOK, PushRecord
  <2> QED  BY <1>4, <2>1, <2>2
<1>5. ASSUME NEW n \in PollNodes, NEW age \in Nat, Rebind(n, age)
      PROVE  bound' \in [Nodes -> Binding]
  BY <1>0, <1>5, TimesAssumption DEF Rebind, Binding
<1>6. ASSUME NEW n \in PollNodes, NEW purpose \in {"poll", "count"},
             Claim(n, purpose)
      PROVE  TypeOK'
  <2>1. bound' \in [Nodes -> Binding]
    BY <1>5, <1>6 DEF Claim
  <2> QED  BY <1>6, <2>1 DEF Claim, TypeOK, Binding
<1>7. ASSUME NEW n \in PollNodes, Collect(n) PROVE TypeOK'
  <2>1. bound' \in [Nodes -> Binding]
    BY <1>0, <1>5, <1>7 DEF Collect, Binding
  <2>2. PICK batch \in Batches(n) :
          /\ box' = [box EXCEPT ![n] = Remaining(n, batch)]
          /\ handed' = [handed EXCEPT ![n] = @ \cup batch]
          /\ again' = again \cup (batch \cap handed[n])
    BY <1>7 DEF Collect
  <2>3. batch \subseteq Msgs
    BY <1>0, <2>2 DEF Batches, MsgsOf, Available, TypeOK, Entries
  <2>4. box' \in [Nodes -> SUBSET Entries]
    BY <1>0, <2>2 DEF Remaining, TypeOK
  <2> QED
    BY <1>7, <2>1, <2>2, <2>3, <2>4 DEF Collect, TypeOK, Binding
<1>8. ASSUME NEW n \in PollNodes, Count(n) PROVE TypeOK'
  <2>1. bound' \in [Nodes -> Binding]
    BY <1>0, <1>5, <1>8 DEF Count, Binding
  <2> QED  BY <1>8, <2>1 DEF Count, TypeOK, Binding
<1>9. ASSUME NEW n \in PollNodes, NEW s \in Senders, Block(n, s) PROVE TypeOK'
  <2>1. box' \in [Nodes -> SUBSET Entries]
    BY <1>0, <1>9 DEF Block, TypeOK
  <2>2. gone' \subseteq Msgs
    BY <1>0, <1>9 DEF Block, Vanish, MsgsOf, TypeOK, Entries
  <2> QED  BY <1>9, <2>1, <2>2 DEF Block, TypeOK
<1>10. ASSUME NEW n \in PollNodes, NEW s \in Senders, Unblock(n, s)
       PROVE  TypeOK'
  BY <1>10 DEF Unblock, TypeOK
<1>11. CASE Tick
  <2>1. tick' \in 0 .. EpochTicks - 1
    BY <1>11, TimesAssumption DEF Tick, EpochEnds, TypeOK
  <2>2. box' \in [Nodes -> SUBSET Entries] /\ bound' \in [Nodes -> Binding]
    BY <1>11, AgedTyped DEF Tick
  <2>3. push' \in [Msgs -> PushRecord]
    <3>1. ASSUME NEW m \in Msgs, push[m].left > 0
          PROVE  [push[m] EXCEPT !.left = push[m].left - 1] \in PushRecord
      <4>1. push[m] \in PushRecord /\ push[m].left - 1 \in 0 .. TTL
        BY <1>0, <3>1, TimesAssumption DEF PushRecord
      <4> QED  BY <4>1 DEF PushRecord
    <3> QED  BY <1>0, <1>11, <3>1 DEF Tick
  <2>4. gone' \subseteq Msgs
    BY <1>0, <1>11 DEF Tick, Vanish, MsgsOf, TypeOK, Entries
  <2> QED
    BY <1>11, <2>1, <2>2, <2>3, <2>4 DEF Tick, TypeOK, PushRecord, Binding
<1>12. ASSUME NEW n \in Nodes, Flush(n) PROVE TypeOK'
  BY <1>12 DEF Flush, TypeOK
<1>13. ASSUME NEW n \in Nodes, Crash(n) PROVE TypeOK'
  <2>1. NoPush \in PushRecord /\ NoBinding \in Binding
    BY TimesAssumption DEF NoPush, PushRecord, NoBinding, Binding
  <2>2. push' \in [Msgs -> PushRecord] /\ bound' \in [Nodes -> Binding]
    BY <1>0, <1>13, <2>1, PushTyped DEF Crash, DiesIn
  <2>5. outcome' \in [Msgs -> Outcomes]
    BY <1>13, PushTyped DEF Crash, DiesIn, Outcomes, TypeOK
  <2>3. gone' \subseteq Msgs
    BY <1>13 DEF Crash, Vanish, MsgsOf, TypeOK, Entries
  <2>4. crashes' \in 0 .. MaxCrashes
    BY <1>13, LimitsAssumption DEF Crash, TypeOK
  <2> QED
    BY <1>13, <2>2, <2>3, <2>4, <2>5 DEF Crash, TypeOK, PushRecord, Binding
<1>14. CASE UNCHANGED vars
  BY <1>14 DEF vars, TypeOK
<1> QED
  BY <1>1, <1>2, <1>3, <1>4, <1>6, <1>7, <1>8, <1>9, <1>10, <1>11, <1>12,
     <1>13, <1>14
  DEF Next, SenderStep, RecipientStep, NodeStep

(* The relay's state is typed throughout (TypeOK, checked by relay runs).  *)
THEOREM TypeCorrect == Spec => []TypeOK
<1>1. Init => TypeOK
  BY InitTyped
<1>2. TypeOK /\ [Next]_vars => TypeOK'
  BY StepTyped
<1> QED  BY <1>1, <1>2, PTL DEF Spec

-------------------------------------------------------------------------------
(* Blocks.                                                                 *)

(* A request under an epoch key is of this epoch or of the one before, and *)
(* expires before a second one ends: TTL is at most an epoch.              *)
EpochFits(e) ==
  \/ e.slot.age = 0
  \/ e.slot.age = 1 /\ tick + e.left <= EpochTicks - 1

(* A request deposited here lies under an epoch key: a node's own messages *)
(* never come back to it by a push.                                        *)
BlockInv ==
  /\ BlockedStaysOut
  /\ \A n \in Nodes : \A e \in box[n] :
       Origin[e.msg] = n /\ e.msg \notin SharedMsgs =>
         e.slot.kind = "epoch" /\ EpochFits(e)
  /\ \A m \in Msgs : \A i \in 1 .. Len(push[m].todo) :
       push[m].todo[i] # Origin[m]

(* A push never turns to a peer it did not have on its list, and leaves    *)
(* the other pushes alone (_replicate_envelope_to_peers).                  *)
PushKeeps(m, after) ==
  \/ after.todo = <<>>
  \/ after.todo = Tail(push[m].todo)
  \/ after.todo = push[m].todo

LEMMA PushShrinks ==
  ASSUME TypeOK, NEW m \in Msgs
  PROVE  /\ \A ok \in BOOLEAN : PushKeeps(m, AfterPeer(m, ok))
         /\ PushKeeps(m, AfterFailure(m))
<1>0. push[m] \in PushRecord
  BY DEF TypeOK, PushRecord
<1>1. ASSUME NEW ok \in BOOLEAN PROVE PushKeeps(m, AfterPeer(m, ok))
  BY DEF AfterPeer, NoPush, PushKeeps
<1>2. [push[m] EXCEPT !.tries = push[m].tries - 1, !.slot = NoSlot].todo
        = push[m].todo
  BY <1>0 DEF PushRecord
<1> QED  BY <1>1, <1>2 DEF AfterFailure, PushKeeps

(* So a push that never turned to the depositing node never will. *)
LEMMA PushStaysAway ==
  ASSUME TypeOK, BlockInv, NEW m \in Msgs, NEW after, PushKeeps(m, after)
  PROVE  \A i \in 1 .. Len(after.todo) : after.todo[i] # Origin[m]
<1>1. push[m].todo \in Seq(Nodes)
  BY DEF TypeOK
<1>2. \A i \in 1 .. Len(push[m].todo) : push[m].todo[i] # Origin[m]
  BY DEF BlockInv
<1>3. CASE after.todo = <<>>
  BY <1>3
<1>4. CASE after.todo = Tail(push[m].todo)
  <2>1. CASE push[m].todo = <<>>
    BY <1>4, <2>1
  <2>2. CASE push[m].todo # <<>>
    BY <1>1, <1>2, <1>4, <2>2
  <2> QED  BY <2>1, <2>2
<1>5. CASE after.todo = push[m].todo
  BY <1>2, <1>5
<1> QED  BY <1>3, <1>4, <1>5 DEF PushKeeps

(* Each step keeps the invariant of blocks. *)
LEMMA BlockStep == TypeOK /\ BlockInv /\ [Next]_vars => BlockInv'
<1> SUFFICES ASSUME TypeOK, BlockInv, [Next]_vars PROVE BlockInv'
  OBVIOUS
<1> USE DEF relayVars, pushVars, boundVars, historyVars
<1>0. /\ PollNodes \subseteq Nodes /\ Home \in Nodes
      /\ \A m \in Msgs : Origin[m] \in Nodes
      /\ \A n \in Nodes : box[n] \subseteq Entries
      /\ box \in [Nodes -> SUBSET Entries]
      /\ push \in [Msgs -> PushRecord]
  BY NetworkAssumption DEF TypeOK, PushRecord
<1>1. ASSUME NEW m \in Msgs, Deposit(m) PROVE BlockInv'
  <2>1. \A k \in Nodes : \A e \in box'[k] :
          \/ e \in box[k]
          \/ k = Origin[m] /\ e.msg = m /\ e.slot = DepositSlot(m)
    BY <1>0, <1>1 DEF Deposit
  <2>2. Sender[m] \notin blocks[Origin[m]]
    BY <1>1 DEF Deposit, Accepts
  <2>4. m \notin SharedMsgs =>
          DepositSlot(m).kind = "epoch" /\ DepositSlot(m).age = 0
    BY DEF DepositSlot, EpochSlot
  <2>5. \A d \in Msgs : \A i \in 1 .. Len(push'[d].todo) :
          push'[d].todo[i] # Origin[d]
    <3>1. \A i \in 1 .. Len(Peers(m)) : Peers(m)[i] # Origin[m]
      BY <1>0, NetworkAssumption DEF Peers
    <3>2. push'[m].todo = <<>> \/ push'[m].todo = Peers(m)
      BY <1>0, <1>1 DEF Deposit, NoPush
    <3>3. \A d \in Msgs \ {m} : push'[d] = push[d]
      BY <1>0, <1>1 DEF Deposit
    <3> QED  BY <3>1, <3>2, <3>3 DEF BlockInv
  <2>6. UNCHANGED <<blocks, tick>>
    BY <1>1 DEF Deposit
  <2> QED
    BY <1>0, <2>1, <2>2, <2>4, <2>5, <2>6
    DEF BlockInv, BlockedStaysOut, EpochFits
<1>2. ASSUME NEW m \in Msgs, DepositRefused(m) PROVE BlockInv'
  BY <1>2 DEF DepositRefused, BlockInv, BlockedStaysOut, EpochFits
<1>20. ASSUME NEW m \in Msgs, NEW after, push' = [push EXCEPT ![m] = after],
              PushKeeps(m, after)
       PROVE  \A d \in Msgs : \A i \in 1 .. Len(push'[d].todo) :
                push'[d].todo[i] # Origin[d]
  <2>1. push'[m] = after /\ \A d \in Msgs \ {m} : push'[d] = push[d]
    BY <1>0, <1>20
  <2>2. \A i \in 1 .. Len(after.todo) : after.todo[i] # Origin[m]
    BY <1>20, PushStaysAway
  <2> QED  BY <2>1, <2>2 DEF BlockInv
<1>3. ASSUME NEW m \in Msgs, PushArrives(m) PROVE BlockInv'
  <2>1. Peer(m) \in Nodes /\ Peer(m) # Origin[m]
    BY <1>0, <1>3 DEF PushArrives, Pushing, Peer, PushRecord, BlockInv
  <2>2. \A k \in Nodes : \A e \in box'[k] :
          \/ e \in box[k]
          \/ k = Peer(m) /\ e.msg = m
    BY <1>0, <1>3, <2>1 DEF PushArrives, AcceptReplica
  <2>3. \A d \in Msgs : \A i \in 1 .. Len(push'[d].todo) :
          push'[d].todo[i] # Origin[d]
    <3>1. Takes(m) \in BOOLEAN
      BY DEF Takes, Duplicate, Holds, RoomFor
    <3>2. CASE Answered(m, Takes(m))
      BY <1>20, <3>1, <3>2, PushShrinks DEF Answered
    <3>3. CASE Exception(m)
      BY <1>20, <3>3, PushShrinks DEF Exception
    <3> QED  BY <1>3, <3>2, <3>3 DEF PushArrives
  <2>4. UNCHANGED <<blocks, tick>>
    BY <1>3 DEF PushArrives
  <2> QED
    BY <1>0, <2>1, <2>2, <2>3, <2>4 DEF BlockInv, BlockedStaysOut, EpochFits
<1>4. ASSUME NEW m \in Msgs, PushLost(m) \/ FindSlot(m) PROVE BlockInv'
  <2>1. \A d \in Msgs : \A i \in 1 .. Len(push'[d].todo) :
          push'[d].todo[i] # Origin[d]
    <3>1. CASE PushLost(m)
      BY <1>20, <3>1, PushShrinks DEF PushLost, Exception
    <3>2. CASE FindSlot(m)
      <4> DEFINE after == [push[m] EXCEPT !.slot = ReplicaSlot(Peer(m), m)]
      <4>1. after.todo = push[m].todo
        BY <1>0 DEF PushRecord
      <4>2. PushKeeps(m, after)
        BY <4>1 DEF PushKeeps
      <4>3. push' = [push EXCEPT ![m] = after]
        BY <3>2 DEF FindSlot
      <4> HIDE DEF after
      <4> QED  BY <1>20, <4>2, <4>3
    <3> QED  BY <1>4, <3>1, <3>2
  <2>2. UNCHANGED <<box, blocks, tick>>
    BY <1>4 DEF PushLost, FindSlot
  <2> QED  BY <2>1, <2>2 DEF BlockInv, BlockedStaysOut, EpochFits
<1>5. ASSUME NEW n \in PollNodes, NEW purpose \in {"poll", "count"},
             Claim(n, purpose)
      PROVE  BlockInv'
  BY <1>5 DEF Claim, BlockInv, BlockedStaysOut, EpochFits
<1>6. ASSUME NEW n \in PollNodes, Collect(n) PROVE BlockInv'
  <2>1. \A k \in Nodes : box'[k] \subseteq box[k]
    BY <1>0, <1>6 DEF Collect, Remaining
  <2> QED
    BY <1>0, <1>6, <2>1 DEF Collect, BlockInv, BlockedStaysOut, EpochFits
<1>7. ASSUME NEW n \in PollNodes, Count(n) PROVE BlockInv'
  BY <1>7 DEF Count, BlockInv, BlockedStaysOut, EpochFits
<1>8. ASSUME NEW n \in PollNodes, NEW s \in Senders, Block(n, s)
      PROVE  BlockInv'
  <2>1. \A k \in Nodes : box'[k] \subseteq box[k]
    BY <1>0, <1>8 DEF Block
  <2>2. ASSUME NEW e \in box'[n], Origin[e.msg] = n, e.msg \notin SharedMsgs,
               Sender[e.msg] = s
        PROVE  FALSE
    <3>1. e \in box[n] /\ e \in Entries /\ e.slot.kind = "epoch"
          /\ e.slot.age \in {0, 1}
      BY <1>0, <2>1, <2>2 DEF BlockInv, EpochFits
    <3>2. e.slot \in {EpochSlot(0), EpochSlot(1)}
      BY <3>1 DEF Entries, Slots, EpochSlot
    <3>3. MsgRef(e.msg) = Ref(n, s)
      BY <2>2 DEF MsgRef
    <3> QED
      BY <1>0, <1>8, <2>2, <3>1, <3>2, <3>3 DEF Block, PurgedSlots
  <2>3. blocks' = [blocks EXCEPT ![n] = blocks[n] \cup {s}]
    BY <1>8 DEF Block
  <2>4. UNCHANGED <<push, tick>>
    BY <1>8 DEF Block
  <2>5. BlockedStaysOut'
    BY <1>0, <2>1, <2>2, <2>3 DEF BlockInv, BlockedStaysOut, TypeOK
  <2> QED
    BY <1>0, <2>1, <2>4, <2>5 DEF BlockInv, EpochFits
<1>9. ASSUME NEW n \in PollNodes, NEW s \in Senders, Unblock(n, s)
      PROVE  BlockInv'
  <2>1. \A k \in PollNodes : blocks'[k] \subseteq blocks[k]
    BY <1>0, <1>9 DEF Unblock, TypeOK
  <2> QED
    BY <1>9, <2>1 DEF Unblock, BlockInv, BlockedStaysOut, EpochFits
<1>10. CASE Tick
  <2>1. ASSUME NEW n \in Nodes, NEW e \in box'[n]
        PROVE  \E d \in box[n] :
                 /\ d.left > 1 /\ e.left = d.left - 1 /\ e.msg = d.msg
                 /\ e.slot = Older(d.slot)
    <3>1. PICK d \in box[n] :
            d.left > 1 /\ e = [d EXCEPT !.left = @ - 1, !.slot = Older(@)]
      BY <1>0, <1>10, <2>1 DEF Tick, Aged
    <3> QED  BY <1>0, <3>1 DEF Entries
  <2>2. \A slot \in Slots :
          /\ Older(slot).kind = slot.kind
          /\ slot.kind = "epoch" =>
               Older(slot).age = IF EpochEnds THEN slot.age + 1 ELSE slot.age
    BY DEF Older, Slots, SharedSlot, NoSlot
  <2>3. ASSUME NEW n \in Nodes, NEW e \in box'[n], Origin[e.msg] = n,
               e.msg \notin SharedMsgs
        PROVE  e.slot.kind = "epoch" /\ EpochFits(e)'
    <3>1. PICK d \in box[n] :
            /\ d.left > 1 /\ e.left = d.left - 1 /\ e.msg = d.msg
            /\ e.slot = Older(d.slot)
      BY <2>1, <2>3
    <3>2. /\ d \in Entries /\ d.slot.kind = "epoch" /\ EpochFits(d)
          /\ tick \in 0 .. EpochTicks - 1
      BY <1>0, <2>3, <3>1 DEF BlockInv, TypeOK
    <3>3. CASE EpochEnds
      BY <1>10, <2>2, <3>1, <3>2, <3>3, TimesAssumption
      DEF Tick, EpochEnds, EpochFits, Entries
    <3>4. CASE ~EpochEnds
      BY <1>10, <2>2, <3>1, <3>2, <3>4, TimesAssumption
      DEF Tick, EpochFits, Entries
    <3> QED  BY <3>3, <3>4
  <2>4. \A m \in Msgs : push'[m].todo = push[m].todo
    BY <1>0, <1>10 DEF Tick, PushRecord
  <2>5. BlockedStaysOut'
    BY <1>0, <1>10, <2>1 DEF Tick, BlockInv, BlockedStaysOut
  <2> QED  BY <2>3, <2>4, <2>5 DEF BlockInv
<1>11. ASSUME NEW n \in Nodes, Flush(n) PROVE BlockInv'
  BY <1>11 DEF Flush, BlockInv, BlockedStaysOut, EpochFits
<1>12. ASSUME NEW n \in Nodes, Crash(n) PROVE BlockInv'
  <2>1. box'[n] = {} /\ \A k \in Nodes \ {n} : box'[k] = box[k]
                                            /\ blocks'[k] = blocks[k]
    BY <1>0, <1>12 DEF Crash, TypeOK
  <2>2. \A m \in Msgs : PushKeeps(m, push'[m])
    <3>1. \A m \in Msgs : \/ push'[m] = NoPush
                          \/ push'[m] = AfterFailure(m)
                          \/ push'[m] = push[m]
      BY <1>12 DEF Crash
    <3> QED  BY <3>1, PushShrinks DEF PushKeeps, NoPush
  <2>3. \A m \in Msgs : \A i \in 1 .. Len(push'[m].todo) :
          push'[m].todo[i] # Origin[m]
    BY <2>2, PushStaysAway
  <2>4. tick' = tick
    BY <1>12 DEF Crash
  <2> QED
    BY <1>0, <2>1, <2>3, <2>4 DEF BlockInv, BlockedStaysOut, EpochFits
<1>13. CASE UNCHANGED vars
  BY <1>13 DEF vars, BlockInv, BlockedStaysOut, EpochFits
<1> QED
  BY <1>1, <1>2, <1>3, <1>4, <1>5, <1>6, <1>7, <1>8, <1>9, <1>10, <1>11,
     <1>12, <1>13
  DEF Next, SenderStep, RecipientStep, NodeStep

(* A block purges every mailbox in which a request deposited on its node   *)
(* can lie, at any moment of the epoch, and none comes back while the      *)
(* block stands (block, deposit).                                          *)
THEOREM BlocksHold == Spec => []BlockedStaysOut
<1>1. Init => BlockInv
  BY NetworkAssumption
  DEF Init, BlockInv, BlockedStaysOut, NoPush
<1>2. TypeOK /\ BlockInv /\ [Next]_vars => BlockInv'
  BY BlockStep
<1>3. BlockInv => BlockedStaysOut
  BY DEF BlockInv
<1> QED  BY <1>1, <1>2, <1>3, TypeCorrect, PTL DEF Spec

-------------------------------------------------------------------------------
(* Delivered messages.                                                     *)

Accounted(m) == m \in MsgsOf(box[Home]) \cup handed[Home] \cup gone

(* A scoped push has the recipient's node as its only peer, so its answer  *)
(* is the outcome.                                                         *)
DeliveredInv ==
  /\ DeliveredIsKept
  /\ \A m \in Scoped : push[m].todo \in {<<>>, <<Home>>} /\ ~push[m].pushed

(* A message that reached the recipient's node, was handed out or left     *)
(* stays accounted for, whatever happens next: no step of the relay drops  *)
(* one in silence (_collect_from_keys, block, _cleanup_expired).           *)
LEMMA AccountedStays ==
  ASSUME TypeOK, [Next]_vars, NEW m \in Msgs, Accounted(m)
  PROVE  Accounted(m)'
<1> USE DEF relayVars, pushVars, boundVars, historyVars
<1>0. /\ PollNodes \subseteq Nodes /\ Home \in PollNodes /\ Home \in Nodes
      /\ box \in [Nodes -> SUBSET Entries]
      /\ handed \in [PollNodes -> SUBSET Msgs]
      /\ \A d \in Msgs : Origin[d] \in Nodes
  BY NetworkAssumption DEF TypeOK
<1>1. ASSUME box[Home] \subseteq box'[Home], UNCHANGED handed,
             gone \subseteq gone'
      PROVE  Accounted(m)'
  BY <1>1 DEF Accounted, MsgsOf
<1>2. ASSUME NEW d \in Msgs, Deposit(d) PROVE Accounted(m)'
  BY <1>0, <1>1, <1>2 DEF Deposit
<1>3. ASSUME NEW d \in Msgs, DepositRefused(d) PROVE Accounted(m)'
  BY <1>1, <1>3 DEF DepositRefused
<1>4. ASSUME NEW d \in Msgs, PushArrives(d) PROVE Accounted(m)'
  <2>1. box[Home] \subseteq box'[Home] /\ gone \subseteq gone'
    BY <1>0, <1>4 DEF PushArrives, AcceptReplica, Vanish
  <2> QED  BY <1>1, <1>4, <2>1 DEF PushArrives
<1>5. ASSUME NEW d \in Msgs, PushLost(d) \/ FindSlot(d) PROVE Accounted(m)'
  BY <1>1, <1>5 DEF PushLost, FindSlot
<1>6. ASSUME NEW n \in PollNodes, NEW purpose \in {"poll", "count"},
             Claim(n, purpose)
      PROVE  Accounted(m)'
  BY <1>1, <1>6 DEF Claim
<1>7. ASSUME NEW n \in PollNodes, Collect(n) PROVE Accounted(m)'
  <2>1. PICK batch \in Batches(n) :
          /\ box' = [box EXCEPT ![n] = Remaining(n, batch)]
          /\ handed' = [handed EXCEPT ![n] = @ \cup batch]
    BY <1>7 DEF Collect
  <2>2. gone' = gone
    BY <1>7 DEF Collect
  <2>3. CASE n = Home
    BY <1>0, <2>1, <2>2, <2>3 DEF Accounted, MsgsOf, Remaining
  <2>4. CASE n # Home
    BY <1>0, <2>1, <2>2, <2>4 DEF Accounted, MsgsOf
  <2> QED  BY <2>3, <2>4
<1>8. ASSUME NEW n \in PollNodes, Count(n) PROVE Accounted(m)'
  BY <1>1, <1>8 DEF Count
<1>9. ASSUME NEW n \in PollNodes, NEW s \in Senders, Block(n, s)
      PROVE  Accounted(m)'
  <2>1. CASE n = Home
    BY <1>0, <1>9, <2>1 DEF Block, Vanish, Accounted, MsgsOf
  <2>2. CASE n # Home
    BY <1>0, <1>1, <1>9, <2>2 DEF Block, Vanish
  <2> QED  BY <2>1, <2>2
<1>10. ASSUME NEW n \in PollNodes, NEW s \in Senders, Unblock(n, s)
       PROVE  Accounted(m)'
  BY <1>1, <1>10 DEF Unblock
<1>11. CASE Tick
  <2>1. /\ box'[Home] = Aged(box[Home])
        /\ gone' = gone \cup MsgsOf({e \in box[Home] : e.left = 1})
        /\ handed' = handed
    BY <1>0, <1>11 DEF Tick, Vanish
  <2>2. ASSUME NEW e \in box[Home], e.msg = m
        PROVE  m \in MsgsOf(Aged(box[Home])) \cup gone'
    <3>1. e \in Entries /\ e.left \in 1 .. TTL
      BY <1>0 DEF Entries
    <3>2. CASE e.left = 1
      BY <2>1, <2>2, <3>2 DEF MsgsOf
    <3>3. CASE e.left > 1
      <4> DEFINE f == [e EXCEPT !.left = e.left - 1, !.slot = Older(e.slot)]
      <4>1. f \in Aged(box[Home])
        BY <3>3 DEF Aged
      <4>2. f.msg = m
        BY <2>2, <3>1 DEF Entries
      <4> QED  BY <4>1, <4>2 DEF MsgsOf
    <3> QED  BY <3>1, <3>2, <3>3, TimesAssumption
  <2> QED  BY <2>1, <2>2 DEF Accounted, MsgsOf
<1>12. ASSUME NEW n \in Nodes, Flush(n) PROVE Accounted(m)'
  BY <1>1, <1>12 DEF Flush
<1>13. ASSUME NEW n \in Nodes, Crash(n) PROVE Accounted(m)'
  <2>1. CASE n = Home
    BY <1>0, <1>13, <2>1 DEF Crash, Vanish, Accounted, MsgsOf
  <2>2. CASE n # Home
    BY <1>0, <1>1, <1>13, <2>2 DEF Crash, Vanish
  <2> QED  BY <2>1, <2>2
<1>14. CASE UNCHANGED vars
  BY <1>14 DEF vars, Accounted, MsgsOf
<1> QED
  BY <1>2, <1>3, <1>4, <1>5, <1>6, <1>7, <1>8, <1>9, <1>10, <1>11, <1>12,
     <1>13, <1>14
  DEF Next, SenderStep, RecipientStep, NodeStep

(* The push of one scoped message: it reports a delivery only with the     *)
(* answer of the recipient's node (_replicate_envelope_to_peers).          *)
LEMMA ScopedPush ==
  ASSUME TypeOK, DeliveredInv, NEW m \in Scoped, Pushing(m)
  PROVE  /\ Peer(m) = Home
         /\ \A ok \in BOOLEAN :
              /\ AfterPeer(m, ok) = NoPush
              /\ OutcomeAfterPeer(m, ok) = IF ok THEN "delivered" ELSE "failed"
         /\ AfterFailure(m).todo \in {<<>>, <<Home>>}
         /\ ~AfterFailure(m).pushed
         /\ \/ OutcomeAfterFailure(m) = outcome[m]
            \/ OutcomeAfterFailure(m) = "failed"
<1>0. /\ push[m] \in PushRecord /\ push[m].todo = <<Home>>
      /\ Len(push[m].todo) = 1 /\ ~push[m].pushed
  BY NetworkAssumption DEF TypeOK, PushRecord, DeliveredInv, Pushing
<1>1. \A ok \in BOOLEAN :
        /\ AfterPeer(m, ok) = NoPush
        /\ OutcomeAfterPeer(m, ok) = IF ok THEN "delivered" ELSE "failed"
  BY <1>0 DEF AfterPeer, OutcomeAfterPeer
<1>2. /\ AfterFailure(m).todo \in {<<>>, <<Home>>}
      /\ ~AfterFailure(m).pushed
  <2>1. CASE push[m].tries > 1
    <3>1. AfterFailure(m)
            = [push[m] EXCEPT !.tries = push[m].tries - 1, !.slot = NoSlot]
      BY <2>1 DEF AfterFailure
    <3>2. /\ AfterFailure(m).todo = push[m].todo
          /\ AfterFailure(m).pushed = push[m].pushed
      BY <1>0, <3>1 DEF PushRecord
    <3> QED  BY <1>0, <3>2
  <2>2. CASE ~(push[m].tries > 1)
    <3>1. AfterFailure(m) = AfterPeer(m, FALSE)
      BY <2>2 DEF AfterFailure
    <3>2. AfterPeer(m, FALSE) = NoPush
      BY <1>1
    <3>3. NoPush.todo = <<>> /\ NoPush.pushed = FALSE
      BY DEF NoPush
    <3>4. AfterFailure(m) = NoPush
      BY <3>1, <3>2
    <3> QED  BY <3>3, <3>4
  <2> QED  BY <2>1, <2>2
<1>3. \/ OutcomeAfterFailure(m) = outcome[m]
      \/ OutcomeAfterFailure(m) = "failed"
  BY <1>1 DEF OutcomeAfterFailure
<1> QED  BY <1>0, <1>1, <1>2, <1>3 DEF Peer

(* A step of the push of another message is none of this one's. *)
LEMMA FailedPush ==
  ASSUME TypeOK, DeliveredInv, NEW m \in Msgs, Pushing(m), Exception(m),
         NEW d \in Scoped
  PROVE  /\ push'[d].todo \in {<<>>, <<Home>>} /\ ~push'[d].pushed
         /\ outcome'[d] = outcome[d] \/ outcome'[d] = "failed"
<1>0. /\ push \in [Msgs -> PushRecord] /\ outcome \in [Msgs -> Outcomes]
      /\ Scoped \subseteq Msgs
      /\ push[d].todo \in {<<>>, <<Home>>} /\ ~push[d].pushed
  BY NetworkAssumption DEF TypeOK, PushRecord, DeliveredInv
<1>1. CASE d = m
  BY <1>0, <1>1, ScopedPush DEF Exception
<1>2. CASE d # m
  BY <1>0, <1>2 DEF Exception
<1> QED  BY <1>1, <1>2

(* Each step keeps the invariant of deliveries. *)
LEMMA DeliveredStep == TypeOK /\ DeliveredInv /\ [Next]_vars => DeliveredInv'
<1> SUFFICES ASSUME TypeOK, DeliveredInv, [Next]_vars, NEW d \in Scoped
             PROVE  /\ outcome'[d] = "delivered" => Accounted(d)'
                    /\ push'[d].todo \in {<<>>, <<Home>>} /\ ~push'[d].pushed
  BY DEF DeliveredInv, DeliveredIsKept, Accounted
<1> DEFINE Goal == /\ outcome'[d] = "delivered" => Accounted(d)'
                   /\ push'[d].todo \in {<<>>, <<Home>>} /\ ~push'[d].pushed
<1> USE DEF relayVars, pushVars, boundVars, historyVars
<1>0. /\ d \in Msgs /\ Home \in Nodes
      /\ push \in [Msgs -> PushRecord] /\ outcome \in [Msgs -> Outcomes]
      /\ push[d].todo \in {<<>>, <<Home>>} /\ ~push[d].pushed
  BY NetworkAssumption DEF TypeOK, PushRecord, DeliveredInv
<1>1. outcome[d] = "delivered" => Accounted(d)'
  BY <1>0, AccountedStays DEF DeliveredInv, DeliveredIsKept, Accounted
<1>2. ASSUME UNCHANGED <<push, outcome>> PROVE Goal
  BY <1>0, <1>1, <1>2
<1>3. ASSUME NEW m \in Msgs, Deposit(m) PROVE Goal
  <2>1. CASE d = m
    BY <1>0, <1>3, <2>1 DEF Deposit, Peers, NoPush
  <2>2. CASE d # m
    BY <1>0, <1>1, <1>3, <2>2 DEF Deposit
  <2> QED  BY <2>1, <2>2
<1>4. ASSUME NEW m \in Msgs, DepositRefused(m) PROVE Goal
  BY <1>0, <1>1, <1>4 DEF DepositRefused
<1>5. ASSUME NEW m \in Msgs, PushArrives(m) PROVE Goal
  <2>1. Pushing(m) /\ AcceptReplica(m) /\ Takes(m) \in BOOLEAN
    BY <1>5 DEF PushArrives, Takes, Duplicate, Holds, RoomFor
  <2>2. CASE Exception(m)
    BY <1>1, <2>1, <2>2, FailedPush
  <2>3. CASE Answered(m, Takes(m))
    <3>1. CASE d # m
      BY <1>0, <1>1, <2>3, <3>1 DEF Answered
    <3>2. CASE d = m
      <4>1. /\ Peer(m) = Home /\ push'[d] = NoPush
            /\ outcome'[d] = IF Takes(m) THEN "delivered" ELSE "failed"
        BY <1>0, <2>1, <2>3, <3>2, ScopedPush DEF Answered
      <4>2. ASSUME Takes(m) PROVE Accounted(d)'
        <5>1. box \in [Nodes -> SUBSET Entries] /\ push[m].left \in 0 .. TTL
          BY DEF TypeOK
        <5>2. CASE push[m].left = 0
          BY <2>1, <3>2, <4>1, <5>2 DEF AcceptReplica, Vanish, Accounted
        <5>3. CASE Duplicate(m)
          <6>1. PICK e \in box[Home] : e.msg = m
            BY <4>1, <5>3 DEF Duplicate, Holds, In
          <6>2. box'[Home] = box[Home]
            BY <2>1, <5>3 DEF AcceptReplica
          <6> QED  BY <3>2, <6>1, <6>2 DEF Accounted, MsgsOf
        <5>4. CASE push[m].left # 0 /\ ~Duplicate(m)
          <6> DEFINE e == [msg |-> m, slot |-> push[m].slot,
                           left |-> push[m].left]
          <6>1. e \in box'[Home] /\ e.msg = m
            BY <1>0, <2>1, <4>1, <4>2, <5>1, <5>4 DEF AcceptReplica
          <6> QED  BY <3>2, <6>1 DEF Accounted, MsgsOf
        <5> QED  BY <5>2, <5>3, <5>4
      <4> QED  BY <4>1, <4>2 DEF NoPush
    <3> QED  BY <3>1, <3>2
  <2> QED  BY <1>5, <2>2, <2>3 DEF PushArrives
<1>6. ASSUME NEW m \in Msgs, PushLost(m) \/ FindSlot(m) PROVE Goal
  <2>1. CASE PushLost(m)
    BY <1>1, <2>1, FailedPush DEF PushLost
  <2>2. CASE FindSlot(m)
    <3>1. push'[d].todo = push[d].todo /\ push'[d].pushed = push[d].pushed
      BY <1>0, <2>2 DEF FindSlot, PushRecord
    <3> QED  BY <1>0, <1>1, <2>2, <3>1 DEF FindSlot
  <2> QED  BY <1>6, <2>1, <2>2
<1>7. ASSUME NEW n \in PollNodes, NEW purpose \in {"poll", "count"},
             Claim(n, purpose)
      PROVE  Goal
  BY <1>2, <1>7 DEF Claim
<1>8. ASSUME NEW n \in PollNodes, Collect(n) PROVE Goal
  BY <1>2, <1>8 DEF Collect
<1>9. ASSUME NEW n \in PollNodes, Count(n) PROVE Goal
  BY <1>2, <1>9 DEF Count
<1>10. ASSUME NEW n \in PollNodes, NEW s \in Senders,
              Block(n, s) \/ Unblock(n, s)
       PROVE  Goal
  BY <1>2, <1>10 DEF Block, Unblock
<1>11. CASE Tick
  BY <1>0, <1>1, <1>11 DEF Tick, PushRecord
<1>12. ASSUME NEW n \in Nodes, Flush(n) PROVE Goal
  BY <1>2, <1>12 DEF Flush
<1>13. ASSUME NEW n \in Nodes, Crash(n) PROVE Goal
  <2>1. \/ push'[d] = NoPush
        \/ push'[d] = push[d]
        \/ push'[d] = AfterFailure(d) /\ Pushing(d)
    BY <1>0, <1>13 DEF Crash, DiesIn
  <2>2. \/ outcome'[d] \in {outcome[d], "failed"}
        \/ outcome'[d] = OutcomeAfterFailure(d) /\ Pushing(d)
    BY <1>0, <1>13 DEF Crash, DiesIn
  <2> QED  BY <1>0, <1>1, <2>1, <2>2, ScopedPush DEF NoPush
<1>14. CASE UNCHANGED vars
  BY <1>2, <1>14 DEF vars
<1> QED
  BY <1>3, <1>4, <1>5, <1>6, <1>7, <1>8, <1>9, <1>10, <1>11, <1>12, <1>13,
     <1>14
  DEF Next, SenderStep, RecipientStep, NodeStep

(* What the sender was told is delivered is in a mailbox of the            *)
(* recipient's node, was handed to the recipient, or left that node        *)
(* unread by expiry, a block or a restart, and by nothing else.            *)
THEOREM DeliveriesKept == Spec => []DeliveredIsKept
<1>1. Init => DeliveredInv
  BY NetworkAssumption DEF Init, DeliveredInv, DeliveredIsKept, NoPush
<1>2. TypeOK /\ DeliveredInv /\ [Next]_vars => DeliveredInv'
  BY DeliveredStep
<1>3. DeliveredInv => DeliveredIsKept
  BY DEF DeliveredInv
<1> QED  BY <1>1, <1>2, <1>3, TypeCorrect, PTL DEF Spec
-------------------------------------------------------------------------------
(* Caps.                                                                   *)

(* A mailbox of the shared class holds shared messages, the others         *)
(* requests.                                                               *)
Fits(m, slot) ==
  /\ slot.kind = "shared" <=> m \in SharedMsgs
  /\ slot.kind = "shared" => slot.age = 0

InSlot(E, slot) == {e \in E : e.slot = slot}
OfSender(E, slot, m) == {e \in InSlot(E, slot) : MsgRef(e.msg) = MsgRef(m)}

(* The mailboxes of one node within their caps. *)
Capped(E) ==
  /\ IsFiniteSet(E)
  /\ \A e \in E : /\ Fits(e.msg, e.slot)
                  /\ Cardinality(OfSender(E, e.slot, e.msg)) <= SenderLimit
                  /\ Cardinality(InSlot(E, e.slot)) <= ClassLimit(e.msg)

(* An envelope under way is for a mailbox of its class. *)
CapInv ==
  /\ \A n \in Nodes : Capped(box[n])
  /\ \A m \in Msgs : Handled(m) => Fits(m, push[m].slot)

LEMMA LimitsTyped ==
  /\ SenderLimit \in Nat
  /\ \A m \in Msgs : ClassLimit(m) \in Nat
  BY LimitsAssumption DEF ClassLimit

(* A set each of whose elements stems from one of S is not larger than S. *)
LEMMA NotMore ==
  ASSUME NEW S, IsFiniteSet(S), NEW T, NEW f, \A t \in T : \E s \in S : t = f[s]
  PROVE  /\ IsFiniteSet(T)
         /\ Cardinality(T) <= Cardinality(S)
         /\ Cardinality(T) \in Nat /\ Cardinality(S) \in Nat
<1> DEFINE g == [t \in T |-> CHOOSE s \in S : t = f[s]]
<1>1. \A t \in T : g[t] \in S /\ t = f[g[t]]
  OBVIOUS
<1>2. g \in [T -> S]
  BY <1>1
<1>3. \A t, u \in T : g[t] = g[u] => t = u
  BY <1>1
<1> HIDE DEF g
<1>4. g \in Injection(T, S)
  BY <1>2, <1>3 DEF Injection, IsInjective
<1> QED  BY <1>4, FS_Injection, FS_CardinalityType

(* Less of a mailbox is within the caps too (collect_claims, block). *)
LEMMA LessIsCapped ==
  ASSUME NEW E, E \subseteq Entries, Capped(E), NEW D, D \subseteq E
  PROVE  Capped(D)
<1>1. IsFiniteSet(E)
  BY DEF Capped
<1>2. \A A, B : A \subseteq B /\ B \subseteq E =>
        /\ Cardinality(A) <= Cardinality(B)
        /\ Cardinality(A) \in Nat /\ Cardinality(B) \in Nat
  BY <1>1, FS_Subset, FS_CardinalityType
<1>3. ASSUME NEW e \in D
      PROVE  /\ Fits(e.msg, e.slot)
             /\ Cardinality(OfSender(D, e.slot, e.msg)) <= SenderLimit
             /\ Cardinality(InSlot(D, e.slot)) <= ClassLimit(e.msg)
  <2>1. e \in E /\ e.msg \in Msgs
    BY <1>3 DEF Entries
  <2>2. /\ OfSender(D, e.slot, e.msg) \subseteq OfSender(E, e.slot, e.msg)
        /\ InSlot(D, e.slot) \subseteq InSlot(E, e.slot)
        /\ OfSender(E, e.slot, e.msg) \subseteq E
        /\ InSlot(E, e.slot) \subseteq E
    BY DEF OfSender, InSlot
  <2>3. /\ Fits(e.msg, e.slot)
        /\ Cardinality(OfSender(E, e.slot, e.msg)) <= SenderLimit
        /\ Cardinality(InSlot(E, e.slot)) <= ClassLimit(e.msg)
    BY <2>1 DEF Capped
  <2>4. /\ Cardinality(OfSender(D, e.slot, e.msg)) \in Nat
        /\ Cardinality(OfSender(E, e.slot, e.msg)) \in Nat
        /\ Cardinality(InSlot(D, e.slot)) \in Nat
        /\ Cardinality(InSlot(E, e.slot)) \in Nat
        /\ Cardinality(OfSender(D, e.slot, e.msg))
             <= Cardinality(OfSender(E, e.slot, e.msg))
        /\ Cardinality(InSlot(D, e.slot)) <= Cardinality(InSlot(E, e.slot))
    BY <1>2, <2>2
  <2>5. SenderLimit \in Nat /\ ClassLimit(e.msg) \in Nat
    BY <2>1, LimitsTyped
  <2> QED  BY <2>3, <2>4, <2>5
<1>4. IsFiniteSet(D)
  BY <1>1, FS_Subset
<1> QED  BY <1>3, <1>4 DEF Capped

(* One more is within the caps if there was room for it (deposit,          *)
(* accept_replica).                                                        *)
LEMMA OneMoreIsCapped ==
  ASSUME NEW E, E \subseteq Entries, Capped(E), NEW new \in Entries,
         Fits(new.msg, new.slot),
         Cardinality(InSlot(E, new.slot)) < ClassLimit(new.msg),
         Cardinality(OfSender(E, new.slot, new.msg)) < SenderLimit
  PROVE  Capped(E \cup {new})
<1> DEFINE D == E \cup {new}
<1>1. IsFiniteSet(E) /\ IsFiniteSet(D)
  BY FS_AddElement DEF Capped
<1>2. \A A, B : A \subseteq E /\ B \subseteq A \cup {new} =>
        /\ Cardinality(B) <= Cardinality(A) + 1
        /\ Cardinality(A) \in Nat /\ Cardinality(B) \in Nat
  <2> SUFFICES ASSUME NEW A, NEW B, A \subseteq E, B \subseteq A \cup {new}
               PROVE  /\ Cardinality(B) <= Cardinality(A) + 1
                      /\ Cardinality(A) \in Nat /\ Cardinality(B) \in Nat
    OBVIOUS
  <2>1. IsFiniteSet(A) /\ Cardinality(A) \in Nat
    BY <1>1, FS_Subset, FS_CardinalityType
  <2>2. /\ IsFiniteSet(A \cup {new})
        /\ Cardinality(A \cup {new}) <= Cardinality(A) + 1
    BY <2>1, FS_AddElement
  <2>3. Cardinality(A \cup {new}) \in Nat
    BY <2>2, FS_CardinalityType
  <2>4. IsFiniteSet(B) /\ Cardinality(B) <= Cardinality(A \cup {new})
    BY <2>2, FS_Subset
  <2>5. Cardinality(B) \in Nat
    BY <2>4, FS_CardinalityType
  <2> QED  BY <2>1, <2>2, <2>3, <2>4, <2>5
<1>3. ASSUME NEW e \in D
      PROVE  /\ Fits(e.msg, e.slot)
             /\ Cardinality(OfSender(D, e.slot, e.msg)) <= SenderLimit
             /\ Cardinality(InSlot(D, e.slot)) <= ClassLimit(e.msg)
  <2>1. /\ SenderLimit \in Nat
        /\ ClassLimit(e.msg) \in Nat /\ ClassLimit(new.msg) \in Nat
    BY <1>3, LimitsTyped DEF Entries
  <2>2. Fits(e.msg, e.slot)
    BY <1>3 DEF Capped
  <2>3. ASSUME e \in E
        PROVE  /\ Cardinality(OfSender(E, e.slot, e.msg)) <= SenderLimit
               /\ Cardinality(InSlot(E, e.slot)) <= ClassLimit(e.msg)
    BY <2>3 DEF Capped
  <2>4. Cardinality(InSlot(D, e.slot)) <= ClassLimit(e.msg)
    <3>1. CASE e.slot = new.slot
      <4>1. ClassLimit(e.msg) = ClassLimit(new.msg)
        BY <2>2, <3>1 DEF Fits, ClassLimit
      <4>2. /\ InSlot(E, e.slot) \subseteq E
            /\ InSlot(D, e.slot) \subseteq InSlot(E, e.slot) \cup {new}
        BY DEF InSlot
      <4> HIDE DEF D
      <4>3. /\ Cardinality(InSlot(D, e.slot)) <= Cardinality(InSlot(E, e.slot)) + 1
            /\ Cardinality(InSlot(D, e.slot)) \in Nat
            /\ Cardinality(InSlot(E, e.slot)) \in Nat
        BY <1>2, <4>2
      <4> QED  BY <2>1, <3>1, <4>1, <4>3
    <3>2. CASE e.slot # new.slot
      <4>1. InSlot(D, e.slot) = InSlot(E, e.slot) /\ e \in E
        BY <1>3, <3>2 DEF InSlot
      <4> QED  BY <2>3, <4>1
    <3> QED  BY <3>1, <3>2
  <2>5. Cardinality(OfSender(D, e.slot, e.msg)) <= SenderLimit
    <3>1. CASE e.slot = new.slot /\ MsgRef(e.msg) = MsgRef(new.msg)
      <4>1. OfSender(E, e.slot, e.msg) = OfSender(E, new.slot, new.msg)
        BY <3>1 DEF OfSender, InSlot
      <4>2. /\ OfSender(E, e.slot, e.msg) \subseteq E
            /\ OfSender(D, e.slot, e.msg) \subseteq OfSender(E, e.slot, e.msg) \cup {new}
        BY DEF OfSender, InSlot
      <4> HIDE DEF D
      <4>3. /\ Cardinality(OfSender(D, e.slot, e.msg))
                 <= Cardinality(OfSender(E, e.slot, e.msg)) + 1
            /\ Cardinality(OfSender(D, e.slot, e.msg)) \in Nat
            /\ Cardinality(OfSender(E, e.slot, e.msg)) \in Nat
        BY <1>2, <4>2
      <4> QED  BY <2>1, <4>1, <4>3
    <3>2. CASE ~(e.slot = new.slot /\ MsgRef(e.msg) = MsgRef(new.msg))
      <4>1. OfSender(D, e.slot, e.msg) = OfSender(E, e.slot, e.msg) /\ e \in E
        BY <1>3, <3>2 DEF OfSender, InSlot
      <4> QED  BY <2>3, <4>1
    <3> QED  BY <3>1, <3>2
  <2> QED  BY <2>2, <2>4, <2>5
<1> QED  BY <1>1, <1>3 DEF Capped

(* Two mailboxes never become one when an epoch ends. *)
LEMMA OlderSeparates ==
  ASSUME NEW a \in Slots, NEW b \in Slots, NEW m \in Msgs, NEW k \in Msgs,
         Fits(m, a), Fits(k, b)
  PROVE  /\ Fits(m, Older(a))
         /\ Older(a) = Older(b) => a = b
<1>1. /\ a = [kind |-> a.kind, age |-> a.age] /\ a.age \in Nat
      /\ b = [kind |-> b.kind, age |-> b.age] /\ b.age \in Nat
  BY DEF Slots
<1>2. /\ a.kind = "shared" => a = SharedSlot
      /\ b.kind = "shared" => b = SharedSlot
  BY <1>1 DEF Fits, SharedSlot
<1>3. /\ Older(a).kind = a.kind /\ Older(b).kind = b.kind
      /\ a.kind = "shared" => Older(a) = a
      /\ b.kind = "shared" => Older(b) = b
      /\ a.kind # "shared" => Older(a).age = IF EpochEnds THEN a.age + 1 ELSE a.age
      /\ b.kind # "shared" => Older(b).age = IF EpochEnds THEN b.age + 1 ELSE b.age
  BY <1>1, <1>2 DEF Older, SharedSlot
<1>4. Fits(m, Older(a))
  BY <1>3 DEF Fits
<1>5. ASSUME Older(a) = Older(b) PROVE a = b
  <2>1. a.kind = b.kind
    BY <1>3, <1>5
  <2>2. a.age = b.age
    BY <1>1, <1>2, <1>3, <1>5, <2>1
  <2> QED  BY <1>1, <2>1, <2>2
<1> QED  BY <1>4, <1>5

(* A tick keeps the caps: what lay in one mailbox lies in one, and what    *)
(* did not does not (_cleanup_expired, _mailbox_key).                      *)
LEMMA AgedIsCapped ==
  ASSUME NEW E, E \subseteq Entries, Capped(E)
  PROVE  Capped(Aged(E))
<1> DEFINE f == [d \in E |-> [d EXCEPT !.left = d.left - 1, !.slot = Older(d.slot)]]
<1>1. \A e \in Aged(E) : \E d \in E : e = f[d]
  BY DEF Aged
<1>2. \A d \in E : /\ f[d].slot = Older(d.slot) /\ f[d].msg = d.msg
                   /\ d.slot \in Slots /\ d.msg \in Msgs /\ Fits(d.msg, d.slot)
  BY DEF Entries, Capped
<1> HIDE DEF f
<1>3. IsFiniteSet(E)
  BY DEF Capped
<1>4. IsFiniteSet(Aged(E))
  BY <1>1, <1>3, NotMore
<1>5. ASSUME NEW e \in Aged(E)
      PROVE  /\ Fits(e.msg, e.slot)
             /\ Cardinality(OfSender(Aged(E), e.slot, e.msg)) <= SenderLimit
             /\ Cardinality(InSlot(Aged(E), e.slot)) <= ClassLimit(e.msg)
  <2>1. PICK d \in E : e = f[d]
    BY <1>1
  <2>2. /\ e.slot = Older(d.slot) /\ e.msg = d.msg /\ Fits(e.msg, e.slot)
        /\ SenderLimit \in Nat /\ ClassLimit(d.msg) \in Nat
    BY <1>2, <2>1, OlderSeparates, LimitsTyped
  <2>3. \A x \in E : f[x].slot = e.slot => x.slot = d.slot
    BY <1>2, <2>2, OlderSeparates
  <2>4. \A x \in InSlot(Aged(E), e.slot) : \E y \in InSlot(E, d.slot) : x = f[y]
    BY <1>1, <2>3 DEF InSlot
  <2>5. \A x \in OfSender(Aged(E), e.slot, e.msg) :
          \E y \in OfSender(E, d.slot, d.msg) : x = f[y]
    BY <1>1, <1>2, <2>2, <2>3 DEF OfSender, InSlot
  <2>6. IsFiniteSet(InSlot(E, d.slot)) /\ IsFiniteSet(OfSender(E, d.slot, d.msg))
    BY <1>3, FS_Subset DEF InSlot, OfSender
  <2>7. /\ Cardinality(InSlot(Aged(E), e.slot)) <= Cardinality(InSlot(E, d.slot))
        /\ Cardinality(InSlot(Aged(E), e.slot)) \in Nat
        /\ Cardinality(InSlot(E, d.slot)) \in Nat
    BY <2>4, <2>6, NotMore
  <2>8. /\ Cardinality(OfSender(Aged(E), e.slot, e.msg))
             <= Cardinality(OfSender(E, d.slot, d.msg))
        /\ Cardinality(OfSender(Aged(E), e.slot, e.msg)) \in Nat
        /\ Cardinality(OfSender(E, d.slot, d.msg)) \in Nat
    BY <2>5, <2>6, NotMore
  <2>9. /\ Cardinality(OfSender(E, d.slot, d.msg)) <= SenderLimit
        /\ Cardinality(InSlot(E, d.slot)) <= ClassLimit(d.msg)
    BY DEF Capped
  <2> QED  BY <2>2, <2>7, <2>8, <2>9
<1> QED  BY <1>4, <1>5 DEF Capped

(* What RoomFor looked at. *)
LEMMA RoomIsCounted ==
  ASSUME NEW n \in Nodes, NEW m \in Msgs, NEW slot, RoomFor(n, slot, m)
  PROVE  /\ Cardinality(InSlot(box[n], slot)) < ClassLimit(m)
         /\ Cardinality(OfSender(box[n], slot, m)) < SenderLimit
<1>1. /\ In(n, slot) = InSlot(box[n], slot)
      /\ FromSender(n, slot, m) = OfSender(box[n], slot, m)
  BY DEF In, FromSender, InSlot, OfSender
<1> QED  BY <1>1 DEF RoomFor

(* The mailbox a message is filed in is one of its class.                  *)
LEMMA SlotsFit ==
  ASSUME NEW n \in Nodes, NEW m \in Msgs
  PROVE  Fits(m, DepositSlot(m)) /\ Fits(m, ReplicaSlot(n, m))
  BY DEF Fits, DepositSlot, ReplicaSlot, SharedSlot, EpochSlot, TokenSlot

(* A push that goes on has no mailbox until the next peer has found one    *)
(* (_replicate_envelope_to_peers).                                         *)
LEMMA PushForgets ==
  ASSUME TypeOK, NEW m \in Msgs, NEW after,
         \/ \E ok \in BOOLEAN : after = AfterPeer(m, ok)
         \/ after = AfterFailure(m)
         \/ after = NoPush
  PROVE  after.slot = NoSlot
<1>1. push[m] \in PushRecord
  BY DEF TypeOK, PushRecord
<1>2. \A ok \in BOOLEAN : AfterPeer(m, ok).slot = NoSlot
  BY DEF AfterPeer, NoPush
<1>3. [push[m] EXCEPT !.tries = push[m].tries - 1, !.slot = NoSlot].slot = NoSlot
  BY <1>1 DEF PushRecord
<1>4. AfterFailure(m).slot = NoSlot
  <2>1. AfterPeer(m, FALSE).slot = NoSlot
    BY <1>2
  <2> QED  BY <1>3, <2>1 DEF AfterFailure
<1>5. NoPush.slot = NoSlot
  BY DEF NoPush
<1> QED  BY <1>2, <1>4, <1>5

(* Each step keeps the mailboxes within their caps. *)
LEMMA CapStep == TypeOK /\ CapInv /\ [Next]_vars => CapInv'
<1> SUFFICES ASSUME TypeOK, CapInv, [Next]_vars PROVE CapInv'
  OBVIOUS
<1> USE DEF relayVars, pushVars, boundVars, historyVars
<1>0. /\ push \in [Msgs -> PushRecord]
      /\ box \in [Nodes -> SUBSET Entries]
      /\ PollNodes \subseteq Nodes /\ Home \in Nodes
      /\ Origin \in [Msgs -> Nodes]
  BY NetworkAssumption DEF TypeOK, PushRecord
<1>1. \A n \in Nodes : box[n] \subseteq Entries /\ Capped(box[n])
  BY <1>0 DEF CapInv
<1>2. \A m \in Msgs : push[m].slot # NoSlot => Fits(m, push[m].slot)
  BY DEF CapInv, Handled
<1>3. \A n \in Nodes : \A D : D \subseteq box[n] => Capped(D)
  BY <1>1, LessIsCapped
<1>4. ASSUME \A n \in Nodes : Capped(box'[n]),
             \A m \in Msgs : \/ push'[m].slot = push[m].slot
                             \/ push'[m].slot = NoSlot
                             \/ Fits(m, push'[m].slot)
      PROVE  CapInv'
  <2>1. ASSUME NEW m \in Msgs, push'[m].slot # NoSlot PROVE Fits(m, push'[m].slot)
    BY <1>2, <1>4, <2>1
  <2> QED  BY <1>4, <2>1 DEF CapInv, Handled
<1>5. ASSUME UNCHANGED <<box, push>> PROVE CapInv'
  BY <1>1, <1>4, <1>5
<1>6. ASSUME NEW m \in Msgs, Deposit(m) PROVE CapInv'
  <2> DEFINE n == Origin[m]
             slot == DepositSlot(m)
             new == [msg |-> m, slot |-> slot, left |-> TTL]
  <2>1. n \in Nodes /\ Fits(m, slot) /\ slot \in Slots
    BY <1>0, SlotsFit, SlotsTyped DEF DepositSlot
  <2>2. new \in Entries /\ new.msg = m /\ new.slot = slot
    BY <2>1, TimesAssumption, EntryTyped
  <2>3. /\ RoomFor(n, slot, m)
        /\ box' = box \/ box' = [box EXCEPT ![n] = box[n] \cup {new}]
    BY <1>6 DEF Deposit, Accepts
  <2>4. push' = [push EXCEPT ![m] =
           IF Peers(m) = <<>> THEN NoPush
           ELSE [todo |-> Peers(m), tries |-> Attempts(m), slot |-> NoSlot,
                 left |-> IF Holds(n, slot, m)
                          THEN (CHOOSE e \in In(n, slot) : e.msg = m).left ELSE TTL,
                 pushed |-> FALSE]]
    BY <1>6 DEF Deposit
  <2>5. \A k \in Msgs : push'[k].slot = push[k].slot \/ push'[k].slot = NoSlot
    BY <1>0, <2>4 DEF NoPush
  <2> HIDE DEF n, slot, new
  <2>6. Capped(box[n] \cup {new})
    BY <1>1, <2>1, <2>2, <2>3, RoomIsCounted, OneMoreIsCapped
  <2>7. \A k \in Nodes : Capped(box'[k])
    BY <1>0, <1>1, <2>1, <2>3, <2>6
  <2> QED  BY <1>4, <2>5, <2>7
<1>7. ASSUME NEW m \in Msgs, DepositRefused(m) PROVE CapInv'
  BY <1>5, <1>7 DEF DepositRefused
<1>8. ASSUME NEW m \in Msgs, FindSlot(m) PROVE CapInv'
  <2>1. Peer(m) \in Nodes
    BY <1>0, <1>8 DEF FindSlot, Pushing, Peer, PushRecord
  <2>2. Fits(m, ReplicaSlot(Peer(m), m))
    BY <2>1, SlotsFit
  <2>3. \A k \in Msgs : IF k = m THEN push'[k].slot = ReplicaSlot(Peer(m), m)
                        ELSE push'[k] = push[k]
    BY <1>0, <1>8 DEF FindSlot, PushRecord
  <2>4. UNCHANGED box
    BY <1>8 DEF FindSlot
  <2> QED  BY <1>1, <1>4, <2>2, <2>3, <2>4
<1>9. ASSUME NEW m \in Msgs, NEW after,
             \/ \E ok \in BOOLEAN : after = AfterPeer(m, ok)
             \/ after = AfterFailure(m),
             push' = [push EXCEPT ![m] = after]
      PROVE  \A k \in Msgs : push'[k].slot = push[k].slot \/ push'[k].slot = NoSlot
  BY <1>0, <1>9, PushForgets
<1>10. ASSUME NEW m \in Msgs, PushArrives(m) PROVE CapInv'
  <2> DEFINE n == Peer(m)
             slot == push[m].slot
             new == [msg |-> m, slot |-> slot, left |-> push[m].left]
  <2>1. /\ n \in Nodes /\ slot \in Slots /\ Fits(m, slot)
        /\ push[m].left \in 0 .. TTL
    BY <1>0, <1>2, <1>10 DEF PushArrives, Pushing, Peer, Handled, PushRecord
  <2>2. \/ box' = box
        \/ /\ box' = [box EXCEPT ![n] = box[n] \cup {new}]
           /\ RoomFor(n, slot, m) /\ push[m].left # 0
    BY <1>10 DEF PushArrives, AcceptReplica, Takes
  <2>3. \A k \in Msgs : push'[k].slot = push[k].slot \/ push'[k].slot = NoSlot
    <3>1. Takes(m) \in BOOLEAN
      BY DEF Takes, Duplicate, Holds, RoomFor
    <3> QED  BY <1>9, <1>10, <3>1 DEF PushArrives, Answered, Exception
  <2>4. CASE box' = box
    BY <1>1, <1>4, <2>3, <2>4
  <2>5. CASE /\ box' = [box EXCEPT ![n] = box[n] \cup {new}]
             /\ RoomFor(n, slot, m) /\ push[m].left # 0
    <3>1. push[m].left \in 1 .. TTL
      BY <2>1, <2>5, TimesAssumption
    <3>2. new \in Entries /\ new.msg = m /\ new.slot = slot
      BY <2>1, <3>1, EntryTyped
    <3> HIDE DEF n, slot, new
    <3>3. Capped(box[n] \cup {new})
      BY <1>1, <2>1, <2>5, <3>2, RoomIsCounted, OneMoreIsCapped
    <3>4. \A k \in Nodes : Capped(box'[k])
      BY <1>0, <1>1, <2>1, <2>5, <3>3
    <3> QED  BY <1>4, <2>3, <3>4
  <2> QED  BY <2>2, <2>4, <2>5
<1>11. ASSUME NEW m \in Msgs, PushLost(m) PROVE CapInv'
  <2>1. \A k \in Msgs : push'[k].slot = push[k].slot \/ push'[k].slot = NoSlot
    BY <1>9, <1>11 DEF PushLost, Exception
  <2> QED  BY <1>1, <1>4, <1>11, <2>1 DEF PushLost
<1>12. ASSUME NEW n \in PollNodes, NEW purpose \in {"poll", "count"},
              Claim(n, purpose)
       PROVE  CapInv'
  BY <1>5, <1>12 DEF Claim
<1>13. ASSUME \A n \in Nodes : box'[n] \subseteq box[n], UNCHANGED push
       PROVE  CapInv'
  BY <1>3, <1>4, <1>13
<1>14. ASSUME NEW n \in PollNodes, Collect(n) PROVE CapInv'
  <2>1. \A k \in Nodes : box'[k] \subseteq box[k]
    BY <1>0, <1>14 DEF Collect, Remaining
  <2> QED  BY <1>13, <1>14, <2>1 DEF Collect
<1>15. ASSUME NEW n \in PollNodes, Count(n) PROVE CapInv'
  BY <1>5, <1>15 DEF Count
<1>16. ASSUME NEW n \in PollNodes, NEW s \in Senders, Block(n, s) PROVE CapInv'
  <2>1. \A k \in Nodes : box'[k] \subseteq box[k]
    BY <1>0, <1>16 DEF Block
  <2> QED  BY <1>13, <1>16, <2>1 DEF Block
<1>17. ASSUME NEW n \in PollNodes, NEW s \in Senders, Unblock(n, s) PROVE CapInv'
  BY <1>5, <1>17 DEF Unblock
<1>18. ASSUME NEW n \in Nodes, Flush(n) PROVE CapInv'
  BY <1>5, <1>18 DEF Flush
<1>19. ASSUME NEW n \in Nodes, Crash(n) PROVE CapInv'
  <2>1. \A k \in Nodes : box'[k] \subseteq box[k]
    BY <1>0, <1>19 DEF Crash
  <2>2. \A k \in Msgs : \/ push'[k] = push[k]
                        \/ push'[k] = NoPush
                        \/ push'[k] = AfterFailure(k)
    BY <1>19 DEF Crash
  <2>3. \A k \in Msgs : push'[k].slot = push[k].slot \/ push'[k].slot = NoSlot
    BY <2>2, PushForgets
  <2>4. \A k \in Nodes : Capped(box'[k])
    BY <1>3, <2>1
  <2> QED  BY <1>4, <2>3, <2>4
<1>20. CASE Tick
  <2>1. \A k \in Nodes : Capped(box'[k])
    BY <1>1, <1>20, AgedIsCapped DEF Tick
  <2>2. \A k \in Msgs : push'[k].slot = push[k].slot
    <3>1. ASSUME NEW k \in Msgs
          PROVE  [push[k] EXCEPT !.left = push[k].left - 1].slot = push[k].slot
      BY <1>0 DEF PushRecord
    <3> QED  BY <1>20, <3>1 DEF Tick
  <2> QED  BY <1>4, <2>1, <2>2
<1>21. CASE UNCHANGED vars
  BY <1>5, <1>21 DEF vars
<1> QED
  BY <1>6, <1>7, <1>8, <1>10, <1>11, <1>12, <1>14, <1>15, <1>16, <1>17, <1>18,
     <1>19, <1>20, <1>21
  DEF Next, SenderStep, RecipientStep, NodeStep

(* No mailbox of any node outgrows the caps of its senders and of its      *)
(* class, whatever was deposited, replicated, put back, blocked or aged    *)
(* (deposit, accept_replica, _collect_from_keys).                          *)
THEOREM CapsKept == Spec => []CapsHold
<1>1. Init => CapInv
  <2> SUFFICES ASSUME Init PROVE CapInv
    OBVIOUS
  <2>1. \A n \in Nodes : box[n] = {}
    BY DEF Init
  <2>2. Capped({})
    BY FS_EmptySet DEF Capped
  <2>3. \A m \in Msgs : push[m].slot = NoSlot
    BY DEF Init, NoPush
  <2> QED  BY <2>1, <2>2, <2>3 DEF CapInv, Handled
<1>2. TypeOK /\ CapInv /\ [Next]_vars => CapInv'
  BY CapStep
<1>3. CapInv => CapsHold
  <2>1. \A n \in Nodes : \A slot, m :
          /\ In(n, slot) = InSlot(box[n], slot)
          /\ FromSender(n, slot, m) = OfSender(box[n], slot, m)
    BY DEF In, FromSender, InSlot, OfSender
  <2> QED  BY <2>1 DEF CapInv, Capped, CapsHold
<1> QED  BY <1>1, <1>2, <1>3, TypeCorrect, PTL DEF Spec
-------------------------------------------------------------------------------
(* Copies.                                                                 *)

NoFault == losses = 0 /\ crashes = 0

(* A copy of m came to a mailbox of node n at some time, and has not       *)
(* expired, or it was handed out there.                                    *)
Came(n, m) ==
  (\E e \in box[n] : e.msg = m) \/ (n \in PollNodes /\ m \in handed[n])

(* The mailboxes of a node the recipient polls hold one copy of a message  *)
(* at most, and none of what was handed out.                               *)
OneCopy(n) ==
  \A e \in box[n] : /\ e.msg \notin handed[n]
                    /\ \A d \in box[n] : d.msg = e.msg => d.slot = e.slot

(* A message goes once to each node: the peers still to come have not had  *)
(* it, and a message the sender may send again has not come to any node    *)
(* the recipient polls.                                                    *)
OnceInv ==
  /\ again = {}
  /\ \A m \in Msgs : \A i, j \in 1 .. Len(push[m].todo) :
       push[m].todo[i] = push[m].todo[j] => i = j
  /\ \A m \in Msgs : \A i \in 1 .. Len(push[m].todo) : ~Came(push[m].todo[i], m)
  /\ \A m \in Msgs \ Scoped : Sendable(m) =>
       push[m].todo = <<>> /\ \A n \in Nodes : ~Came(n, m)
  /\ \A m \in Scoped : outcome[m] # "delivered" => ~Came(Home, m)
  /\ \A n \in PollNodes : OneCopy(n)

(* A step that brings no copy of anything anywhere, and leaves the pushes  *)
(* their peers, keeps the invariant.                                       *)
LEMMA OnceStays ==
  ASSUME TypeOK, OnceInv, again' = {},
         \A m \in Msgs : push'[m].todo = push[m].todo,
         \A n \in Nodes : \A m \in Msgs : Came(n, m)' => Came(n, m),
         \A m \in Msgs : \/ outcome'[m] = outcome[m]
                         \/ Sendable(m) /\ outcome'[m] = "failed",
         \A n \in PollNodes : OneCopy(n)'
  PROVE  OnceInv'
<1>0. /\ Scoped \subseteq Msgs /\ Home \in Nodes
      /\ push \in [Msgs -> PushRecord]
  BY NetworkAssumption DEF TypeOK, PushRecord
<1>1. ASSUME NEW m \in Msgs, NEW i \in 1 .. Len(push'[m].todo)
      PROVE  /\ \A n : n = push'[m].todo[i] => ~Came(n, m)'
             /\ \A j \in 1 .. Len(push'[m].todo) :
                  push'[m].todo[i] = push'[m].todo[j] => i = j
  <2>1. push[m].todo \in Seq(Nodes) /\ i \in 1 .. Len(push[m].todo)
    BY <1>0, <1>1 DEF PushRecord
  <2>2. push[m].todo[i] \in Nodes
    BY <2>1
  <2>3. ~Came(push[m].todo[i], m)
    BY <2>1 DEF OnceInv
  <2>4. \A j \in 1 .. Len(push[m].todo) :
          push[m].todo[i] = push[m].todo[j] => i = j
    BY <2>1 DEF OnceInv
  <2>5. ASSUME NEW n, n = push'[m].todo[i] PROVE ~Came(n, m)'
    <3>1. n \in Nodes /\ ~Came(n, m)
      BY <2>2, <2>3, <2>5
    <3> QED  BY <3>1
  <2> QED  BY <2>4, <2>5
<1>2. ASSUME NEW m \in Msgs \ Scoped, Sendable(m)'
      PROVE  push'[m].todo = <<>> /\ \A n \in Nodes : ~Came(n, m)'
  <2>1. Sendable(m)
    BY <1>2 DEF Sendable
  <2> QED  BY <2>1 DEF OnceInv
<1>3. ASSUME NEW m \in Scoped, outcome'[m] # "delivered"
      PROVE  ~Came(Home, m)'
  <2>1. outcome[m] # "delivered"
    BY <1>0, <1>3 DEF Sendable
  <2>2. ~Came(Home, m)
    BY <2>1 DEF OnceInv
  <2> QED  BY <1>0, <2>2
<1> QED  BY <1>1, <1>2, <1>3 DEF OnceInv, Came

(* A step that hands nothing out and files nothing new.                    *)
LEMMA NothingComes ==
  ASSUME handed' = handed, NEW n, NEW m,
         \A e \in box'[n] : \E d \in box[n] : d.msg = e.msg,
         Came(n, m)'
  PROVE  Came(n, m)
  BY DEF Came

(* Each step without a fault keeps the invariant of copies.                *)
LEMMA OnceStep ==
  ASSUME \A m \in Scoped : Origin[m] \notin PollNodes,
         TypeOK, DeliveredInv, OnceInv, NoFault, NoFault', [Next]_vars
  PROVE  OnceInv'
<1> USE DEF relayVars, pushVars, boundVars, historyVars
<1>0. /\ PollNodes \subseteq Nodes /\ Home \in PollNodes
      /\ Scoped \subseteq Msgs
      /\ Origin \in [Msgs -> Nodes]
      /\ box \in [Nodes -> SUBSET Entries]
      /\ handed \in [PollNodes -> SUBSET Msgs]
      /\ push \in [Msgs -> PushRecord]
      /\ outcome \in [Msgs -> Outcomes]
  BY NetworkAssumption DEF TypeOK, PushRecord
<1>1. again = {} /\ \A n \in PollNodes : OneCopy(n)
  BY DEF OnceInv
<1>2. ASSUME handed' = handed, again' = again, outcome' = outcome,
             \A m \in Msgs : push'[m].todo = push[m].todo,
             \A n \in Nodes : box'[n] \subseteq box[n]
      PROVE  OnceInv'
  <2>1. \A n \in Nodes : \A m \in Msgs : Came(n, m)' => Came(n, m)
    BY <1>2 DEF Came
  <2>2. \A n \in PollNodes : OneCopy(n)'
    BY <1>0, <1>1, <1>2 DEF OneCopy
  <2> QED  BY <1>1, <1>2, <2>1, <2>2, OnceStays
<1>3. ASSUME NEW m \in Msgs, Deposit(m) PROVE OnceInv'
  <2> DEFINE o == Origin[m]
             slot == DepositSlot(m)
             new == [msg |-> m, slot |-> slot, left |-> TTL]
  <2>0. o \in Nodes /\ Sendable(m) /\ handed' = handed /\ again' = again
    BY <1>0, <1>3 DEF Deposit
  <2>1. /\ new.msg = m /\ new.slot = slot
        /\ \A n \in Nodes \ {o} : box'[n] = box[n]
        /\ box'[o] = box[o] \/ box'[o] = box[o] \cup {new}
    BY <1>0, <1>3 DEF Deposit
  <2>2. /\ push'[m].todo = Peers(m)
        /\ \A k \in Msgs \ {m} : push'[k] = push[k]
    BY <1>0, <1>3 DEF Deposit, NoPush
  <2>3. /\ outcome'[m] = IF m \in Scoped THEN "pushing" ELSE "delivered"
        /\ \A k \in Msgs \ {m} : outcome'[k] = outcome[k]
    BY <1>0, <1>3 DEF Deposit
  <2> HIDE DEF o, slot, new
  <2>4. ASSUME NEW n \in Nodes, NEW k \in Msgs, n # o \/ k # m
        PROVE  Came(n, k)' <=> Came(n, k)
    BY <2>0, <2>1, <2>4 DEF Came
  <2>5. ASSUME NEW n \in PollNodes PROVE OneCopy(n)'
    <3>1. CASE box'[n] = box[n]
      BY <1>1, <2>0, <3>1 DEF OneCopy
    <3>2. CASE box'[n] # box[n]
      <4>1. n = o /\ box'[n] = box[n] \cup {new}
        BY <1>0, <2>1, <3>2
      <4>2. m \notin Scoped
        BY <4>1 DEF o
      <4>3. ~Came(n, m)
        BY <1>0, <2>0, <4>2 DEF OnceInv
      <4>4. m \notin handed[n] /\ \A e \in box[n] : e.msg # m
        BY <4>3 DEF Came
      <4> QED  BY <1>1, <2>0, <2>1, <4>1, <4>4 DEF OneCopy
    <3> QED  BY <3>1, <3>2
  <2>6. /\ \A i, j \in 1 .. Len(Peers(m)) : Peers(m)[i] = Peers(m)[j] => i = j
        /\ \A i \in 1 .. Len(Peers(m)) :
             Peers(m)[i] \in Nodes /\ Peers(m)[i] # o /\ ~Came(Peers(m)[i], m)
    <3>1. CASE m \in Scoped
      <4>1. Peers(m) = <<Home>> /\ Home # o
        BY <3>1, NetworkAssumption DEF Peers, o
      <4>2. ~Came(Home, m)
        BY <2>0, <3>1 DEF Sendable, OnceInv
      <4> QED  BY <1>0, <4>1, <4>2
    <3>2. CASE m \notin Scoped
      <4>1. Peers(m) = Fleet[o] /\ Fleet[o] \in Seq(Nodes)
        BY <2>0, <3>2, NetworkAssumption DEF Peers, o
      <4>2. \A n \in Nodes : ~Came(n, m)
        BY <2>0, <3>2 DEF OnceInv
      <4>3. \A i \in 1 .. Len(Fleet[o]) : Fleet[o][i] \in Nodes
        BY <4>1
      <4>4. /\ \A i \in 1 .. Len(Fleet[o]) : Fleet[o][i] # o
            /\ \A i, j \in 1 .. Len(Fleet[o]) : Fleet[o][i] = Fleet[o][j] => i = j
        BY <2>0, NetworkAssumption
      <4> QED  BY <4>1, <4>2, <4>3, <4>4
    <3> QED  BY <3>1, <3>2
  <2>7. ASSUME NEW k \in Msgs
        PROVE  /\ \A i, j \in 1 .. Len(push'[k].todo) :
                    push'[k].todo[i] = push'[k].todo[j] => i = j
               /\ \A i \in 1 .. Len(push'[k].todo) :
                    \A n : n = push'[k].todo[i] => ~Came(n, k)'
    <3>1. CASE k = m
      <4>1. ASSUME NEW i \in 1 .. Len(Peers(m)), NEW n, n = Peers(m)[i]
            PROVE  ~Came(n, m)'
        <5>1. n \in Nodes /\ n # o /\ ~Came(n, m)
          BY <2>6, <4>1
        <5> QED  BY <2>4, <5>1
      <4> QED  BY <2>2, <2>6, <3>1, <4>1
    <3>2. CASE k # m
      <4>1. push'[k] = push[k]
        BY <2>2, <3>2
      <4>2. ASSUME NEW i \in 1 .. Len(push[k].todo),
                   NEW n, n = push[k].todo[i]
            PROVE  ~Came(n, k)'
        <5>1. n \in Nodes /\ ~Came(n, k)
          BY <1>0, <4>2 DEF PushRecord, OnceInv
        <5> QED  BY <2>4, <3>2, <5>1
      <4> QED  BY <4>1, <4>2 DEF OnceInv
    <3> QED  BY <3>1, <3>2
  <2>8. ASSUME NEW k \in Msgs \ Scoped, Sendable(k)'
        PROVE  push'[k].todo = <<>> /\ \A n \in Nodes : ~Came(n, k)'
    <3>1. k # m
      BY <2>3, <2>8 DEF Sendable
    <3>2. Sendable(k)
      BY <2>3, <2>8, <3>1 DEF Sendable
    <3> QED  BY <2>2, <2>4, <2>8, <3>1, <3>2 DEF OnceInv
  <2>9. ASSUME NEW k \in Scoped, outcome'[k] # "delivered"
        PROVE  ~Came(Home, k)'
    <3>1. outcome[k] # "delivered"
      BY <1>0, <2>0, <2>3, <2>9 DEF Sendable
    <3>2. ~Came(Home, k)
      BY <3>1 DEF OnceInv
    <3>3. Home # o \/ k # m
      BY NetworkAssumption DEF o
    <3> QED  BY <1>0, <2>4, <3>2, <3>3
  <2> QED  BY <1>1, <2>0, <2>5, <2>7, <2>8, <2>9 DEF OnceInv, Came
<1>4. ASSUME NEW m \in Msgs, DepositRefused(m) PROVE OnceInv'
  <2>1. /\ handed' = handed /\ again' = again /\ box' = box /\ push' = push
        /\ \A k \in Msgs : \/ outcome'[k] = outcome[k]
                           \/ Sendable(k) /\ outcome'[k] = "failed"
    BY <1>0, <1>4 DEF DepositRefused
  <2>2. \A n \in Nodes : \A k \in Msgs : Came(n, k)' => Came(n, k)
    BY <2>1 DEF Came
  <2>3. \A n \in PollNodes : OneCopy(n)'
    BY <1>1, <2>1 DEF OneCopy
  <2> QED  BY <1>1, <2>1, <2>2, <2>3, OnceStays
<1>5. ASSUME NEW m \in Msgs, FindSlot(m) PROVE OnceInv'
  <2>1. \A k \in Msgs : push'[k].todo = push[k].todo
    BY <1>0, <1>5 DEF FindSlot, PushRecord
  <2> QED  BY <1>2, <1>5, <2>1 DEF FindSlot
<1>6. ASSUME NEW m \in Msgs, PushLost(m) PROVE FALSE
  BY <1>6 DEF PushLost, Exception, NoFault, TypeOK
<1>7. ASSUME NEW m \in Msgs, PushArrives(m) PROVE OnceInv'
  <2> DEFINE p == Peer(m)
             todo == push[m].todo
             new == [msg |-> m, slot |-> push[m].slot, left |-> push[m].left]
             ok == Takes(m)
  <2>0. /\ handed' = handed /\ again' = again /\ ok \in BOOLEAN
        /\ Answered(m, ok)
    <3>1. ~Exception(m)
      BY DEF Exception, NoFault, TypeOK
    <3>2. Takes(m) \in BOOLEAN
      BY DEF Takes, Duplicate, Holds, RoomFor
    <3> QED  BY <1>7, <3>1, <3>2 DEF PushArrives
  <2>1. /\ todo \in Seq(Nodes) /\ todo # <<>> /\ p = todo[1] /\ p \in Nodes
        /\ 1 \in 1 .. Len(todo)
    BY <1>0, <1>7 DEF PushArrives, Pushing, Peer, PushRecord
  <2>2. ~Came(p, m)
    BY <2>1 DEF OnceInv
  <2>3. /\ new.msg = m
        /\ \A n \in Nodes \ {p} : box'[n] = box[n]
        /\ box'[p] = box[p] \/ box'[p] = box[p] \cup {new}
        /\ ~ok => box'[p] = box[p]
    BY <1>0, <1>7, <2>1 DEF PushArrives, AcceptReplica
  <2>4. /\ push'[m].todo \in {<<>>, Tail(todo)}
        /\ \A k \in Msgs \ {m} : push'[k] = push[k]
    BY <1>0, <2>0 DEF Answered, AfterPeer, NoPush
  <2>5. /\ outcome'[m] = OutcomeAfterPeer(m, ok)
        /\ \A k \in Msgs \ {m} : outcome'[k] = outcome[k]
    BY <1>0, <2>0 DEF Answered
  <2>6. m \in Scoped =>
          p = Home /\ outcome'[m] = IF ok THEN "delivered" ELSE "failed"
    BY <1>7, <2>0, <2>5, ScopedPush DEF PushArrives
  <2>7. m \notin Scoped => outcome'[m] = outcome[m]
    BY <2>5 DEF OutcomeAfterPeer
  <2> HIDE DEF p, todo, new, ok
  <2>8. ASSUME NEW n \in Nodes, NEW k \in Msgs, n # p \/ k # m
        PROVE  Came(n, k)' <=> Came(n, k)
    BY <2>0, <2>3, <2>8 DEF Came
  <2>9. ASSUME NEW n \in PollNodes PROVE OneCopy(n)'
    <3>1. CASE box'[n] = box[n]
      BY <1>1, <2>0, <3>1 DEF OneCopy
    <3>2. CASE box'[n] # box[n]
      <4>1. n = p /\ box'[n] = box[n] \cup {new}
        BY <1>0, <2>3, <3>2
      <4>2. m \notin handed[n] /\ \A e \in box[n] : e.msg # m
        BY <2>2, <4>1 DEF Came
      <4> QED  BY <1>1, <2>0, <2>3, <4>1, <4>2 DEF OneCopy
    <3> QED  BY <3>1, <3>2
  <2>10. \A i \in 1 .. Len(push'[m].todo) :
           i + 1 \in 1 .. Len(todo) /\ push'[m].todo[i] = todo[i + 1]
    BY <2>1, <2>4
  <2>11. ASSUME NEW k \in Msgs
         PROVE  /\ \A i, j \in 1 .. Len(push'[k].todo) :
                     push'[k].todo[i] = push'[k].todo[j] => i = j
                /\ \A i \in 1 .. Len(push'[k].todo) :
                    \A n : n = push'[k].todo[i] => ~Came(n, k)'
    <3>1. CASE k = m
      <4>1. \A i, j \in 1 .. Len(todo) : todo[i] = todo[j] => i = j
        BY DEF OnceInv, todo
      <4>2. ASSUME NEW i \in 1 .. Len(push'[m].todo),
                   NEW n, n = push'[m].todo[i]
            PROVE  ~Came(n, m)'
        <5>1. n = todo[i + 1] /\ i + 1 \in 1 .. Len(todo) /\ i \in Nat \ {0}
          BY <2>10, <4>2
        <5>2. n \in Nodes
          BY <2>1, <5>1
        <5>3. n # p
          BY <2>1, <4>1, <5>1
        <5>4. ~Came(n, m)
          BY <5>1 DEF OnceInv, todo
        <5> QED  BY <2>8, <5>2, <5>3, <5>4
      <4>3. \A i, j \in 1 .. Len(push'[m].todo) :
              push'[m].todo[i] = push'[m].todo[j] => i = j
        <5>1. Len(push'[m].todo) \in Nat
          BY <2>1, <2>4
        <5> QED  BY <2>10, <4>1, <5>1
      <4> QED  BY <3>1, <4>2, <4>3
    <3>2. CASE k # m
      <4>1. push'[k] = push[k]
        BY <2>4, <3>2
      <4>2. ASSUME NEW i \in 1 .. Len(push[k].todo),
                   NEW n, n = push[k].todo[i]
            PROVE  ~Came(n, k)'
        <5>1. n \in Nodes /\ ~Came(n, k)
          BY <1>0, <4>2 DEF PushRecord, OnceInv
        <5> QED  BY <2>8, <3>2, <5>1
      <4> QED  BY <4>1, <4>2 DEF OnceInv
    <3> QED  BY <3>1, <3>2
  <2>12. ASSUME NEW k \in Msgs \ Scoped, Sendable(k)'
         PROVE  push'[k].todo = <<>> /\ \A n \in Nodes : ~Came(n, k)'
    <3>1. Sendable(k)
      BY <2>5, <2>7, <2>12 DEF Sendable
    <3>2. push[k].todo = <<>> /\ \A n \in Nodes : ~Came(n, k)
      BY <2>12, <3>1 DEF OnceInv
    <3>3. k # m
      BY <2>1, <3>2 DEF todo
    <3> QED  BY <2>4, <2>8, <2>12, <3>2, <3>3
  <2>13. ASSUME NEW k \in Scoped, outcome'[k] # "delivered"
         PROVE  ~Came(Home, k)'
    <3>1. CASE k = m
      <4>1. p = Home /\ ~ok
        BY <2>6, <2>13, <3>1
      <4>2. box'[Home] = box[Home] /\ ~Came(Home, m)
        BY <2>2, <2>3, <4>1
      <4> QED  BY <2>0, <3>1, <4>2 DEF Came
    <3>2. CASE k # m
      <4>1. ~Came(Home, k)
        BY <1>0, <2>5, <2>13, <3>2 DEF OnceInv
      <4> QED  BY <1>0, <2>8, <3>2, <4>1
    <3> QED  BY <3>1, <3>2
  <2> QED  BY <1>1, <2>0, <2>9, <2>11, <2>12, <2>13 DEF OnceInv, Came
<1>8. ASSUME NEW n \in PollNodes, NEW purpose \in {"poll", "count"},
             Claim(n, purpose)
      PROVE  OnceInv'
  BY <1>2, <1>8 DEF Claim
<1>9. ASSUME NEW n \in PollNodes, Collect(n) PROVE OnceInv'
  <2>1. PICK batch \in Batches(n) :
          /\ box' = [box EXCEPT ![n] = Remaining(n, batch)]
          /\ handed' = [handed EXCEPT ![n] = @ \cup batch]
          /\ again' = again \cup (batch \cap handed[n])
    BY <1>9 DEF Collect
  <2>2. \A m \in batch : \E d \in Available(n) : d.msg = m
    BY DEF Batches, MsgsOf
  <2>3. \A m \in batch : \E d \in box[n] :
          d.msg = m /\ d.slot \in ClaimedSlots(n)
    BY <2>2 DEF Available
  <2>4. again' = {}
    BY <1>1, <2>1, <2>3 DEF OneCopy
  <2>5. \A e \in box'[n] : e \in box[n] /\ e.msg \notin batch
    BY <1>0, <1>1, <2>1, <2>3 DEF Remaining, OneCopy
  <2>6. ASSUME NEW k \in Nodes, NEW m \in Msgs, Came(k, m)' PROVE Came(k, m)
    BY <1>0, <2>1, <2>3, <2>5, <2>6 DEF Came
  <2>7. ASSUME NEW k \in PollNodes PROVE OneCopy(k)'
    <3>1. CASE k = n
      BY <1>0, <1>1, <2>1, <2>5, <3>1 DEF OneCopy
    <3>2. CASE k # n
      <4>1. box'[k] = box[k] /\ handed'[k] = handed[k]
        BY <1>0, <2>1, <3>2
      <4> QED  BY <1>1, <4>1 DEF OneCopy
    <3> QED  BY <3>1, <3>2
  <2> QED  BY <1>9, <2>4, <2>6, <2>7, OnceStays DEF Collect
<1>10. ASSUME NEW n \in PollNodes, Count(n) PROVE OnceInv'
  BY <1>2, <1>10 DEF Count
<1>11. ASSUME NEW n \in PollNodes, NEW s \in Senders, Block(n, s)
       PROVE  OnceInv'
  <2>1. \A k \in Nodes : box'[k] \subseteq box[k]
    BY <1>0, <1>11 DEF Block
  <2> QED  BY <1>2, <1>11, <2>1 DEF Block
<1>12. ASSUME NEW n \in PollNodes, NEW s \in Senders, Unblock(n, s)
       PROVE  OnceInv'
  BY <1>2, <1>12 DEF Unblock
<1>13. CASE Tick
  <2>1. ASSUME NEW n \in Nodes, NEW e \in box'[n]
        PROVE  \E d \in box[n] : d.msg = e.msg /\ e.slot = Older(d.slot)
    <3>1. PICK d \in box[n] :
            e = [d EXCEPT !.left = d.left - 1, !.slot = Older(d.slot)]
      BY <1>13, <2>1 DEF Tick, Aged
    <3>2. d \in Entries
      BY <1>0
    <3>3. e.msg = d.msg /\ e.slot = Older(d.slot)
      BY <3>1, <3>2 DEF Entries
    <3> QED  BY <3>3
  <2>2. handed' = handed /\ again' = again /\ outcome' = outcome
    BY <1>13 DEF Tick
  <2>3. \A n \in Nodes : \A m \in Msgs : Came(n, m)' => Came(n, m)
    BY <2>1, <2>2, NothingComes
  <2>4. \A n \in PollNodes : OneCopy(n)'
    BY <1>0, <1>1, <2>1, <2>2 DEF OneCopy
  <2>5. \A m \in Msgs : push'[m].todo = push[m].todo
    BY <1>0, <1>13 DEF Tick, PushRecord
  <2> QED  BY <1>1, <2>2, <2>3, <2>4, <2>5, OnceStays
<1>14. ASSUME NEW n \in Nodes, Flush(n) PROVE OnceInv'
  BY <1>2, <1>14 DEF Flush
<1>15. ASSUME NEW n \in Nodes, Crash(n) PROVE FALSE
  BY <1>15 DEF Crash, NoFault, TypeOK
<1>16. CASE UNCHANGED vars
  BY <1>2, <1>16 DEF vars
<1> QED
  BY <1>3, <1>4, <1>5, <1>6, <1>7, <1>8, <1>9, <1>10, <1>11, <1>12, <1>13,
     <1>14, <1>15, <1>16
  DEF Next, SenderStep, RecipientStep, NodeStep

(* Faults are only ever counted up (the history of losses and crashes).    *)
LEMMA FaultsStay == TypeOK /\ [Next]_vars /\ NoFault' => NoFault
<1> SUFFICES ASSUME TypeOK, [Next]_vars PROVE NoFault' => NoFault
  OBVIOUS
<1>1. losses \in Nat /\ crashes \in Nat
  BY LimitsAssumption DEF TypeOK
<1>2. /\ losses' = losses \/ losses' = losses + 1
      /\ crashes' = crashes \/ crashes' = crashes + 1
  BY DEF Next, SenderStep, RecipientStep, NodeStep, Deposit, DepositRefused,
     FindSlot, PushArrives, PushLost, Answered, Exception, Claim, Collect,
     Count, Block, Unblock, Tick, Flush, Crash, vars, boundVars
<1> QED  BY <1>1, <1>2 DEF NoFault

(* Without lost answers and crashes no node hands the recipient a message  *)
(* twice, provided scoped messages come from nodes the recipient does not  *)
(* poll: a retry at a polled node would file a second copy of what was     *)
(* read there already.                                                     *)
THEOREM HandedOnce ==
  ASSUME \A m \in Scoped : Origin[m] \notin PollNodes
  PROVE  Spec => []HandedOutOnce
<1> DEFINE Inv == DeliveredInv /\ (NoFault => OnceInv)
<1>1. Init => Inv
  <2>1. Init => DeliveredInv
    BY NetworkAssumption DEF Init, DeliveredInv, DeliveredIsKept, NoPush
  <2>2. Init => OnceInv
    BY NetworkAssumption DEF Init, OnceInv, NoPush, Came, OneCopy
  <2> QED  BY <2>1, <2>2
<1>2. TypeOK /\ Inv /\ [Next]_vars => Inv'
  BY DeliveredStep, FaultsStay, OnceStep
<1>3. Inv => HandedOutOnce
  BY DEF OnceInv, NoFault, HandedOutOnce
<1> QED  BY <1>1, <1>2, <1>3, TypeCorrect, PTL DEF Spec
===============================================================================
