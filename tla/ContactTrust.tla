------------------------------ MODULE ContactTrust ------------------------------
(* How far a node trusts one contact.  Every prekey bundle that is seen of the  *)
(* contact is held against the key and the stable root that were pinned; the    *)
(* user raises the trust by an invite or by comparing a phrase (SAS), and       *)
(* settles a change that was noticed.  The contacts are one file, and every     *)
(* operation reads it, changes one contact and writes it back, without a lock:  *)
(* the request handlers run one after another, the release worker's thread      *)
(* (which commits an alias rotation) between any two of them.                   *)
EXTENDS Naturals

CONSTANTS
    Keys,           \* fingerprints of the contact's identity key
    Roots,          \* fingerprints of stable roots
    Bundles,        \* the bundles that may be seen: key, root or None, place in the
                    \* sender's sequence, head and size of the transparency log
    RaceLevels      \* bound of the model: the levels of trust at which the release
                    \* worker reads the contact, to write it back

None == "none"

ASSUME ContactAssumption ==
    /\ None \notin Keys \cup Roots
    /\ Bundles \subseteq [key : Keys, root : Roots \cup {None},
                          seq : Nat, head : Nat, size : Nat]
    /\ RaceLevels \subseteq {"unpinned", "tofu_pinned", "invite_pinned", "sas_verified",
                              "mismatch", "continuity_broken"}

VARIABLES
    contact,        \* the contact, as the file has it
    compose,        \* a message being composed: the key of its bundle, or None
    copy,           \* {}, or the contact as the worker has read it
    vouched,        \* history: keys the user vouched for (invite, SAS, recovery)
    written,        \* history: keys a first message was encrypted to
    forgot,         \* history: a root's change, noticed once, is marked no longer
    undone          \* history: the worker has written back a contact changed since

contactVars == <<contact, compose, copy, vouched, written, forgot, undone>>

Verified == {"invite_pinned", "sas_verified"}
Alarmed == {"mismatch", "continuity_broken"}
TrustLevels == {"unpinned", "tofu_pinned"} \cup Verified \cup Alarmed

(* pin, root: what is pinned (remotePrekeyFingerprint, ...RootFingerprint);      *)
(* seen, seenRoot: what was observed last; invite, inviteRoot: the invite's;     *)
(* differs, rootDiffers: the mismatch flags; seq, head, size: the transparency   *)
(* record, 0 for none; dh: there is a key to derive the phrase from.             *)
DefaultContact ==
    [trust |-> "unpinned", pin |-> None, root |-> None, seen |-> None,
     seenRoot |-> None, invite |-> None, inviteRoot |-> None, differs |-> FALSE,
     rootDiffers |-> FALSE, dh |-> FALSE, seq |-> 0, head |-> 0, size |-> 0]

ContactInit ==
    /\ contact = DefaultContact
    /\ compose = None /\ copy = {}
    /\ vouched = {} /\ written = {}
    /\ forgot = FALSE /\ undone = FALSE

--------------------------------------------------------------------------------
(* observe_remote_prekey_identity.                                              *)

(* The bundle's transparency record contradicts the one on file.                *)
Conflict(c, b) ==
    /\ b.head # 0
    /\ \/ 0 < b.seq /\ b.seq < c.seq
       \/ 0 < b.seq /\ b.seq = c.seq /\ c.head # 0 /\ b.head # c.head
       \/ 0 < b.size /\ b.size < c.size

(* The observation is noted, and a pin that is missing taken from the invite.   *)
Noted(c, b) ==
    [c EXCEPT
        !.seen = b.key,
        !.seenRoot = IF b.root # None THEN b.root ELSE @,
        !.seq = IF Conflict(c, b) THEN @ ELSE b.seq,
        !.head = IF b.head # 0 /\ ~Conflict(c, b) THEN b.head ELSE @,
        !.size = IF b.head # 0 /\ ~Conflict(c, b) THEN b.size ELSE @,
        !.pin = IF @ = None THEN c.invite ELSE @,
        !.root = IF @ = None THEN c.inviteRoot ELSE @]

Adopted(root, b) == IF b.root # None THEN b.root ELSE root

(* First sight: the key is pinned, whoever it belongs to.                       *)
FirstSeen(c, b) ==
    [Noted(c, b) EXCEPT !.pin = b.key, !.root = Adopted(@, b), !.differs = FALSE,
                        !.rootDiffers = FALSE, !.trust = "tofu_pinned"]

(* The pinned key under the pinned root: the level stays, an alarm too, unless  *)
(* the transparency record contradicts.                                         *)
Unchanged(c, b) ==
    LET p == Noted(c, b) IN
    p.pin = b.key /\ (p.root = None \/ b.root = None \/ p.root = b.root)

(* Mutant: the pinned key clears an alarm.                                      *)
AlarmCleared(c, b) ==
    IF Conflict(c, b) THEN (IF c.trust \in Verified THEN "continuity_broken" ELSE "mismatch")
    ELSE IF c.trust \in Verified THEN c.trust ELSE "tofu_pinned"
LevelKept(c, b) ==
    IF Conflict(c, b) THEN (IF c.trust \in Verified THEN "continuity_broken" ELSE "mismatch")
    ELSE IF c.trust # "unpinned" THEN c.trust
    ELSE IF c.invite = b.key THEN "invite_pinned" ELSE "tofu_pinned"

SameSeen(c, b) ==
    LET alarm == c.trust \in Alarmed /\ ~Conflict(c, b) IN
    [Noted(c, b) EXCEPT !.root = Adopted(@, b), !.trust = LevelKept(c, b),
                        !.differs = alarm \/ Conflict(c, b),
                        !.rootDiffers = alarm /\ c.rootDiffers]

(* Mutant: a contact nobody verified is not alarmed about.                      *)
VerifiedOnly(c) == IF c.trust \in Verified THEN "continuity_broken" ELSE c.trust
LevelLost(c) ==
    IF c.trust \in Verified \/ c.inviteRoot # None THEN "continuity_broken" ELSE "mismatch"

(* Another key, or another root: what was pinned stays, the trust is lost.      *)
OtherSeen(c, b) ==
    LET p == Noted(c, b) IN
    [p EXCEPT !.root = IF @ = None THEN b.root ELSE @,
              !.trust = LevelLost(c),
              !.differs = p.pin # b.key,
              !.rootDiffers = b.root # None /\ p.root # None /\ p.root # b.root]

Observed(c, b) ==
    IF Noted(c, b).pin = None THEN FirstSeen(c, b)
    ELSE IF Unchanged(c, b) THEN SameSeen(c, b) ELSE OtherSeen(c, b)

(* A root's change is marked, and then not any more though nobody settled it.   *)
Forgets(c, d) == c.rootDiffers /\ ~d.rootDiffers /\ d.trust \in Alarmed

Observe(b) ==
    /\ contact' = Observed(contact, b)
    /\ forgot' = (forgot \/ Forgets(contact, contact'))
    /\ UNCHANGED <<vouched, undone>>

--------------------------------------------------------------------------------
(* Composing a first message: the bundle is observed, unless it is the one of   *)
(* the invite, and then the trust decides.                                      *)

MatchesInvite(c, b) == c.trust = "invite_pinned" /\ c.pin = b.key

ComposeStart(b) ==
    /\ compose = None
    /\ compose' = b.key
    /\ IF MatchesInvite(contact, b)
       THEN UNCHANGED <<contact, vouched, forgot, undone>>
       ELSE Observe(b)
    /\ UNCHANGED <<copy, written>>

(* Mutant: a contact that is merely pinned may be written to.                   *)
PinnedEnough(c) == c.trust \in Verified \cup {"tofu_pinned"}
FirstContactAllowed(c) == c.trust \in Verified

ComposeEnd ==
    /\ compose # None
    /\ written' = IF FirstContactAllowed(contact) THEN written \cup {compose} ELSE written
    /\ compose' = None
    /\ UNCHANGED <<contact, copy, vouched, forgot, undone>>

--------------------------------------------------------------------------------
(* What the user does.  A handler runs while no message is being composed.      *)

(* pin_wormhole_dm_invite; the root, the pins and the flags are the invite's.   *)
Pinned(c, k, r, attested, dh) ==
    [c EXCEPT !.pin = k, !.seen = k, !.root = r, !.seenRoot = r,
              !.differs = FALSE, !.rootDiffers = FALSE, !.dh = dh,
              !.invite = IF attested THEN k ELSE None,
              !.inviteRoot = IF attested THEN r ELSE None,
              !.trust = IF attested THEN "invite_pinned" ELSE "tofu_pinned"]

Settle(c) ==
    /\ compose = None
    /\ contact' = c
    /\ forgot' = (forgot /\ c.trust \in Alarmed)
    /\ UNCHANGED <<compose, copy, written, undone>>

AnchorRoot(c) == IF c.inviteRoot # None THEN c.inviteRoot ELSE c.root

(* A current invite whose prekey bundle was fetched: under another root than    *)
(* the known one it only counts as an observation.                              *)
ImportInvite(k, r) ==
    IF AnchorRoot(contact) \in {None, r}
    THEN Settle(Pinned(contact, k, r, TRUE, TRUE)) /\ vouched' = vouched \cup {k}
    ELSE /\ compose = None
         /\ \E s \in {b.seq : b \in Bundles} :
               Observe([key |-> k, root |-> r, seq |-> s, head |-> 0, size |-> 0])
         /\ UNCHANGED <<compose, copy, written>>

(* One whose bundle is not to be had yet is pinned as it stands.                *)
ImportPending(k, r) ==
    Settle(Pinned(contact, k, r, TRUE, FALSE)) /\ vouched' = vouched \cup {k}

(* One of an earlier version, where these are let in.                           *)
ImportLegacy(k) ==
    Settle(Pinned(contact, k, None, FALSE, TRUE)) /\ UNCHANGED vouched

(* The client stores the key the phrase is derived from (dhPubKey).             *)
StoreDhKey ==
    /\ ~contact.dh
    /\ Settle([contact EXCEPT !.dh = TRUE])
    /\ UNCHANGED vouched

(* confirm_sas_verification, with the phrase that is expected.                  *)
ConfirmSas ==
    /\ contact.pin # None /\ contact.dh
    /\ contact.trust \notin Alarmed
    /\ Settle([contact EXCEPT !.trust = "sas_verified", !.differs = FALSE,
                              !.rootDiffers = FALSE])
    /\ vouched' = vouched \cup {contact.pin}

(* recover_verified_root_continuity: the bundle, fetched again, is still the    *)
(* one that was observed, and the phrase is the expected one.                   *)
RecoverOffered(c) ==
    /\ c.trust = "continuity_broken" /\ c.rootDiffers
    /\ c.seen # None /\ c.seenRoot # None

RecoverRoot ==
    /\ RecoverOffered(contact)
    /\ \E b \in Bundles : b.key = contact.seen /\ b.root = contact.seenRoot
    /\ Settle([contact EXCEPT !.trust = "sas_verified", !.pin = contact.seen,
                              !.root = contact.seenRoot, !.differs = FALSE,
                              !.rootDiffers = FALSE, !.invite = None,
                              !.inviteRoot = None, !.dh = TRUE])
    /\ vouched' = vouched \cup {contact.seen}

(* acknowledge_changed_fingerprint.                                             *)
(* Mutant: a change of the root may be acknowledged like one of the key.        *)
KeyAcknowledgeable(c) == c.trust \in Alarmed /\ c.seen # None
Acknowledgeable(c) ==
    /\ c.trust \in Alarmed /\ c.seen # None
    /\ c.invite \in {None, c.seen}
    /\ ~c.rootDiffers
    /\ c.inviteRoot = None \/ c.seenRoot \in {None, c.inviteRoot}

(* Mutant: what was verified stays verified.                                    *)
AcknowledgedVerified(c) == [c EXCEPT !.pin = c.seen, !.trust = "sas_verified"]
Acknowledged(c) ==
    [c EXCEPT !.pin = c.seen, !.differs = FALSE, !.rootDiffers = FALSE,
              !.root = IF c.seenRoot # None THEN c.seenRoot ELSE @,
              !.trust = "tofu_pinned"]

Acknowledge ==
    /\ Acknowledgeable(contact)
    /\ Settle(Acknowledged(contact))
    /\ UNCHANGED vouched

Delete == Settle(DefaultContact) /\ UNCHANGED vouched

UserActs ==
    \/ \E k \in Keys : ImportLegacy(k) \/ \E r \in Roots : ImportInvite(k, r) \/ ImportPending(k, r)
    \/ StoreDhKey \/ ConfirmSas \/ RecoverRoot \/ Acknowledge \/ Delete

--------------------------------------------------------------------------------
(* The release worker commits an alias rotation: it reads all contacts, and     *)
(* writes them all back with new alias fields (a bound: at most once stale).     *)

WorkerReads ==
    /\ contact.trust \in RaceLevels /\ ~undone /\ copy = {}
    /\ copy' = {contact}
    /\ UNCHANGED <<contact, compose, vouched, written, forgot, undone>>

WorkerWrites ==
    /\ contact' \in copy /\ copy' = {}
    /\ undone' = (undone \/ contact' # contact)
    /\ UNCHANGED <<compose, vouched, written, forgot>>

ContactNext ==
    \/ \E b \in Bundles : ComposeStart(b)
    \/ ComposeEnd \/ UserActs \/ WorkerReads \/ WorkerWrites

ContactSpec == ContactInit /\ [][ContactNext]_contactVars

--------------------------------------------------------------------------------
(* Properties.                                                                  *)

(* Types of the variables; a contact that has any trust has a pin, and the marks*)
(* of a change go with an alarm.                                                *)
ContactType ==
    [trust : TrustLevels, pin : Keys \cup {None}, root : Roots \cup {None},
     seen : Keys \cup {None}, seenRoot : Roots \cup {None},
     invite : Keys \cup {None}, inviteRoot : Roots \cup {None},
     differs : BOOLEAN, rootDiffers : BOOLEAN, dh : BOOLEAN,
     seq : Nat, head : Nat, size : Nat]

ContactTypeOK ==
    /\ contact \in ContactType /\ copy \subseteq ContactType
    /\ compose \in Keys \cup {None}
    /\ vouched \subseteq Keys /\ written \subseteq Keys
    /\ forgot \in BOOLEAN /\ undone \in BOOLEAN
    /\ \A c \in {contact} \cup copy :
          /\ c.trust # "unpinned" => c.pin # None
          /\ c.differs \/ c.rootDiffers => c.trust \in Alarmed

(* While there is no alarm, the key and the root that were seen last are the    *)
(* pinned ones: no sequence of observations, invites, acknowledgements and      *)
(* stale writes hides a change behind a calm level.                             *)
CalmMeansSeenIsPinned ==
    contact.trust \notin Alarmed =>
        /\ contact.seen \in {None, contact.pin}
        /\ contact.seenRoot \in {None, contact.root}

(* A verified level is about a key the user vouched for, however the pins were  *)
(* moved since.                                                                 *)
VerifiedIsVouched ==
    contact.trust \in Verified => contact.pin \in vouched

(* First messages are encrypted to keys the user vouched for, unless the worker *)
(* wrote back a contact read before the alarm, between the look at the bundle   *)
(* and the look at the level.                                                   *)
WrittenToVouched == ~undone => written \subseteq vouched

(* An alarm ends only by what the user does: an invite, a recovery, an          *)
(* acknowledgement, a deletion (or is lost to the worker's stale write).        *)
AlarmNeedsUser ==
    [][contact.trust \in Alarmed /\ contact'.trust \notin Alarmed
          => UserActs \/ copy # {}]_contactVars

(* One known root replaces another only with a compared phrase or an invite,    *)
(* never by an acknowledgement, unless the mark of the change had been forgotten*)
(* when a bundle without a root came in between.                                *)
RootNeedsProof ==
    [][(/\ contact.root # None /\ contact'.root \notin {None, contact.root}
        /\ ~forgot /\ ~undone')
       => contact'.trust \in Verified]_contactVars

(* What acknowledge_changed_fingerprint tells the user of a changed root,       *)
(* "recover root continuity with SAS" (mesh_wormhole_contacts.py:1827), can be  *)
(* done for a contact that was verified.                                        *)
RecoveryStaysOpen ==
    [][RecoverOffered(contact) /\ contact'.trust \in Alarmed /\ contact'.rootDiffers
          => RecoverOffered(contact')]_contactVars
================================================================================
