--------------------------- MODULE ContactTrustProofs ---------------------------
(***************************************************************************)
(* What holds of ContactTrust for every set of keys, roots and bundles.    *)
(***************************************************************************)
EXTENDS ContactTrust, TLAPS

Bundle == [key : Keys, root : Roots \cup {None}, seq : Nat, head : Nat, size : Nat]

(* While there is no alarm, what was seen last of a contact is pinned.     *)
Calm(c) ==
  c.trust \notin Alarmed => /\ c.seen \in {None, c.pin}
                            /\ c.seenRoot \in {None, c.root}

(* What is true of a contact, in the file or in the worker's copy.         *)
Sound(c) ==
  /\ c \in ContactType
  /\ c.trust # "unpinned" => c.pin # None
  /\ c.differs \/ c.rootDiffers => c.trust \in Alarmed
  /\ c.pin = None => c.root = None
  /\ Calm(c)

(***************************************************************************)
(* Observations (observe_remote_prekey_identity).                          *)
(***************************************************************************)

(* Noting an observation leaves trust, invite and marks alone.             *)
LEMMA NotedFields ==
  ASSUME NEW c \in ContactType, NEW b \in Bundle
  PROVE  /\ Noted(c, b).trust = c.trust
         /\ Noted(c, b).seen = b.key
         /\ Noted(c, b).seenRoot = (IF b.root # None THEN b.root ELSE c.seenRoot)
         /\ Noted(c, b).pin = (IF c.pin = None THEN c.invite ELSE c.pin)
         /\ Noted(c, b).root = (IF c.root = None THEN c.inviteRoot ELSE c.root)
         /\ Noted(c, b).invite = c.invite
         /\ Noted(c, b).inviteRoot = c.inviteRoot
         /\ Noted(c, b).differs = c.differs
         /\ Noted(c, b).rootDiffers = c.rootDiffers
  BY DEF Noted, ContactType, Bundle

(* ... and a contact a contact.                                            *)
LEMMA NotedTyped ==
  ASSUME NEW c \in ContactType, NEW b \in Bundle
  PROVE  Noted(c, b) \in ContactType
<1> DEFINE sr == IF b.root # None THEN b.root ELSE c.seenRoot
           q == IF Conflict(c, b) THEN c.seq ELSE b.seq
           h == IF b.head # 0 /\ ~Conflict(c, b) THEN b.head ELSE c.head
           z == IF b.head # 0 /\ ~Conflict(c, b) THEN b.size ELSE c.size
           p == IF c.pin = None THEN c.invite ELSE c.pin
           r == IF c.root = None THEN c.inviteRoot ELSE c.root
<1>1. /\ b.key \in Keys /\ sr \in Roots \cup {None} /\ q \in Nat /\ h \in Nat
      /\ z \in Nat /\ p \in Keys \cup {None} /\ r \in Roots \cup {None}
  BY DEF ContactType, Bundle
<1>2. Noted(c, b) = [c EXCEPT !.seen = b.key, !.seenRoot = sr, !.seq = q, !.head = h,
                              !.size = z, !.pin = p, !.root = r]
  BY DEF Noted
<1> HIDE DEF sr, q, h, z, p, r
<1> QED  BY <1>1, <1>2 DEF ContactType

(* The first key seen is pinned.                                           *)
LEMMA FirstSeenSound ==
  ASSUME NEW c, Sound(c), NEW b \in Bundle, Noted(c, b).pin = None
  PROVE  /\ Sound(FirstSeen(c, b))
         /\ FirstSeen(c, b).trust = "tofu_pinned"
         /\ FirstSeen(c, b).invite = c.invite
         /\ c.trust = "unpinned" /\ c.root = None
<1> DEFINE p == Noted(c, b)
           r == Adopted(p.root, b)
           d == FirstSeen(c, b)
<1>1. c \in ContactType /\ p \in ContactType
  BY NotedTyped DEF Sound
<1>2. b.key \in Keys /\ b.root \in Roots \cup {None} /\ b.key # None
      /\ r \in Roots \cup {None}
  BY <1>1, ContactAssumption DEF Bundle, Adopted, ContactType
<1>3. d = [p EXCEPT !.pin = b.key, !.root = r, !.differs = FALSE,
                    !.rootDiffers = FALSE, !.trust = "tofu_pinned"]
  BY <1>1 DEF FirstSeen, Adopted, ContactType
<1>4. /\ p.seen = b.key /\ p.invite = c.invite
      /\ p.seenRoot = (IF b.root # None THEN b.root ELSE c.seenRoot)
      /\ p.root = (IF c.root = None THEN c.inviteRoot ELSE c.root)
      /\ c.pin = None
  BY <1>1, NotedFields DEF ContactType
<1>5. c.trust = "unpinned" /\ c.root = None /\ c.seenRoot = None
  BY <1>4 DEF Sound, Calm, Alarmed
<1>6. b.root = None => r = p.root
  BY DEF Adopted
<1>7. b.root # None => r = b.root
  BY DEF Adopted
<1> HIDE DEF p, r
<1>8. /\ d.pin = b.key /\ d.root = r /\ d.differs = FALSE /\ d.rootDiffers = FALSE
      /\ d.trust = "tofu_pinned" /\ d.seen = p.seen /\ d.seenRoot = p.seenRoot
      /\ d.invite = p.invite
  BY <1>1, <1>3 DEF ContactType
<1>9. d \in ContactType
  BY <1>1, <1>2, <1>3 DEF ContactType, TrustLevels
<1> HIDE DEF d
<1>10. Sound(d)
  BY <1>2, <1>4, <1>5, <1>6, <1>7, <1>8, <1>9 DEF Sound, Calm, Alarmed
<1> QED  BY <1>4, <1>5, <1>8, <1>10 DEF d

(* The pinned key under the pinned root: an alarm stays one, and a calm    *)
(* level becomes an alarm only by a contradicting record.                  *)
LEMMA SameSeenSound ==
  ASSUME NEW c, Sound(c), NEW b \in Bundle, Unchanged(c, b)
  PROVE  /\ Sound(SameSeen(c, b))
         /\ SameSeen(c, b).trust = LevelKept(c, b)
         /\ SameSeen(c, b).pin = b.key
         /\ SameSeen(c, b).invite = c.invite
         /\ c.root # None => SameSeen(c, b).root = c.root
         /\ SameSeen(c, b).seenRoot \in {c.seenRoot, SameSeen(c, b).root}
         /\ SameSeen(c, b).rootDiffers = (c.trust \in Alarmed /\ ~Conflict(c, b) /\ c.rootDiffers)
         /\ c.seenRoot \in {None, c.root} =>
               SameSeen(c, b).seenRoot \in {None, SameSeen(c, b).root}
<1> DEFINE p == Noted(c, b)
           r == Adopted(p.root, b)
           l == LevelKept(c, b)
           alarm == c.trust \in Alarmed /\ ~Conflict(c, b)
           m == alarm \/ Conflict(c, b)
           n == alarm /\ c.rootDiffers
           d == SameSeen(c, b)
<1>1. c \in ContactType /\ p \in ContactType /\ m \in BOOLEAN /\ n \in BOOLEAN
  BY NotedTyped DEF Sound, ContactType
<1>2. b.key \in Keys /\ b.root \in Roots \cup {None} /\ b.key # None
      /\ r \in Roots \cup {None}
  BY <1>1, ContactAssumption DEF Bundle, Adopted, ContactType
<1>3. d = [p EXCEPT !.root = r, !.trust = l, !.differs = m, !.rootDiffers = n]
  BY <1>1 DEF SameSeen, Adopted, ContactType
<1>4. /\ p.seen = b.key /\ p.pin = b.key /\ p.invite = c.invite
      /\ p.seenRoot = (IF b.root # None THEN b.root ELSE c.seenRoot)
      /\ p.root = (IF c.root = None THEN c.inviteRoot ELSE c.root)
      /\ p.root = None \/ b.root = None \/ p.root = b.root
      /\ p.pin = (IF c.pin = None THEN c.invite ELSE c.pin)
  BY <1>1, NotedFields DEF Unchanged
<1>5. r = (IF b.root # None THEN b.root ELSE p.root)
  BY DEF Adopted
<1>6. /\ l \in TrustLevels /\ l # "unpinned"
      /\ m => l \in Alarmed
      /\ l \notin Alarmed => c.trust \notin Alarmed
  BY <1>1 DEF LevelKept, TrustLevels, Alarmed, Verified, ContactType
<1>7. n => m
  OBVIOUS
<1> HIDE DEF p, r, l, m
<1>8. /\ d.pin = p.pin /\ d.root = r /\ d.differs = m /\ d.rootDiffers = n
      /\ d.trust = l /\ d.seen = p.seen /\ d.seenRoot = p.seenRoot
      /\ d.invite = p.invite
  BY <1>1, <1>3 DEF ContactType
<1>9. d \in ContactType
  BY <1>1, <1>2, <1>3, <1>6 DEF ContactType
<1> HIDE DEF d
<1>10. c.seenRoot \in {None, c.root} => d.seenRoot \in {None, d.root}
  BY <1>4, <1>5, <1>8
<1>11. Sound(d)
  <2>1. l \notin Alarmed => c.seenRoot \in {None, c.root}
    BY <1>6 DEF Sound, Calm
  <2> QED  BY <1>2, <1>4, <1>6, <1>7, <1>8, <1>9, <1>10, <2>1 DEF Sound, Calm
<1>12. c.root # None => d.root = c.root
  BY <1>4, <1>5, <1>8
<1>13. d.seenRoot \in {c.seenRoot, d.root}
  BY <1>4, <1>5, <1>8
<1> QED  BY <1>4, <1>8, <1>10, <1>11, <1>12, <1>13 DEF d, l

(* Another key or root: an alarm, and the pins stay.                       *)
LEMMA OtherSeenSound ==
  ASSUME NEW c, Sound(c), NEW b \in Bundle, Noted(c, b).pin # None
  PROVE  /\ Sound(OtherSeen(c, b))
         /\ OtherSeen(c, b).trust \in Alarmed
         /\ OtherSeen(c, b).invite = c.invite
         /\ c.root # None => OtherSeen(c, b).root = c.root
         /\ ~OtherSeen(c, b).rootDiffers /\ c.seenRoot \in {None, c.root}
               => OtherSeen(c, b).seenRoot \in {None, OtherSeen(c, b).root}
<1> DEFINE p == Noted(c, b)
           r == IF p.root = None THEN b.root ELSE p.root
           l == LevelLost(c)
           m == p.pin # b.key
           n == b.root # None /\ p.root # None /\ p.root # b.root
           d == OtherSeen(c, b)
<1>1. c \in ContactType /\ p \in ContactType /\ m \in BOOLEAN /\ n \in BOOLEAN
  BY NotedTyped DEF Sound, ContactType
<1>2. b.key \in Keys /\ b.root \in Roots \cup {None} /\ r \in Roots \cup {None}
  BY <1>1 DEF Bundle, ContactType
<1>3. d = [p EXCEPT !.root = r, !.trust = l, !.differs = m, !.rootDiffers = n]
  BY <1>1 DEF OtherSeen, ContactType
<1>4. /\ p.seen = b.key /\ p.invite = c.invite /\ p.pin # None
      /\ p.seenRoot = (IF b.root # None THEN b.root ELSE c.seenRoot)
      /\ p.root = (IF c.root = None THEN c.inviteRoot ELSE c.root)
  BY <1>1, NotedFields
<1>5. l \in Alarmed /\ l \in TrustLevels
  BY DEF LevelLost, TrustLevels, Alarmed
<1>6. r = (IF p.root = None THEN b.root ELSE p.root)
      /\ n = (b.root # None /\ p.root # None /\ p.root # b.root)
  OBVIOUS
<1> HIDE DEF p, r, l, m, n
<1>7. /\ d.pin = p.pin /\ d.root = r /\ d.differs = m /\ d.rootDiffers = n
      /\ d.trust = l /\ d.seenRoot = p.seenRoot /\ d.invite = p.invite
  BY <1>1, <1>3 DEF ContactType
<1>8. d \in ContactType
  BY <1>1, <1>2, <1>3, <1>5 DEF ContactType
<1> HIDE DEF d
<1>9. Sound(d)
  BY <1>4, <1>5, <1>7, <1>8 DEF Sound, Calm
<1>10. c.root # None => d.root = c.root
  BY <1>4, <1>6, <1>7
<1>11. ~d.rootDiffers /\ c.seenRoot \in {None, c.root} => d.seenRoot \in {None, d.root}
  BY <1>4, <1>6, <1>7
<1> QED  BY <1>4, <1>5, <1>7, <1>9, <1>10, <1>11 DEF d

(* An observation as a whole: it calms no alarm, leaves a level verified   *)
(* only for the key it saw, keeps a known root, and marks a root's change. *)
LEMMA ObservedFacts ==
  ASSUME NEW c, Sound(c), NEW b \in Bundle
  PROVE  LET d == Observed(c, b) IN
         /\ Sound(d)
         /\ d.invite = c.invite
         /\ c.trust \in Alarmed => d.trust \in Alarmed
         /\ d.trust \in Verified =>
               /\ d.pin = b.key
               /\ d.pin = c.invite \/ (c.trust \in Verified /\ d.pin = c.pin)
         /\ c.root # None => d.root = c.root
         /\ (/\ d.trust \in Alarmed /\ ~d.rootDiffers /\ ~Forgets(c, d)
             /\ c.trust \in Alarmed /\ ~c.rootDiffers => c.seenRoot \in {None, c.root})
            => d.seenRoot \in {None, d.root}
<1> DEFINE d == Observed(c, b)
<1>0. c.trust \notin Alarmed => c.seenRoot \in {None, c.root}
  BY DEF Sound, Calm
<1>1. CASE Noted(c, b).pin = None
  <2>1. d = FirstSeen(c, b)
    BY <1>1 DEF Observed
  <2>2. /\ Sound(d) /\ d.trust = "tofu_pinned" /\ d.invite = c.invite
        /\ c.trust = "unpinned" /\ c.root = None
    BY <1>1, <2>1, FirstSeenSound
  <2> QED  BY <2>2 DEF Alarmed, Verified
<1>2. CASE Noted(c, b).pin # None /\ Unchanged(c, b)
  <2>1. d = SameSeen(c, b)
    BY <1>2 DEF Observed
  <2> HIDE DEF d
  <2>2. /\ Sound(d) /\ d.trust = LevelKept(c, b) /\ d.pin = b.key /\ d.invite = c.invite
        /\ c.root # None => d.root = c.root
        /\ c.seenRoot \in {None, c.root} => d.seenRoot \in {None, d.root}
    BY <1>2, <2>1, SameSeenSound
  <2>3. c.trust \in Alarmed => d.trust \in Alarmed
    BY <2>2 DEF LevelKept, Alarmed, Verified
  <2>4. ASSUME d.trust \in Verified
        PROVE  d.pin = c.invite \/ (c.trust \in Verified /\ d.pin = c.pin)
    <3>1. c.trust = d.trust \/ c.invite = b.key
      BY <2>2, <2>4 DEF LevelKept, Verified
    <3>2. c.trust = d.trust => c.pin # None
      BY <2>4 DEF Sound, Verified
    <3>3. c.pin # None => c.pin = b.key
      BY <1>2, NotedFields DEF Unchanged, Sound
    <3> QED  BY <2>2, <2>4, <3>1, <3>2, <3>3
  <2>5. ASSUME d.trust \in Alarmed, ~d.rootDiffers, ~Forgets(c, d),
               c.trust \in Alarmed /\ ~c.rootDiffers => c.seenRoot \in {None, c.root}
        PROVE  d.seenRoot \in {None, d.root}
    BY <1>0, <2>2, <2>5 DEF Forgets
  <2> QED  BY <2>2, <2>3, <2>4, <2>5 DEF d
<1>3. CASE Noted(c, b).pin # None /\ ~Unchanged(c, b)
  <2>1. d = OtherSeen(c, b)
    BY <1>3 DEF Observed
  <2> HIDE DEF d
  <2>2. /\ Sound(d) /\ d.trust \in Alarmed /\ d.invite = c.invite
        /\ c.root # None => d.root = c.root
        /\ ~d.rootDiffers /\ c.seenRoot \in {None, c.root} => d.seenRoot \in {None, d.root}
    BY <1>3, <2>1, OtherSeenSound
  <2>3. ASSUME d.trust \in Alarmed, ~d.rootDiffers, ~Forgets(c, d),
               c.trust \in Alarmed /\ ~c.rootDiffers => c.seenRoot \in {None, c.root}
        PROVE  d.seenRoot \in {None, d.root}
    BY <1>0, <2>2, <2>3 DEF Forgets
  <2>4. d.trust \notin Verified
    BY <2>2 DEF Alarmed, Verified
  <2> QED  BY <2>2, <2>3, <2>4 DEF d
<1> QED  BY <1>1, <1>2, <1>3

(***************************************************************************)
(* What the user does.                                                     *)
(***************************************************************************)

(* A contact that was never met is sound.                                  *)
LEMMA DefaultSound ==
  /\ Sound(DefaultContact) /\ DefaultContact.trust = "unpinned"
  /\ DefaultContact.invite = None /\ DefaultContact.root = None
  BY DEF DefaultContact, Sound, Calm, ContactType, TrustLevels, Alarmed

(* The contact after an invite, of level l, with i and j the invite's.     *)
Invited(c, k, r, g, l, i, j) ==
  [c EXCEPT !.pin = k, !.seen = k, !.root = r, !.seenRoot = r, !.differs = FALSE,
            !.rootDiffers = FALSE, !.dh = g, !.invite = i, !.inviteRoot = j, !.trust = l]

(* An invite pins its key and its root (pin_wormhole_dm_invite).           *)
LEMMA PinnedSound ==
  ASSUME NEW c, Sound(c), NEW k \in Keys, NEW r \in Roots \cup {None}, NEW g,
         g \in BOOLEAN, NEW l \in {"invite_pinned", "tofu_pinned"},
         NEW i \in Keys \cup {None}, NEW j \in Roots \cup {None}
  PROVE  /\ Sound(Invited(c, k, r, g, l, i, j))
         /\ Invited(c, k, r, g, l, i, j).pin = k
         /\ Invited(c, k, r, g, l, i, j).root = r
         /\ Invited(c, k, r, g, l, i, j).trust = l
         /\ Invited(c, k, r, g, l, i, j).invite = i
<1> DEFINE d == Invited(c, k, r, g, l, i, j)
<1>1. c \in ContactType /\ k # None
  BY ContactAssumption DEF Sound
<1>2. /\ d.pin = k /\ d.seen = k /\ d.root = r /\ d.seenRoot = r /\ d.differs = FALSE
      /\ d.rootDiffers = FALSE /\ d.invite = i /\ d.trust = l
  BY <1>1 DEF ContactType, Invited
<1>3. d \in ContactType
  <2> DEFINE e == [c EXCEPT !.pin = k, !.seen = k, !.root = r, !.seenRoot = r,
                            !.differs = FALSE]
  <2>1. e \in ContactType
    BY <1>1 DEF ContactType
  <2>2. d = [e EXCEPT !.rootDiffers = FALSE, !.dh = g, !.invite = i, !.inviteRoot = j,
                      !.trust = l]
    BY <1>1 DEF ContactType, Invited
  <2>3. l \in TrustLevels
    BY DEF TrustLevels, Verified
  <2> HIDE DEF d, e
  <2> QED  BY <2>1, <2>2, <2>3 DEF ContactType
<1> HIDE DEF d
<1>4. Sound(d)
  BY <1>1, <1>2, <1>3 DEF Sound, Calm
<1> QED  BY <1>2, <1>4 DEF d

(* Acknowledging pins what was seen last, and verifies nothing.            *)
LEMMA AcknowledgedSound ==
  ASSUME NEW c, Sound(c), c.seen # None
  PROVE  LET d == Acknowledged(c) IN
         /\ Sound(d) /\ d.trust = "tofu_pinned" /\ d.invite = c.invite
         /\ d.root = (IF c.seenRoot # None THEN c.seenRoot ELSE c.root)
<1> DEFINE d == Acknowledged(c)
           r == IF c.seenRoot # None THEN c.seenRoot ELSE c.root
<1>1. c \in ContactType /\ r \in Roots \cup {None}
  BY DEF Sound, ContactType
<1>2. d = [c EXCEPT !.pin = c.seen, !.differs = FALSE, !.rootDiffers = FALSE,
                    !.root = r, !.trust = "tofu_pinned"]
  BY DEF Acknowledged
<1>3. r = (IF c.seenRoot # None THEN c.seenRoot ELSE c.root)
  OBVIOUS
<1> HIDE DEF r
<1>4. /\ d.pin = c.seen /\ d.seen = c.seen /\ d.root = r /\ d.seenRoot = c.seenRoot
      /\ d.differs = FALSE /\ d.rootDiffers = FALSE /\ d.trust = "tofu_pinned"
      /\ d.invite = c.invite
  BY <1>1, <1>2 DEF ContactType
<1>5. d \in ContactType
  BY <1>1, <1>2 DEF ContactType, TrustLevels
<1> HIDE DEF d
<1>6. Sound(d)
  BY <1>3, <1>4, <1>5 DEF Sound, Calm
<1> QED  BY <1>3, <1>4, <1>6 DEF d

(***************************************************************************)
(* The inductive invariant.                                                *)
(***************************************************************************)

ContactsSound == Sound(contact) /\ \A c \in copy : Sound(c)

HistoryTyped ==
  /\ compose \in Keys \cup {None}
  /\ vouched \subseteq Keys /\ written \subseteq Keys
  /\ forgot \in BOOLEAN /\ undone \in BOOLEAN

(* The invite's key was vouched for, and so was a key held verified.       *)
Backed(c) == /\ c.invite \in vouched \cup {None}
             /\ c.trust \in Verified => c.pin \in vouched

AllBacked == Backed(contact) /\ \A c \in copy : Backed(c)

(* A bundle that was let pass at the look is the pinned one at the look at *)
(* the level, unless the worker wrote in between.                          *)
ComposedIsPinned ==
  ~undone /\ compose # None /\ contact.trust \in Verified => contact.pin = compose

(* An alarm without the mark of a root's change is not about the root.     *)
UnmarkedIsKnown ==
  /\ ~forgot /\ ~undone /\ contact.trust \in Alarmed /\ ~contact.rootDiffers
  => contact.seenRoot \in {None, contact.root}

TrustInv ==
  /\ ContactsSound /\ HistoryTyped /\ AllBacked
  /\ ComposedIsPinned /\ WrittenToVouched /\ UnmarkedIsKnown

(* Nothing is known of a contact that was not met.                         *)
LEMMA InitTrust == ContactInit => TrustInv
<1> SUFFICES ASSUME ContactInit PROVE TrustInv
  OBVIOUS
<1>1. contact = DefaultContact /\ contact.trust \notin Verified \cup Alarmed
  BY DefaultSound DEF ContactInit, Verified, Alarmed
<1> QED
  BY <1>1, DefaultSound DEF ContactInit, TrustInv, ContactsSound, HistoryTyped, AllBacked,
     Backed, ComposedIsPinned, WrittenToVouched, UnmarkedIsKnown

(* An observation keeps the invariant, whatever comes with it.             *)
LEMMA ObserveKeeps ==
  ASSUME TrustInv, NEW b \in Bundle, Observe(b), copy' = copy, written' = written,
         \/ compose = None /\ compose' = b.key
         \/ compose = None /\ compose' = None
  PROVE  TrustInv'
<1> DEFINE d == Observed(contact, b)
<1>1. /\ Sound(d) /\ d.invite = contact.invite
      /\ contact.trust \in Alarmed => d.trust \in Alarmed
      /\ d.trust \in Verified =>
            /\ d.pin = b.key
            /\ d.pin = contact.invite \/ (contact.trust \in Verified /\ d.pin = contact.pin)
      /\ (/\ d.trust \in Alarmed /\ ~d.rootDiffers /\ ~Forgets(contact, d)
          /\ contact.trust \in Alarmed /\ ~contact.rootDiffers
                => contact.seenRoot \in {None, contact.root})
         => d.seenRoot \in {None, d.root}
  BY ObservedFacts DEF TrustInv, ContactsSound
<1>2. /\ contact' = d /\ vouched' = vouched /\ undone' = undone
      /\ forgot' = (forgot \/ Forgets(contact, d))
  BY DEF Observe
<1>3. b.key \in Keys /\ b.key # None /\ None \notin Keys
  BY ContactAssumption DEF Bundle
<1> HIDE DEF d
<1>4. ContactsSound'
  BY <1>1, <1>2 DEF TrustInv, ContactsSound
<1>5. HistoryTyped'
  <2>1. Forgets(contact, d) \in BOOLEAN
    BY DEF Forgets
  <2>2. forgot' \in BOOLEAN
    BY <1>2, <2>1 DEF TrustInv, HistoryTyped
  <2> QED  BY <1>2, <1>3, <2>2 DEF TrustInv, HistoryTyped
<1>6. AllBacked'
  <2>1. Backed(contact)'
    BY <1>1, <1>2, <1>3 DEF TrustInv, AllBacked, Backed
  <2> QED  BY <1>2, <2>1 DEF TrustInv, AllBacked, Backed
<1>7. ComposedIsPinned'
  BY <1>1, <1>2 DEF ComposedIsPinned
<1>8. WrittenToVouched'
  BY <1>2 DEF TrustInv, WrittenToVouched
<1>9. UnmarkedIsKnown'
  BY <1>1, <1>2 DEF TrustInv, UnmarkedIsKnown
<1> QED  BY <1>4, <1>5, <1>6, <1>7, <1>8, <1>9 DEF TrustInv

(* So does what settles the contact, if it leaves it sound and backed, and *)
(* either calm or with trust, pins and marks as they were.                 *)
LEMMA SettleKeeps ==
  ASSUME TrustInv, NEW d, Settle(d), Sound(d),
         vouched' \subseteq Keys, vouched \subseteq vouched',
         d.invite \in vouched' \cup {None}, d.trust \in Verified => d.pin \in vouched',
         \/ d.trust \notin Alarmed
         \/ /\ contact.trust \in Alarmed /\ d.rootDiffers = contact.rootDiffers
            /\ d.seenRoot = contact.seenRoot /\ d.root = contact.root
  PROVE  TrustInv'
<1>1. /\ contact' = d /\ compose = None /\ compose' = None /\ copy' = copy
      /\ written' = written /\ undone' = undone
      /\ forgot' = (forgot /\ d.trust \in Alarmed)
  BY DEF Settle
<1>2. ContactsSound'
  BY <1>1 DEF TrustInv, ContactsSound
<1>3. HistoryTyped'
  <2>1. forgot' \in BOOLEAN
    BY <1>1 DEF TrustInv, HistoryTyped
  <2> QED  BY <1>1, <2>1 DEF TrustInv, HistoryTyped
<1>4. AllBacked'
  <2>1. Backed(contact)'
    BY <1>1 DEF Backed
  <2>2. \A c \in copy : Backed(c)'
    BY DEF TrustInv, AllBacked, Backed
  <2> QED  BY <1>1, <2>1, <2>2 DEF AllBacked
<1>5. ComposedIsPinned' /\ WrittenToVouched'
  BY <1>1 DEF TrustInv, ComposedIsPinned, WrittenToVouched
<1>6. UnmarkedIsKnown'
  BY <1>1 DEF TrustInv, UnmarkedIsKnown
<1> QED  BY <1>2, <1>3, <1>4, <1>5, <1>6 DEF TrustInv

(* The phrase was compared (confirm_sas_verification).                     *)
LEMMA ConfirmKeeps == ASSUME TrustInv, ConfirmSas PROVE TrustInv'
<1> DEFINE d == [contact EXCEPT !.trust = "sas_verified", !.differs = FALSE,
                                !.rootDiffers = FALSE]
<1>1. Sound(contact) /\ contact \in ContactType /\ contact.pin \in Keys
      /\ contact.pin # None /\ contact.trust \notin Alarmed
  BY DEF TrustInv, ContactsSound, Sound, ConfirmSas, ContactType
<1>2. /\ d \in ContactType /\ d.trust = "sas_verified" /\ d.pin = contact.pin
      /\ d.root = contact.root /\ d.seen = contact.seen /\ d.seenRoot = contact.seenRoot
      /\ d.invite = contact.invite /\ d.differs = FALSE /\ d.rootDiffers = FALSE
  BY <1>1 DEF ContactType, TrustLevels, Verified
<1>3. Settle(d) /\ vouched' = vouched \cup {contact.pin}
  BY DEF ConfirmSas
<1> HIDE DEF d
<1>4. Sound(d)
  BY <1>1, <1>2 DEF Sound, Calm
<1>5. d.trust \notin Alarmed
  BY <1>2 DEF Alarmed
<1> QED
  BY <1>1, <1>2, <1>3, <1>4, <1>5, SettleKeeps
     DEF TrustInv, HistoryTyped, AllBacked, Backed

(* A root was recovered (recover_verified_root_continuity).                *)
LEMMA RecoverKeeps ==
  ASSUME TrustInv, RecoverRoot
  PROVE  TrustInv' /\ contact'.trust \in Verified
<1> DEFINE d == [contact EXCEPT !.trust = "sas_verified", !.pin = contact.seen,
                              !.root = contact.seenRoot, !.differs = FALSE,
                              !.rootDiffers = FALSE, !.invite = None,
                              !.inviteRoot = None, !.dh = TRUE]
<1>1. /\ contact \in ContactType /\ contact.seen \in Keys
      /\ contact.seen # None
  BY DEF TrustInv, ContactsSound, Sound, RecoverRoot, RecoverOffered, ContactType
<1>2. /\ d.trust = "sas_verified" /\ d.pin = contact.seen
      /\ d.root = contact.seenRoot /\ d.seen = contact.seen /\ d.seenRoot = contact.seenRoot
      /\ d.invite = None /\ d.differs = FALSE /\ d.rootDiffers = FALSE
  BY <1>1 DEF ContactType
<1>3. d \in ContactType
  BY <1>1 DEF ContactType, TrustLevels, Verified
<1>4. Settle(d) /\ vouched' = vouched \cup {contact.seen}
  BY DEF RecoverRoot
<1>5. contact' = d
  BY <1>4 DEF Settle
<1> HIDE DEF d
<1>6. Sound(d)
  BY <1>1, <1>2, <1>3 DEF Sound, Calm
<1>7. d.trust \notin Alarmed /\ d.trust \in Verified
  BY <1>2 DEF Alarmed, Verified
<1>8. TrustInv'
  BY <1>1, <1>2, <1>4, <1>6, <1>7, SettleKeeps DEF TrustInv, HistoryTyped
<1> QED  BY <1>5, <1>7, <1>8

(* The key of the phrase was stored.                                       *)
LEMMA StoreKeeps ==
  ASSUME TrustInv, StoreDhKey
  PROVE  TrustInv' /\ contact'.trust = contact.trust /\ contact'.root = contact.root
<1> DEFINE d == [contact EXCEPT !.dh = TRUE]
<1>1. contact \in ContactType /\ Sound(contact)
  BY DEF TrustInv, ContactsSound, Sound
<1>2. /\ d \in ContactType /\ d.trust = contact.trust /\ d.pin = contact.pin
      /\ d.root = contact.root /\ d.seen = contact.seen /\ d.seenRoot = contact.seenRoot
      /\ d.invite = contact.invite /\ d.differs = contact.differs
      /\ d.rootDiffers = contact.rootDiffers
  BY <1>1 DEF ContactType
<1>3. Settle(d) /\ vouched' = vouched
  BY DEF StoreDhKey
<1>4. contact' = d
  BY <1>3 DEF Settle
<1> HIDE DEF d
<1>5. Sound(d)
  BY <1>1, <1>2 DEF Sound, Calm
<1>6. TrustInv'
  BY <1>2, <1>3, <1>5, SettleKeeps DEF TrustInv, HistoryTyped, AllBacked, Backed
<1> QED  BY <1>2, <1>4, <1>6

(* An invite was imported (import_wormhole_dm_invite).                     *)
LEMMA PinKeeps ==
  ASSUME TrustInv, NEW k \in Keys, NEW r \in Roots, NEW g \in BOOLEAN,
         Settle(Pinned(contact, k, r, TRUE, g)), vouched' = vouched \cup {k}
  PROVE  TrustInv' /\ contact'.trust \in Verified
<1> DEFINE d == Pinned(contact, k, r, TRUE, g)
<1>1. Sound(d) /\ d.pin = k /\ d.trust = "invite_pinned" /\ d.invite = k
  <2>1. Sound(contact)
    BY DEF TrustInv, ContactsSound
  <2>2. d = Invited(contact, k, r, g, "invite_pinned", k, r)
    BY DEF Pinned, Invited
  <2> HIDE DEF d
  <2> QED  BY <2>1, <2>2, PinnedSound
<1>2. contact' = d
  BY DEF Settle
<1> HIDE DEF d
<1>3. d.trust \notin Alarmed /\ d.trust \in Verified
  BY <1>1 DEF Alarmed, Verified
<1>4. TrustInv'
  BY <1>1, <1>3, SettleKeeps DEF TrustInv, HistoryTyped, d
<1> QED  BY <1>2, <1>3, <1>4

(* Any current invite: pinned, or an observation under another root.       *)
LEMMA ImportKeeps ==
  ASSUME TrustInv, NEW k \in Keys, NEW r \in Roots, ImportInvite(k, r) \/ ImportPending(k, r)
  PROVE  TrustInv'
<1>1. CASE ImportPending(k, r)
  BY <1>1, PinKeeps DEF ImportPending
<1>2. CASE ImportInvite(k, r) /\ AnchorRoot(contact) \in {None, r}
  BY <1>2, PinKeeps DEF ImportInvite
<1>3. CASE ImportInvite(k, r) /\ AnchorRoot(contact) \notin {None, r}
  <2>1. PICK s \in {b.seq : b \in Bundles} :
            Observe([key |-> k, root |-> r, seq |-> s, head |-> 0, size |-> 0])
    BY <1>3 DEF ImportInvite
  <2>2. s \in Nat
    BY <2>1, ContactAssumption
  <2>3. [key |-> k, root |-> r, seq |-> s, head |-> 0, size |-> 0] \in Bundle
    BY <2>2 DEF Bundle
  <2>4. compose = None /\ compose' = None /\ copy' = copy /\ written' = written
    BY <1>3 DEF ImportInvite
  <2> QED  BY <2>1, <2>3, <2>4, ObserveKeeps
<1> QED  BY <1>1, <1>2, <1>3

(* An invite of an earlier version: the root is not known any more.        *)
LEMMA LegacyKeeps ==
  ASSUME TrustInv, NEW k \in Keys, ImportLegacy(k)
  PROVE  TrustInv' /\ contact'.root = None
<1> DEFINE d == Pinned(contact, k, None, FALSE, TRUE)
<1>1. Sound(d) /\ d.root = None /\ d.trust = "tofu_pinned" /\ d.invite = None
  <2>1. Sound(contact)
    BY DEF TrustInv, ContactsSound
  <2> DEFINE g == TRUE
  <2>2. d = Invited(contact, k, None, g, "tofu_pinned", None, None)
    BY DEF Pinned, Invited
  <2>3. g \in BOOLEAN
    OBVIOUS
  <2> HIDE DEF d, g
  <2> QED  BY <2>1, <2>2, <2>3, PinnedSound
<1>2. Settle(d) /\ vouched' = vouched
  BY DEF ImportLegacy
<1>3. contact' = d
  BY <1>2 DEF Settle
<1> HIDE DEF d
<1>4. d.trust \notin Alarmed /\ d.trust \notin Verified
  BY <1>1 DEF Alarmed, Verified
<1>5. TrustInv'
  BY <1>1, <1>2, <1>4, SettleKeeps DEF TrustInv, HistoryTyped
<1> QED  BY <1>1, <1>3, <1>5

(* A changed key was acknowledged (acknowledge_changed_fingerprint).       *)
LEMMA AcknowledgeKeeps ==
  ASSUME TrustInv, Acknowledge
  PROVE  /\ TrustInv'
         /\ contact'.root = (IF contact.seenRoot # None THEN contact.seenRoot ELSE contact.root)
<1> DEFINE d == Acknowledged(contact)
<1>1. /\ Sound(d) /\ d.trust = "tofu_pinned" /\ d.invite = contact.invite
      /\ d.root = (IF contact.seenRoot # None THEN contact.seenRoot ELSE contact.root)
  BY AcknowledgedSound DEF TrustInv, ContactsSound, Acknowledge, Acknowledgeable
<1>2. Settle(d) /\ vouched' = vouched
  BY DEF Acknowledge
<1>3. contact' = d
  BY <1>2 DEF Settle
<1> HIDE DEF d
<1>4. d.trust \notin Alarmed /\ d.trust \notin Verified
  BY <1>1 DEF Alarmed, Verified
<1>5. TrustInv'
  BY <1>1, <1>2, <1>4, SettleKeeps DEF TrustInv, HistoryTyped, AllBacked, Backed
<1> QED  BY <1>1, <1>3, <1>5

(* The contact was deleted (delete_wormhole_dm_contact).                   *)
LEMMA DeleteKeeps ==
  ASSUME TrustInv, Delete
  PROVE  TrustInv' /\ contact'.root = None
<1>1. /\ Sound(DefaultContact) /\ DefaultContact.trust = "unpinned"
      /\ DefaultContact.invite = None /\ DefaultContact.root = None
  BY DefaultSound
<1>2. Settle(DefaultContact) /\ vouched' = vouched /\ contact' = DefaultContact
  BY DEF Delete, Settle
<1>3. "unpinned" \notin Alarmed /\ "unpinned" \notin Verified
  BY DEF Alarmed, Verified
<1>4. TrustInv'
  BY <1>1, <1>2, <1>3, SettleKeeps DEF TrustInv, HistoryTyped
<1> QED  BY <1>1, <1>2, <1>4

(* All that the user does keeps the invariant.                             *)
LEMMA UserKeeps == ASSUME TrustInv, UserActs PROVE TrustInv'
  BY ImportKeeps, LegacyKeeps, StoreKeeps, ConfirmKeeps, RecoverKeeps, AcknowledgeKeeps,
     DeleteKeeps DEF UserActs

(***************************************************************************)
(* The other steps.                                                        *)
(***************************************************************************)

(* The bundles of the constant are bundles.                                *)
LEMMA BundleTyped == ASSUME NEW b \in Bundles PROVE b \in Bundle
  BY ContactAssumption DEF Bundle

(* Composing looks at the bundle (compose_wormhole_dm).                    *)
LEMMA ComposeStartKeeps ==
  ASSUME TrustInv, NEW b \in Bundles, ComposeStart(b)
  PROVE  TrustInv'
<1>0. b \in Bundle
  BY BundleTyped
<1>1. CASE MatchesInvite(contact, b)
  <2>1. /\ compose' = b.key /\ contact.pin = b.key /\ contact' = contact
        /\ vouched' = vouched /\ forgot' = forgot /\ undone' = undone
        /\ copy' = copy /\ written' = written
    BY <1>1 DEF ComposeStart, MatchesInvite
  <2>2. ContactsSound' /\ AllBacked' /\ WrittenToVouched' /\ UnmarkedIsKnown'
    BY <2>1 DEF TrustInv, ContactsSound, AllBacked, Backed, WrittenToVouched, UnmarkedIsKnown
  <2>3. HistoryTyped' /\ ComposedIsPinned'
    BY <1>0, <2>1 DEF TrustInv, HistoryTyped, ComposedIsPinned, Bundle
  <2> QED  BY <2>2, <2>3 DEF TrustInv
<1>2. CASE ~MatchesInvite(contact, b)
  BY <1>0, <1>2, ObserveKeeps DEF ComposeStart
<1> QED  BY <1>1, <1>2

(* Composing looks at the level, and encrypts to the key of the bundle.    *)
LEMMA ComposeEndKeeps == ASSUME TrustInv, ComposeEnd PROVE TrustInv'
<1>1. /\ contact' = contact /\ copy' = copy /\ vouched' = vouched /\ forgot' = forgot
      /\ undone' = undone /\ compose' = None /\ compose # None
      /\ written' = (IF FirstContactAllowed(contact) THEN written \cup {compose} ELSE written)
  BY DEF ComposeEnd
<1>2. ContactsSound' /\ AllBacked' /\ UnmarkedIsKnown' /\ ComposedIsPinned'
  BY <1>1 DEF TrustInv, ContactsSound, AllBacked, Backed, UnmarkedIsKnown, ComposedIsPinned
<1>3. HistoryTyped'
  BY <1>1 DEF TrustInv, HistoryTyped
<1>4. WrittenToVouched'
  <2>1. ASSUME ~undone, FirstContactAllowed(contact) PROVE compose \in vouched
    BY <1>1, <2>1
       DEF TrustInv, ComposedIsPinned, AllBacked, Backed, FirstContactAllowed
  <2> QED  BY <1>1, <2>1 DEF TrustInv, WrittenToVouched
<1> QED  BY <1>2, <1>3, <1>4 DEF TrustInv

(* The worker's copy is as sound and as backed as the contact it was.      *)
LEMMA WorkerKeeps == ASSUME TrustInv, WorkerReads \/ WorkerWrites PROVE TrustInv'
<1>1. CASE WorkerReads
  BY <1>1 DEF WorkerReads, TrustInv, ContactsSound, HistoryTyped, AllBacked, Backed,
     ComposedIsPinned, WrittenToVouched, UnmarkedIsKnown
<1>2. CASE WorkerWrites
  <2>1. /\ contact' \in copy /\ copy' = {} /\ compose' = compose /\ vouched' = vouched
        /\ written' = written /\ forgot' = forgot
        /\ undone' = (undone \/ contact' # contact)
    BY <1>2 DEF WorkerWrites
  <2>2. ContactsSound' /\ AllBacked'
    BY <2>1 DEF TrustInv, ContactsSound, AllBacked, Backed
  <2>3. HistoryTyped'
    <3>1. undone' \in BOOLEAN
      BY <2>1 DEF TrustInv, HistoryTyped
    <3> QED  BY <2>1, <3>1 DEF TrustInv, HistoryTyped
  <2>4. ~undone' => ~undone /\ contact' = contact
    BY <2>1
  <2>5. ComposedIsPinned' /\ WrittenToVouched' /\ UnmarkedIsKnown'
    BY <2>1, <2>4 DEF TrustInv, ComposedIsPinned, WrittenToVouched, UnmarkedIsKnown
  <2> QED  BY <2>2, <2>3, <2>5 DEF TrustInv
<1> QED  BY <1>1, <1>2

(* Every step keeps the invariant.                                         *)
LEMMA TrustStep == TrustInv /\ [ContactNext]_contactVars => TrustInv'
<1> SUFFICES ASSUME TrustInv, [ContactNext]_contactVars PROVE TrustInv'
  OBVIOUS
<1>1. CASE UNCHANGED contactVars
  BY <1>1 DEF contactVars, TrustInv, ContactsSound, HistoryTyped, AllBacked, Backed,
     ComposedIsPinned, WrittenToVouched, UnmarkedIsKnown
<1>2. CASE ContactNext
  BY <1>2, ComposeStartKeeps, ComposeEndKeeps, UserKeeps, WorkerKeeps DEF ContactNext
<1> QED  BY <1>1, <1>2

(* The invariant holds of every behaviour of the contact.                  *)
THEOREM TrustInvariant == ContactSpec => []TrustInv
  BY InitTrust, TrustStep, PTL DEF ContactSpec

(***************************************************************************)
(* The theorems.                                                           *)
(***************************************************************************)

(* Type correctness; any trust has a pin, and the marks go with an alarm   *)
(* (the fields of a contact in mesh_wormhole_contacts).                    *)
THEOREM ContactTypeCorrect == ContactSpec => []ContactTypeOK
<1>1. TrustInv => ContactTypeOK
  BY DEF TrustInv, ContactsSound, HistoryTyped, Sound, ContactTypeOK
<1> QED  BY <1>1, TrustInvariant, PTL

(* Without an alarm, what was seen last is what is pinned, after any       *)
(* sequence of observations, invites, acknowledgements and stale writes    *)
(* (observe_remote_prekey_identity and the operations on its result).      *)
THEOREM CalmIsPinned == ContactSpec => []CalmMeansSeenIsPinned
<1>1. TrustInv => CalmMeansSeenIsPinned
  BY DEF TrustInv, ContactsSound, Sound, Calm, CalmMeansSeenIsPinned
<1> QED  BY <1>1, TrustInvariant, PTL

(* A verified level is about a key the user vouched for, by an invite, a   *)
(* phrase or a recovery.                                                   *)
THEOREM VerifiedVouched == ContactSpec => []VerifiedIsVouched
<1>1. TrustInv => VerifiedIsVouched
  BY DEF TrustInv, AllBacked, Backed, VerifiedIsVouched
<1> QED  BY <1>1, TrustInvariant, PTL

(* First messages are encrypted to vouched keys (compose_wormhole_dm),     *)
(* unless the release worker undid an alarm.                               *)
THEOREM WrittenVouched == ContactSpec => []WrittenToVouched
<1>1. TrustInv => WrittenToVouched
  BY DEF TrustInv
<1> QED  BY <1>1, TrustInvariant, PTL

(* No observation ends an alarm: the user does, or the worker's stale copy.*)
THEOREM AlarmStays == ContactSpec => AlarmNeedsUser
<1>1. TrustInv /\ [ContactNext]_contactVars =>
        [contact.trust \in Alarmed /\ contact'.trust \notin Alarmed
            => UserActs \/ copy # {}]_contactVars
  <2> SUFFICES ASSUME TrustInv, ContactNext, contact.trust \in Alarmed,
                      contact'.trust \notin Alarmed, ~UserActs, copy = {}
               PROVE  FALSE
    OBVIOUS
  <2>1. CASE \E b \in Bundles : ComposeStart(b)
    <3>1. PICK b \in Bundles : ComposeStart(b)
      BY <2>1
    <3>2. contact' = Observed(contact, b) \/ contact' = contact
      BY <3>1 DEF ComposeStart, Observe
    <3> QED  BY <3>2, BundleTyped, ObservedFacts DEF TrustInv, ContactsSound
  <2> QED  BY <2>1 DEF ContactNext, ComposeEnd, WorkerReads, WorkerWrites
<1> QED  BY <1>1, TrustInvariant, PTL DEF ContactSpec, AlarmNeedsUser

(* A known root is replaced with a phrase or an invite only, unless its    *)
(* mark was forgotten or the worker wrote (acknowledge_changed_fingerprint *)
(* against recover_verified_root_continuity).                              *)
THEOREM RootIsProved == ContactSpec => RootNeedsProof
<1>1. TrustInv /\ [ContactNext]_contactVars =>
        [(/\ contact.root # None /\ contact'.root \notin {None, contact.root}
          /\ ~forgot /\ ~undone')
         => contact'.trust \in Verified]_contactVars
  <2> SUFFICES ASSUME TrustInv, ContactNext, contact.root # None,
                      contact'.root \notin {None, contact.root}, ~forgot, ~undone'
               PROVE  contact'.trust \in Verified
    OBVIOUS
  <2>1. ASSUME NEW b \in Bundle, contact' = Observed(contact, b) PROVE FALSE
    BY <2>1, ObservedFacts DEF TrustInv, ContactsSound
  <2>2. CASE \E b \in Bundles : ComposeStart(b)
    BY <2>1, <2>2, BundleTyped DEF ComposeStart, Observe
  <2>3. CASE ComposeEnd \/ WorkerReads \/ WorkerWrites
    BY <2>3 DEF ComposeEnd, WorkerReads, WorkerWrites
  <2>4. CASE UserActs
    <3>1. ASSUME NEW k \in Keys, NEW r \in Roots, ImportInvite(k, r) \/ ImportPending(k, r)
          PROVE  contact'.trust \in Verified
      <4>1. CASE ImportPending(k, r)
        BY <4>1, PinKeeps DEF ImportPending
      <4>2. CASE ImportInvite(k, r) /\ AnchorRoot(contact) \in {None, r}
        BY <4>2, PinKeeps DEF ImportInvite
      <4>3. CASE ImportInvite(k, r) /\ AnchorRoot(contact) \notin {None, r}
        <5>1. PICK s \in {b.seq : b \in Bundles} :
                  Observe([key |-> k, root |-> r, seq |-> s, head |-> 0, size |-> 0])
          BY <4>3 DEF ImportInvite
        <5>2. s \in Nat
          BY <5>1, ContactAssumption
        <5>3. [key |-> k, root |-> r, seq |-> s, head |-> 0, size |-> 0] \in Bundle
          BY <5>2 DEF Bundle
        <5> QED  BY <2>1, <5>1, <5>3 DEF Observe
      <4> QED  BY <3>1, <4>1, <4>2, <4>3
    <3>2. ASSUME ConfirmSas PROVE contact'.root = contact.root
      BY <3>2 DEF ConfirmSas, Settle, TrustInv, ContactsSound, Sound, ContactType
    <3>3. ASSUME Acknowledge PROVE FALSE
      <4>1. undone' = undone /\ contact.trust \in Alarmed /\ ~contact.rootDiffers
        BY <3>3 DEF Acknowledge, Acknowledgeable, Settle
      <4>2. contact.seenRoot \in {None, contact.root}
        BY <4>1 DEF TrustInv, UnmarkedIsKnown
      <4> QED  BY <3>3, <4>2, AcknowledgeKeeps
    <3> QED
      BY <2>4, <3>1, <3>2, <3>3, LegacyKeeps, StoreKeeps, RecoverKeeps, DeleteKeeps
         DEF UserActs
  <2> QED  BY <2>2, <2>3, <2>4 DEF ContactNext
<1> QED  BY <1>1, TrustInvariant, PTL DEF ContactSpec, RootNeedsProof
================================================================================
