-------------------------- MODULE LedgerPromiseProofs --------------------------
(***************************************************************************)
(* What Ledger promises to its readers: what lies below the lock stays     *)
(* when the writing threads take turns, and, when the event loop is the    *)
(* only one of them, the node implements AppendOnlyLedger.                 *)
(***************************************************************************)
EXTENDS LedgerProofs, SequenceTheorems

(* The sequence p is the beginning of c.                                   *)
Begins(p, c) == Len(p) <= Len(c) /\ \A i \in 1 .. Len(p) : p[i] = c[i]

LEMMA FirstPart ==
  ASSUME NEW c \in Seq(Event), NEW n \in Int, n <= Len(c)
  PROVE  /\ SubSeq(c, 1, n) \in Seq(Event)
         /\ Len(SubSeq(c, 1, n)) = IF n < 0 THEN 0 ELSE n
         /\ \A i \in 1 .. n : SubSeq(c, 1, n)[i] = c[i]
<1>1. \A i \in 1 .. n : c[i] \in Event
  OBVIOUS
<1>2. /\ SubSeq(c, 1, n) \in Seq(Event)
      /\ Len(SubSeq(c, 1, n)) = IF 1 <= n THEN n - 1 + 1 ELSE 0
      /\ \A i \in 1 .. n - 1 + 1 : SubSeq(c, 1, n)[i] = c[1 + i - 1]
  BY <1>1, SubSeqProperties
<1> QED  BY <1>2

LEMMA BeginsIsPrefix ==
  ASSUME NEW p \in Seq(Event), NEW c \in Seq(Event), Begins(p, c)
  PROVE  IsPrefix(p, c)
<1> DEFINE a == SubSeq(p, 1, Len(p))
           b == SubSeq(c, 1, Len(p))
<1>1. /\ a \in Seq(Event) /\ Len(a) = Len(p) /\ \A i \in 1 .. Len(p) : a[i] = p[i]
      /\ b \in Seq(Event) /\ Len(b) = Len(p) /\ \A i \in 1 .. Len(p) : b[i] = c[i]
      /\ Len(p) \in Nat
  BY FirstPart DEF Begins
<1> HIDE DEF a, b
<1>2. Len(a) = Len(b) /\ \A i \in 1 .. Len(a) : a[i] = b[i]
  BY <1>1 DEF Begins
<1>3. a = b
  BY <1>1, <1>2, SeqEqual
<1> QED  BY <1>3 DEF IsPrefix, Begins, a, b

LEMMA AppendBegins ==
  ASSUME NEW c \in Seq(Event), NEW e \in Event
  PROVE  /\ Append(c, e) \in Seq(Event) /\ Append(c, e) # <<>>
         /\ Len(Append(c, e)) = Len(c) + 1
         /\ \A i \in 1 .. Len(c) : Append(c, e)[i] = c[i]
         /\ Append(c, e)[Len(c) + 1] = e
         /\ Begins(c, Append(c, e))
         /\ \A p : Len(p) \in Nat /\ Begins(p, c) => Begins(p, Append(c, e))
         /\ Last(Append(c, e)) = e /\ Front(Append(c, e)) = c
<1> DEFINE d == Append(c, e)
<1>1. /\ d \in Seq(Event) /\ d # <<>> /\ Len(d) = Len(c) + 1 /\ Len(c) \in Nat
      /\ \A i \in 1 .. Len(c) : d[i] = c[i]
      /\ d[Len(c) + 1] = e
  OBVIOUS
<1> HIDE DEF d
<1>2. Begins(c, d) /\ \A p : Len(p) \in Nat /\ Begins(p, c) => Begins(p, d)
  BY <1>1 DEF Begins
<1>3. Last(d) = e
  BY <1>1 DEF Last
<1>4. Front(d) = c
  <2>1. Front(d) = SubSeq(d, 1, Len(c))
    BY <1>1 DEF Front
  <2>2. /\ SubSeq(d, 1, Len(c)) \in Seq(Event)
        /\ Len(SubSeq(d, 1, Len(c))) = Len(c)
        /\ \A i \in 1 .. Len(c) : SubSeq(d, 1, Len(c))[i] = d[i]
    BY <1>1, FirstPart
  <2> DEFINE a == SubSeq(d, 1, Len(c))
  <2> HIDE DEF a
  <2>3. a \in Seq(Event) /\ Len(a) = Len(c) /\ \A i \in 1 .. Len(a) : a[i] = c[i]
    BY <1>1, <2>2 DEF a
  <2>4. a = c
    BY <2>3, SeqEqual
  <2> QED  BY <2>1, <2>4 DEF a
<1> QED  BY <1>1, <1>2, <1>3, <1>4 DEF d

(***************************************************************************)
(* The lock                                                                *)
(***************************************************************************)
Locked(c) == \A i \in 1 .. Len(chain) - LockDepth : i \in 1 .. Len(c) /\ c[i] = chain[i]

(* The chain a fork is about to install agrees with the chain below the    *)
(* lock, which nobody moves between check and installation (apply_fork).   *)
LockInv == \A t \in WriterThreads : job[t].op = "fork" => Locked(job[t].new)

LEMMA ForkLocked ==
  ASSUME ChainOK, NEW k \in 1 .. Len(chain), Depth(k) <= LockDepth, NEW f \in Seq(Event)
  PROVE  Locked(Forked(k, f))
<1>1. /\ chain \in Seq(Event) /\ k \in Nat /\ k <= Len(chain)
      /\ Len(chain) \in Nat /\ LockDepth \in Nat
  BY LedgerAssumption DEF ChainOK
<1>2. /\ SubSeq(chain, 1, k) \in Seq(Event) /\ Len(SubSeq(chain, 1, k)) = k
      /\ \A i \in 1 .. k : SubSeq(chain, 1, k)[i] = chain[i]
  BY <1>1, FirstPart
<1> DEFINE g == SubSeq(chain, 1, k)
<1> HIDE DEF g
<1>3. Len(g \o f) = k + Len(f) /\ \A i \in 1 .. k : (g \o f)[i] = chain[i]
  BY <1>1, <1>2 DEF g
<1>4. \A i \in 1 .. Len(chain) - LockDepth : i \in 1 .. k
  BY <1>1 DEF Depth
<1>5. Forked(k, f) = g \o f /\ Len(f) \in Nat
  BY DEF Forked, g
<1> QED  BY <1>1, <1>3, <1>4, <1>5 DEF Locked

LEMMA LockNext ==
  ASSUME TakeTurns, TypeInv, LinkInv, LockInv, [Next]_vars
  PROVE  LockInv'
<1>0. JobsOK
  BY DEF TypeInv
<1>1. ASSUME NEW t \in WriterThreads, NEW j, job' = [job EXCEPT ![t] = j],
             chain' = chain, j.op = "fork" => Locked(j.new)
      PROVE  LockInv'
  BY <1>0, <1>1 DEF JobsOK, LockInv, Locked
<1>2. ASSUME \A t \in WriterThreads : job'[t].op = "idle" PROVE LockInv'
  <2>1. \A t \in WriterThreads : job'[t].op # "fork"
    BY <1>2
  <2> QED  BY <2>1 DEF LockInv
<1>3. ASSUME UNCHANGED <<chain, job>> PROVE LockInv'
  BY <1>3 DEF LockInv, Locked
<1>4. ASSUME NEW t \in WriterThreads, AppendCheck(t) \/ AppendDraft(t) \/ IngestCheck(t)
      PROVE  LockInv'
  <2>1. PICK e, op : /\ job' = [job EXCEPT ![t] =
                                  [op |-> op, ev |-> e, new |-> <<>>, base |-> 0]]
                     /\ op \in {"append", "commit", "ingest"}
    BY <1>4 DEF AppendCheck, AppendDraft, IngestCheck
  <2>2. chain' = chain
    BY <1>4 DEF AppendCheck, AppendDraft, IngestCheck
  <2> QED  BY <1>1, <2>1, <2>2
<1>5. ASSUME NEW t \in WriterThreads, AppendCommit(t) \/ IngestAccept(t) \/ ForkApply(t)
      PROVE  LockInv'
  <2>1. job[t].op # "idle" /\ job' = [job EXCEPT ![t] = Idle]
    BY <1>5 DEF AppendCommit, IngestAccept, ForkApply
  <2>2. \A u \in WriterThreads : job'[u].op = "idle"
    BY <1>0, <2>1, OthersIdle, IdleGood DEF JobsOK
  <2> QED  BY <1>2, <2>2
<1>6. ASSUME NEW t \in WriterThreads, NEW k \in 1 .. Len(chain), ForkCheck(t, k)
      PROVE  LockInv'
  <2>1. PICK f \in Seq(Event) :
          job' = [job EXCEPT ![t] =
                    [op |-> "fork", ev |-> NoEvent, new |-> Forked(k, f), base |-> cold]]
    BY <1>6 DEF ForkCheck
  <2>2. Depth(k) <= LockDepth /\ chain' = chain
    BY <1>6 DEF ForkCheck
  <2>3. Locked(Forked(k, f))
    BY <2>2, ForkLocked DEF TypeInv
  <2> QED  BY <1>1, <2>1, <2>2, <2>3
<1>7. ASSUME NEW t \in WriterThreads, Reset(t) PROVE LockInv'
  <2>1. Free(t) /\ job[t] = Idle /\ job' = job
    BY <1>7 DEF Reset, Free
  <2>2. \A u \in WriterThreads : job'[u].op = "idle"
    BY <2>1, OthersIdle, IdleGood
  <2> QED  BY <1>2, <2>2
<1>8. ASSUME NEW f \in {"timer", "sync"},
             FlushStart(f) \/ FlushWrite(f) \/ FlushFail(f) \/ FlushDone(f)
      PROVE  LockInv'
  BY <1>3, <1>8 DEF FlushStart, FlushWrite, FlushFail, FlushDone
<1>9. CASE Crash \/ Exit
  BY <1>2, <1>9, IdleGood DEF Crash, Exit, Stopped
<1>10. CASE BootPlain \/ BootDropWal \/ BootDegraded \/ \E w \in BOOLEAN : BootReplay(w)
  <2>1. ~up /\ job' = job
    BY <1>10 DEF BootPlain, BootDropWal, BootDegraded, BootReplay, Loaded
  <2>2. \A t \in WriterThreads : job'[t].op = "idle"
    BY <2>1 DEF LinkInv
  <2> QED  BY <1>2, <2>2
<1>11. CASE UNCHANGED vars
  BY <1>3, <1>11 DEF vars
<1> QED  BY <1>4, <1>5, <1>6, <1>7, <1>8, <1>9, <1>10, <1>11 DEF Next

LEMMA LockStep ==
  ASSUME TypeInv, LockInv, [Next]_vars, up, up', chain' # <<>>
  PROVE  IsPrefix(SubSeq(chain, 1, Len(chain) - LockDepth), chain')
<1>0. chain \in Seq(Event) /\ Len(chain) \in Nat /\ LockDepth \in Nat /\ chain' \in Seq(Event)
  <2>1. ChainOK'
    BY TypeNext DEF TypeInv
  <2> QED  BY <2>1, LedgerAssumption DEF TypeInv, ChainOK
<1>1. Locked(chain')
  <2>1. ASSUME chain' = chain PROVE Locked(chain')
    BY <1>0, <2>1 DEF Locked
  <2>2. ASSUME NEW t \in WriterThreads, AppendCommit(t) \/ IngestAccept(t)
        PROVE  Locked(chain')
    <3>1. job[t].ev \in Event /\ chain' = Append(chain, job[t].ev)
      BY <2>2 DEF AppendCommit, IngestAccept, Accept, TypeInv, JobsOK, GoodJob
    <3> QED  BY <1>0, <3>1, AppendBegins DEF Locked
  <2>3. ASSUME NEW t \in WriterThreads, ForkApply(t) PROVE Locked(chain')
    BY <2>3 DEF ForkApply, LockInv
  <2>4. ASSUME NEW t \in WriterThreads,
               \/ AppendCheck(t) \/ AppendDraft(t) \/ IngestCheck(t)
               \/ \E k \in 1 .. Len(chain) : ForkCheck(t, k)
        PROVE  chain' = chain
    BY <2>4 DEF AppendCheck, AppendDraft, IngestCheck, ForkCheck
  <2>5. \A t \in WriterThreads : ~Reset(t)
    BY DEF Reset
  <2>6. ASSUME NEW f \in {"timer", "sync"},
               FlushStart(f) \/ FlushWrite(f) \/ FlushFail(f) \/ FlushDone(f)
        PROVE  chain' = chain
    BY <2>6 DEF FlushStart, FlushWrite, FlushFail, FlushDone
  <2>7. ~Crash /\ ~Exit
    BY DEF Crash, Exit, Stopped
  <2>8. ~BootPlain /\ ~BootDropWal /\ ~BootDegraded /\ \A w \in BOOLEAN : ~BootReplay(w)
    BY DEF BootPlain, BootDropWal, BootDegraded, BootReplay, Loaded
  <2>9. CASE UNCHANGED vars
    BY <2>1, <2>9 DEF vars
  <2> QED  BY <2>1, <2>2, <2>3, <2>4, <2>5, <2>6, <2>7, <2>8, <2>9 DEF Next
<1> DEFINE p == SubSeq(chain, 1, Len(chain) - LockDepth)
<1>2. /\ p \in Seq(Event)
      /\ Len(p) = IF Len(chain) - LockDepth < 0 THEN 0 ELSE Len(chain) - LockDepth
      /\ \A i \in 1 .. Len(chain) - LockDepth : p[i] = chain[i]
  BY <1>0, FirstPart
<1> HIDE DEF p
<1>3. Begins(p, chain')
  <2>1. \A i \in 1 .. Len(p) : i \in 1 .. Len(chain) - LockDepth
    BY <1>0, <1>2
  <2>2. \A i \in 1 .. Len(p) : i \in 1 .. Len(chain') /\ p[i] = chain'[i]
    BY <1>1, <1>2, <2>1 DEF Locked
  <2>3. Len(p) \in Nat /\ Len(chain') \in Nat
    BY <1>0, <1>2
  <2>4. Len(p) <= Len(chain')
    <3>1. CASE Len(p) = 0
      BY <2>3, <3>1
    <3>2. CASE Len(p) # 0
      <4>1. Len(p) \in 1 .. Len(p)
        BY <2>3, <3>2
      <4> QED  BY <2>2, <2>3, <4>1
    <3> QED  BY <3>1, <3>2
  <2> QED  BY <2>2, <2>4 DEF Begins
<1> QED  BY <1>0, <1>2, <1>3, BeginsIsPrefix DEF p

(* When the writing threads take turns, no fork replaces what lies deeper  *)
(* than the chain lock, and nothing else but a reset or a stop does        *)
(* (apply_fork, CHAIN_LOCK_DEPTH).                                         *)
THEOREM TurnsKeepLock ==
  ASSUME TakeTurns
  PROVE  Spec => LockHolds
<1>1. Init => LockInv
  BY IdleGood DEF Init, LockInv
<1>2. TypeInv /\ LinkInv /\ LockInv /\ [Next]_vars => LockInv'
  BY LockNext
<1>3. TypeInv /\ LockInv /\ [Next]_vars
        => [up /\ up' /\ chain' # <<>>
              => IsPrefix(SubSeq(chain, 1, Len(chain) - LockDepth), chain')]_vars
  BY LockStep
<1> QED
  BY <1>1, <1>2, <1>3, TypeInit, TypeNext, LinkInit, LinkNext, PTL DEF Spec, LockHolds

(***************************************************************************)
(* The append-only ledger                                                  *)
(***************************************************************************)
LEMMA LeastOf ==
  ASSUME NEW S \in SUBSET Nat, S # {}
  PROVE  \E x \in S : \A y \in S : x <= y
<1> DEFINE R == OpToRel(<, Nat)
<1>1. IsWellFoundedOn(R, Nat)
  BY NatLessThanWellFounded
<1>2. \A x, y \in Nat : x < y => <<x, y>> \in R
  BY Zenon DEF OpToRel
<1> HIDE DEF R
<1>3. PICK x \in S : \A y \in S : ~ (<<y, x>> \in R)
  BY <1>1, WFMin
<1>4. ASSUME NEW y \in S PROVE x <= y
  <2>1. ~ (<<y, x>> \in R) /\ x \in Nat /\ y \in Nat
    BY <1>3
  <2> QED  BY <1>2, <2>1
<1> QED  BY <1>4

(* An event's id names the event and so, by the hash of the event before   *)
(* it, all that came before: two whole chains of events known by their ids *)
(* that have the same head are the same.                                   *)
LEMMA OnePast ==
  ASSUME NEW M, M \subseteq Event, \A x, y \in M : x.id = y.id => x = y,
         NEW c \in Seq(Event), NEW d \in Seq(Event),
         \A i \in 1 .. Len(c) : c[i] \in M, \A i \in 1 .. Len(d) : d[i] \in M,
         IsLinked(c), IsLinked(d), HeadOf(c) = HeadOf(d)
  PROVE  c = d
<1> DEFINE Alike(x, y) == x = y /\ \A k \in 1 .. x : c[k] = d[k]
           Bad == {x \in Nat : x \in 1 .. Len(c)
                                 /\ \E y \in 1 .. Len(d) : c[x] = d[y] /\ ~Alike(x, y)}
<1>1. /\ DOMAIN c = 1 .. Len(c) /\ DOMAIN d = 1 .. Len(d)
      /\ Len(c) \in Nat /\ Len(d) \in Nat
  OBVIOUS
<1>2. /\ \A i \in 1 .. Len(c) : c[i].prev = (IF i = 1 THEN Genesis ELSE c[i - 1].id)
      /\ \A i \in 1 .. Len(d) : d[i].prev = (IF i = 1 THEN Genesis ELSE d[i - 1].id)
  BY <1>1 DEF IsLinked
<1>3. \A e \in M : e.id # Genesis
  BY LedgerAssumption DEF Event
<1>4. \A x \in 1 .. Len(c), y \in 1 .. Len(d) : c[x].id = d[y].id => c[x] = d[y]
  OBVIOUS
<1>5. Bad = {}
  <2> SUFFICES ASSUME Bad # {} PROVE FALSE
    OBVIOUS
  <2>1. PICK x \in Bad : \A z \in Bad : x <= z
    <3>1. Bad \in SUBSET Nat
      OBVIOUS
    <3> HIDE DEF Bad
    <3> QED  BY <3>1, LeastOf
  <2>2. PICK y \in 1 .. Len(d) : c[x] = d[y] /\ ~Alike(x, y)
    BY <2>1
  <2>3. x \in 1 .. Len(c) /\ x \in Nat \ {0} /\ y \in Nat \ {0}
    BY <1>1, <2>1
  <2>4. (IF x = 1 THEN Genesis ELSE c[x - 1].id) = (IF y = 1 THEN Genesis ELSE d[y - 1].id)
    <3>1. /\ c[x].prev = (IF x = 1 THEN Genesis ELSE c[x - 1].id)
          /\ d[y].prev = (IF y = 1 THEN Genesis ELSE d[y - 1].id)
      BY <1>2, <2>2, <2>3
    <3> QED  BY <2>2, <3>1
  <2>5. /\ x # 1 => x - 1 \in 1 .. Len(c) /\ x - 1 \in Nat
        /\ y # 1 => y - 1 \in 1 .. Len(d)
    BY <1>1, <2>2, <2>3
  <2>6. /\ x # 1 => c[x - 1].id # Genesis
        /\ y # 1 => d[y - 1].id # Genesis
    BY <1>3, <2>5
  <2>7. CASE x = 1
    <3>1. y = 1
      BY <2>4, <2>6, <2>7
    <3> QED  BY <2>2, <2>7, <3>1
  <2>8. CASE x # 1
    <3>1. y # 1 /\ c[x - 1] = d[y - 1]
      BY <1>4, <2>4, <2>5, <2>6, <2>8
    <3>2. Alike(x - 1, y - 1)
      <4>1. x - 1 \notin Bad
        <5>1. ~(x <= x - 1)
          BY <2>3
        <5> HIDE DEF Bad
        <5> QED  BY <2>1, <5>1
      <4> QED  BY <2>5, <2>8, <3>1, <4>1
    <3>3. x = y
      BY <2>3, <3>2
    <3>4. \A k \in 1 .. x : k \in 1 .. (x - 1) \/ k = x
      BY <2>3
    <3> QED  BY <2>2, <3>2, <3>3, <3>4
  <2> QED  BY <2>7, <2>8
<1>6. \A x \in 1 .. Len(c), y \in 1 .. Len(d) : c[x] = d[y] => Alike(x, y)
  BY <1>5
<1>7. CASE c = <<>>
  <2>1. d = <<>>
    <3> SUFFICES ASSUME d # <<>> PROVE FALSE
      OBVIOUS
    <3>1. Len(d) \in 1 .. Len(d)
      BY <1>1
    <3>2. d[Len(d)].id # Genesis
      BY <1>3, <3>1
    <3> QED  BY <1>7, <3>2 DEF HeadOf, Last
  <2> QED  BY <1>7, <2>1
<1>8. CASE c # <<>>
  <2>1. Len(c) \in 1 .. Len(c)
    BY <1>1, <1>8
  <2>2. HeadOf(c) = c[Len(c)].id /\ c[Len(c)].id # Genesis
    BY <1>3, <1>8, <2>1 DEF HeadOf, Last
  <2>3. d # <<>>
    BY <2>2 DEF HeadOf
  <2>4. Len(d) \in 1 .. Len(d) /\ HeadOf(d) = d[Len(d)].id
    BY <1>1, <2>3 DEF HeadOf, Last
  <2>5. c[Len(c)] = d[Len(d)]
    BY <1>4, <2>1, <2>2, <2>4
  <2>6. Alike(Len(c), Len(d))
    <3> HIDE DEF Alike
    <3> QED  BY <1>6, <2>1, <2>4, <2>5
  <2>7. Len(c) = Len(d) /\ \A k \in 1 .. Len(c) : c[k] = d[k]
    BY <2>6
  <2> QED  BY <2>7, SeqEqual
<1> QED  BY <1>7, <1>8

(* Nothing is archived.                                                    *)
AllHot == cold = 0

(* An event may follow a chain if it does so by the tables that cover it.  *)
LEMMA TabledFollows ==
  ASSUME NEW c \in Seq(Event), NEW s \in [Authors -> 0 .. MaxSeq], NEW r,
         Covered(c, 0, s), Listed(c, 0, r), NEW e \in Event,
         e.prev = HeadOf(c), Admissible(e, s, r)
  PROVE  Promise!Follows(e, c)
<1>1. \A i \in 1 .. Len(c) : c[i] \in Event /\ i \in 0 + 1 .. Len(c)
  OBVIOUS
<1>2. \A x \in Event : x.seq \in Nat /\ x.author \in Authors
  BY LedgerAssumption DEF Event, Seqs
<1>3. \A a \in Authors : s[a] \in Nat
  BY LedgerAssumption
<1>4. ASSUME NEW x \in Range(c), x.author = e.author
      PROVE  x.seq < e.seq /\ (x.kind = "key_revoke" => e.kind = "key_revoke")
  <2>1. PICK i \in 1 .. Len(c) : x = c[i]
    BY <1>4 DEF Range
  <2>2. c[i].seq <= s[c[i].author] /\ e.seq > s[e.author]
    BY <1>1 DEF Covered, Admissible
  <2>3. x.seq < e.seq
    BY <1>1, <1>2, <1>3, <1>4, <2>1, <2>2
  <2>4. x.kind = "key_revoke" => e.author \in r
    BY <1>1, <1>4, <2>1 DEF Listed
  <2> QED  BY <2>3, <2>4 DEF Admissible
<1> QED
  BY <1>4 DEF Promise!Follows, HeadOf, Range, Promise!Range, Last, Promise!Last

(* And the tables rebuilt for a chain say no more than the chain does.     *)
LEMMA FollowsTabled ==
  ASSUME NEW c \in Seq(Event), NEW e \in Event, Promise!Follows(e, c)
  PROVE  Admissible(e, RebuiltSequences(c, 0), RebuiltRevoked(c, 0))
<1>1. \A x \in Event : x.seq \in 1 .. MaxSeq /\ x.author \in Authors
  BY DEF Event, Seqs
<1>2. Hot(c, 0) \subseteq Range(c) /\ Hot(c, 0) \subseteq Event /\ MaxSeq \in Nat
  <2>1. \A i \in 0 + 1 .. Len(c) : i \in DOMAIN c /\ c[i] \in Event
    OBVIOUS
  <2> QED  BY <2>1, LedgerAssumption DEF Hot, Range
<1>3. \A x \in Hot(c, 0) : x.author = e.author =>
        x.seq < e.seq /\ (x.kind = "key_revoke" => e.kind = "key_revoke")
  BY <1>2 DEF Promise!Follows, Range, Promise!Range
<1> DEFINE Numbers == {0} \cup {x.seq : x \in {y \in Hot(c, 0) : y.author = e.author}}
<1>4. Numbers \in SUBSET (0 .. MaxSeq) /\ Numbers # {}
  BY <1>1, <1>2
<1>5. \A n \in Numbers : n < e.seq
  BY <1>1, <1>3
<1>6. RebuiltSequences(c, 0)[e.author] = Max(Numbers)
  BY <1>1 DEF RebuiltSequences
<1> HIDE DEF Numbers
<1>7. Max(Numbers) \in Numbers
  BY <1>2, <1>4, MaxInside
<1>8. e.author \in RebuiltRevoked(c, 0) => e.kind = "key_revoke"
  BY <1>3 DEF RebuiltRevoked
<1> DEFINE top == Max(Numbers)
<1>9. top \in 0 .. MaxSeq /\ top < e.seq /\ RebuiltSequences(c, 0)[e.author] = top
  BY <1>4, <1>5, <1>6, <1>7
<1> HIDE DEF top
<1>10. e.seq > top
  BY <1>1, <1>2, <1>9
<1> QED  BY <1>8, <1>9, <1>10 DEF Admissible

(* The events with an id: those once on the chain, the write-ahead entry   *)
(* and what the writers are about to add.                                  *)
Named ==
  made \cup ({wal} \ {NoEvent})
       \cup {job[t].ev : t \in {u \in WriterThreads : job[u].op \in {"commit", "ingest"}}}

Past(c) == c \in Seq(Event) /\ (\A i \in 1 .. Len(c) : c[i] \in made) /\ IsLinked(c)

(* An id names one event; the file, and what is on the way there, is a     *)
(* first part of the chain; and the write-ahead entry could follow the     *)
(* past it names, whatever has become of it.                               *)
PromiseInv ==
  /\ \A x, y \in Named : x.id = y.id => x = y
  /\ Past(chain)
  /\ file.cold = 0 /\ Begins(file.chain, chain)
  /\ \A f \in {"timer", "sync"} : flush[f].cold = 0 /\ Begins(flush[f].chain, chain)
  /\ ~up => \A f \in {"timer", "sync"} : flush[f].chain = <<>>
  /\ wal # NoEvent =>
       \E c : Past(c) /\ HeadOf(c) = wal.prev /\ Promise!Follows(wal, c)

(* The loop alone writes.                                                  *)
Alone == TakeTurns /\ Writers \subseteq {"loop"} /\ ~MayStale

AllInv == TypeInv /\ LinkInv /\ RiseInv /\ SilentInv

(* What the writer has checked still follows the chain when it is added.   *)
LEMMA JobFollows ==
  ASSUME AllInv, AllHot, NEW t \in WriterThreads, job[t].op \in {"commit", "ingest"}
  PROVE  job[t].ev \in Event /\ Promise!Follows(job[t].ev, chain)
<1>1. /\ chain \in Seq(Event) /\ sequences \in [Authors -> 0 .. MaxSeq]
      /\ job[t].ev \in Event
  BY DEF AllInv, TypeInv, ChainOK, JobsOK, GoodJob
<1>2. Covered(chain, 0, sequences) /\ Listed(chain, 0, revoked)
  BY DEF AllInv, RiseInv, SilentInv, AllHot
<1>3. job[t].ev.prev = HeadOf(chain)
  BY DEF AllInv, LinkInv, LinkedJob, HeadHash
<1>4. Admissible(job[t].ev, sequences, revoked)
  BY DEF AllInv, RiseInv, RisingJob, SilentInv, SilentJob, Admissible
<1> QED  BY <1>1, <1>2, <1>3, <1>4, TabledFollows

(* Ids stay unique when what they name becomes less, or one event more     *)
(* that is named already or has an id of its own.                          *)
LEMMA NamedStays ==
  ASSUME PromiseInv, NEW e, Named' \subseteq Named \cup {e},
         e \in Named \/ \A x \in Named : x.id # e.id
  PROVE  \A x, y \in Named' : x.id = y.id => x = y
  BY DEF PromiseInv

LEMMA NamedLess ==
  ASSUME PromiseInv, Named' \subseteq Named
  PROVE  \A x, y \in Named' : x.id = y.id => x = y
  BY DEF PromiseInv

(* A step that leaves the chain alone.                                     *)
LEMMA ChainStays ==
  ASSUME PromiseInv, chain' = chain, made' = made,
         \A x, y \in Named' : x.id = y.id => x = y,
         \/ file' = file
         \/ file'.cold = 0 /\ Begins(file'.chain, chain),
         \A f \in {"timer", "sync"} :
           \/ flush'[f] = flush[f]
           \/ flush'[f].cold = 0 /\ Begins(flush'[f].chain, chain),
         \/ up'
         \/ \A f \in {"timer", "sync"} : flush'[f].chain = <<>>
         \/ ~up /\ UNCHANGED flush,
         \/ wal' \in {wal, NoEvent}
         \/ \E c : Past(c) /\ HeadOf(c) = wal'.prev /\ Promise!Follows(wal', c)
  PROVE  PromiseInv'
<1>1. \A c : Past(c)' <=> Past(c)
  BY DEF Past
<1>2. wal' # NoEvent => \E c : Past(c)' /\ HeadOf(c) = wal'.prev /\ Promise!Follows(wal', c)
  BY <1>1 DEF PromiseInv
<1>3. Past(chain)' /\ file'.cold = 0 /\ Begins(file'.chain, chain')
  BY <1>1 DEF PromiseInv
<1>4. \A f \in {"timer", "sync"} : flush'[f].cold = 0 /\ Begins(flush'[f].chain, chain')
  BY DEF PromiseInv
<1>5. ~up' => \A f \in {"timer", "sync"} : flush'[f].chain = <<>>
  BY DEF PromiseInv
<1> QED  BY <1>2, <1>3, <1>4, <1>5 DEF PromiseInv

(* One job changes and no other.                                           *)
LEMMA NamedByJob ==
  ASSUME JobsOK, made' = made, NEW t \in WriterThreads, NEW j,
         job' = [job EXCEPT ![t] = j]
  PROVE  /\ j.op \notin {"commit", "ingest"} /\ wal' \in {wal, NoEvent} => Named' \subseteq Named
         /\ wal' \in {wal, NoEvent, j.ev} => Named' \subseteq Named \cup {j.ev}
<1>1. \A u \in WriterThreads : job'[u] = IF u = t THEN j ELSE job[u]
  BY DEF JobsOK
<1> QED  BY <1>1 DEF Named

LEMMA EmptyBegins == \A c : Len(c) \in Nat => Begins(<<>>, c) /\ Begins(c, c)
  BY DEF Begins

(* The file holds a past of its own, and a boot never puts its entry aside *)
(* and starts from genesis: the entry that names the head of the file may  *)
(* follow it.                                                              *)
LEMMA FilePast ==
  ASSUME AllInv, PromiseInv
  PROVE  Past(file.chain)
<1>1. /\ file.chain \in Seq(Event) /\ chain \in Seq(Event) /\ Past(chain)
      /\ Begins(file.chain, chain) /\ IsLinked(file.chain)
  BY DEF AllInv, TypeInv, ChainOK, DiskOK, LinkInv, PromiseInv
<1>2. \A i \in 1 .. Len(file.chain) : file.chain[i] = chain[i] /\ i \in 1 .. Len(chain)
  BY <1>1 DEF Begins
<1> QED  BY <1>1, <1>2 DEF Past

LEMMA NoStartFromGenesis ==
  ASSUME Alone, AllInv, PromiseInv
  PROVE  ~BootDegraded
<1> SUFFICES ASSUME BootDegraded PROVE FALSE
  OBVIOUS
<1>1. /\ wal \in Event /\ wal # NoEvent /\ wal.prev = HeadOf(file.chain)
      /\ ~WalAdmissible /\ file.cold = 0 /\ made \subseteq Event
  BY DEF BootDegraded, Replayable, Alone, AllInv, TypeInv, DiskOK, FlagsOK, PromiseInv
<1>2. PICK c : Past(c) /\ HeadOf(c) = wal.prev /\ Promise!Follows(wal, c)
  BY <1>1 DEF PromiseInv
<1>3. \A x, y \in made : x.id = y.id => x = y
  BY DEF PromiseInv, Named
<1>4. Past(file.chain)
  BY FilePast
<1>5. file.chain = c
  BY <1>1, <1>2, <1>3, <1>4, OnePast DEF Past
<1>6. Admissible(wal, RebuiltSequences(file.chain, 0), RebuiltRevoked(file.chain, 0))
  BY <1>1, <1>2, <1>4, <1>5, FollowsTabled DEF Past
<1> QED  BY <1>1, <1>6 DEF WalAdmissible

LEMMA PromiseNext ==
  ASSUME Alone, AllInv, AllHot, AllHot', PromiseInv, [Next]_vars
  PROVE  PromiseInv'
<1>0. /\ JobsOK /\ chain \in Seq(Event) /\ Len(chain) \in Nat
      /\ file.chain \in Seq(Event) /\ Len(file.chain) \in Nat
      /\ \A f \in {"timer", "sync"} : flush[f] \in Flushes /\ Len(flush[f].chain) \in Nat
      /\ flush \in [{"timer", "sync"} -> Flushes]
      /\ wal \in Event \cup {NoEvent}
      /\ sequences \in [Authors -> 0 .. MaxSeq]
      /\ made \subseteq Event
  BY DEF AllInv, TypeInv, ChainOK, DiskOK, FlushesOK, Flushes, FlagsOK
<1>1. Named \subseteq made \cup InFlight
  BY DEF Named, InFlight
<1>2. \A i \in Least(Unused) : i \in Ids /\ \A x \in Named : x.id # i
  BY <1>1 DEF Least, Unused
<1>3. Past(chain)
  BY DEF PromiseInv
<1>4. ASSUME NEW t \in WriterThreads, AppendCheck(t) PROVE PromiseInv'
  <2>1. PICK d : job' = [job EXCEPT ![t] =
                           [op |-> "append", ev |-> d, new |-> <<>>, base |-> 0]]
    BY <1>4 DEF AppendCheck
  <2> DEFINE j == [op |-> "append", ev |-> d, new |-> <<>>, base |-> 0]
  <2>3. job' = [job EXCEPT ![t] = j] /\ j.op \notin {"commit", "ingest"}
    BY <2>1
  <2> HIDE DEF j
  <2>4. made' = made /\ wal' \in {wal, NoEvent}
    BY <1>4 DEF AppendCheck
  <2>2. Named' \subseteq Named
    BY <1>0, <2>3, <2>4, NamedByJob
  <2> QED  BY <1>4, <2>2, NamedLess, ChainStays DEF AppendCheck, Free
<1>5. ASSUME NEW t \in WriterThreads, AppendDraft(t) PROVE PromiseInv'
  <2>1. /\ job[t].ev \in Draft
        /\ job[t].ev.seq > sequences[job[t].ev.author]
        /\ job[t].ev.author \in revoked => job[t].ev.kind = "key_revoke"
    BY <1>0, <1>5
    DEF AppendDraft, JobsOK, GoodJob, AllInv, RiseInv, RisingJob, SilentInv, SilentJob
  <2>2. PICK i \in Least(Unused) :
          LET e == [job[t].ev EXCEPT !.id = i, !.prev = HeadHash]
          IN /\ job' = [job EXCEPT ![t] = [op |-> "commit", ev |-> e, new |-> <<>>, base |-> 0]]
             /\ wal' \in IF MayFail THEN {wal, e} ELSE {e}
    BY <1>5 DEF AppendDraft
  <2> DEFINE e == [job[t].ev EXCEPT !.id = i, !.prev = HeadHash]
             j == [op |-> "commit", ev |-> e, new |-> <<>>, base |-> 0]
  <2>3. /\ e \in Event
        /\ e.id = i /\ e.prev = HeadHash /\ e.seq = job[t].ev.seq
        /\ e.author = job[t].ev.author /\ e.kind = job[t].ev.kind
    BY <1>2, <2>1, DraftBecomesEvent DEF AllInv, TypeInv, Draft
  <2>4. wal' \in {wal, e} /\ job' = [job EXCEPT ![t] = j] /\ j.ev = e
    BY <2>2
  <2> HIDE DEF e, j
  <2>5. Named' \subseteq Named \cup {e}
    BY <1>0, <1>5, <2>4, NamedByJob DEF AppendDraft
  <2>6. \A x \in Named : x.id # e.id
    BY <1>2, <2>3
  <2>7. \A x, y \in Named' : x.id = y.id => x = y
    BY <2>5, <2>6, NamedStays
  <2>8. Promise!Follows(e, chain)
    <3>1. Admissible(e, sequences, revoked)
      BY <2>1, <2>3 DEF Admissible
    <3>2. Covered(chain, 0, sequences) /\ Listed(chain, 0, revoked)
      BY DEF AllInv, RiseInv, SilentInv, AllHot
    <3> QED  BY <1>0, <2>3, <3>1, <3>2, TabledFollows DEF HeadHash
  <2>9. \/ wal' \in {wal, NoEvent}
        \/ \E c : Past(c) /\ HeadOf(c) = wal'.prev /\ Promise!Follows(wal', c)
    BY <1>3, <2>3, <2>4, <2>8 DEF HeadHash
  <2> QED  BY <1>5, <2>7, <2>9, ChainStays DEF AppendDraft
<1>6. ASSUME NEW t \in WriterThreads, IngestCheck(t) PROVE PromiseInv'
  <2>1. PICK e \in Offered :
          job' = [job EXCEPT ![t] = [op |-> "ingest", ev |-> e, new |-> <<>>, base |-> 0]]
    BY <1>6 DEF IngestCheck
  <2> DEFINE j == [op |-> "ingest", ev |-> e, new |-> <<>>, base |-> 0]
  <2>2. job' = [job EXCEPT ![t] = j] /\ j.ev = e
    BY <2>1
  <2> HIDE DEF j
  <2>3. Named' \subseteq Named \cup {e}
    BY <1>0, <1>6, <2>2, NamedByJob DEF IngestCheck
  <2>4. e \in Named \/ \A x \in Named : x.id # e.id
    BY <1>2 DEF Offered, Named
  <2>5. \A x, y \in Named' : x.id = y.id => x = y
    BY <2>3, <2>4, NamedStays
  <2> QED  BY <1>6, <2>5, ChainStays DEF IngestCheck, Free
<1>7. ASSUME NEW t \in WriterThreads, AppendCommit(t) \/ IngestAccept(t) PROVE PromiseInv'
  <2> DEFINE e == job[t].ev
  <2>1. /\ job[t].op \in {"commit", "ingest"} /\ Accept(e)
        /\ job' = [job EXCEPT ![t] = Idle] /\ up
    BY <1>7 DEF AppendCommit, IngestAccept
  <2>2. e \in Event /\ e \in Named /\ e.prev = HeadOf(chain)
    BY <1>0, <2>1
    DEF JobsOK, GoodJob, Named, AllInv, LinkInv, LinkedJob, HeadHash
  <2>3. Named' \subseteq Named
    <3>1. \A u \in WriterThreads : job'[u] = IF u = t THEN Idle ELSE job[u]
      BY <1>0, <2>1 DEF JobsOK
    <3>2. Idle.op \notin {"commit", "ingest"}
      BY DEF Idle
    <3>3. made' = made \cup {e} /\ wal' = wal
      BY <2>1 DEF Accept
    <3> QED  BY <2>2, <3>1, <3>2, <3>3 DEF Named
  <2> HIDE DEF e
  <2>4. /\ chain' = Append(chain, e) /\ made' = made \cup {e}
        /\ file' = file /\ wal' = wal /\ up' = up /\ Save(cold)
    BY <2>1 DEF Accept
  <2>5. \A c : Past(c) => Past(c)'
    BY <2>4 DEF Past
  <2>6. Past(chain)'
    <3>1. /\ chain' \in Seq(Event) /\ IsLinked(chain')
          /\ Len(chain') = Len(chain) + 1
          /\ \A i \in 1 .. Len(chain) : chain'[i] = chain[i]
          /\ chain'[Len(chain) + 1] = e
      BY <1>0, <1>3, <2>2, <2>4, AppendLinked, AppendBegins DEF Past
    <3>2. \A i \in 1 .. Len(chain') : i \in 1 .. Len(chain) \/ i = Len(chain) + 1
      BY <1>0, <3>1
    <3> QED  BY <1>3, <2>4, <3>1, <3>2 DEF Past
  <2>7. file'.cold = 0 /\ Begins(file'.chain, chain')
    BY <1>0, <2>2, <2>4, AppendBegins DEF PromiseInv
  <2>8. \A f \in {"timer", "sync"} : flush'[f].cold = 0 /\ Begins(flush'[f].chain, chain')
    <3>1. \A f \in {"timer", "sync"} :
            flush'[f].chain = flush[f].chain /\ flush'[f].cold = flush[f].cold
      BY <1>0, <2>4 DEF Save, Flushes
    <3> QED  BY <1>0, <2>2, <2>4, <3>1, AppendBegins DEF PromiseInv
  <2>9. \A x, y \in Named' : x.id = y.id => x = y
    BY <2>3, NamedLess
  <2>10. wal' # NoEvent =>
           \E c : Past(c)' /\ HeadOf(c) = wal'.prev /\ Promise!Follows(wal', c)
    BY <2>4, <2>5 DEF PromiseInv
  <2> QED  BY <2>1, <2>4, <2>6, <2>7, <2>8, <2>9, <2>10 DEF PromiseInv
<1>8. ASSUME NEW t \in WriterThreads,
             \/ \E k \in 1 .. Len(chain) : ForkCheck(t, k)
             \/ ForkApply(t) \/ Reset(t)
      PROVE  FALSE
  BY <1>8 DEF ForkCheck, ForkApply, Reset, Free, Alone, AllInv, SilentInv, SilentJob
<1>9. ASSUME NEW f \in {"timer", "sync"},
             FlushStart(f) \/ FlushWrite(f) \/ FlushFail(f) \/ FlushDone(f)
      PROVE  PromiseInv'
  <2>1. /\ chain' = chain /\ made' = made /\ up' = up /\ up /\ job' = job
        /\ wal' \in {wal, NoEvent}
    BY <1>9 DEF FlushStart, FlushWrite, FlushFail, FlushDone, WalGone
  <2>2. Named' \subseteq Named
    BY <2>1 DEF Named
  <2>3. \/ file' = file
        \/ file'.cold = 0 /\ Begins(file'.chain, chain)
    BY <1>9 DEF FlushStart, FlushWrite, FlushFail, FlushDone, PromiseInv
  <2>4. \A g \in {"timer", "sync"} :
          \/ flush'[g] = flush[g]
          \/ flush'[g].cold = 0 /\ Begins(flush'[g].chain, chain)
    <3>1. /\ Off.cold = 0 /\ Begins(Off.chain, chain)
          /\ [Off EXCEPT !.at = "written"].cold = 0
          /\ Begins([Off EXCEPT !.at = "written"].chain, chain)
      BY <1>0, EmptyBegins DEF Off
    <3>2. Begins(chain, chain)
      BY <1>0, EmptyBegins
    <3>3. \A g \in {"timer", "sync"} :
            \/ flush'[g] = flush[g]
            \/ flush'[g] = Off
            \/ flush'[g] = [Off EXCEPT !.at = "written"]
            \/ flush'[g] = [at |-> "writing", chain |-> chain, cold |-> cold]
      BY <1>0, <1>9 DEF FlushStart, FlushWrite, FlushFail, FlushDone
    <3> DEFINE w == [at |-> "writing", chain |-> chain, cold |-> cold]
    <3>4. w.cold = 0 /\ Begins(w.chain, chain)
      BY <3>2 DEF AllHot
    <3> HIDE DEF w
    <3>5. \A g \in {"timer", "sync"} :
            flush'[g] = flush[g] \/ flush'[g] = Off
              \/ flush'[g] = [Off EXCEPT !.at = "written"] \/ flush'[g] = w
      BY <3>3 DEF w
    <3> QED  BY <3>1, <3>4, <3>5
  <2> QED  BY <2>1, <2>2, <2>3, <2>4, NamedLess, ChainStays
<1>10. CASE Crash \/ Exit
  <2>1. /\ chain' = chain /\ made' = made /\ wal' \in {wal, NoEvent}
        /\ \A t \in WriterThreads : job'[t] = Idle
        /\ \A f \in {"timer", "sync"} : flush'[f] = Off
        /\ file' = file \/ file' = [chain |-> chain, cold |-> cold]
    BY <1>10 DEF Crash, Exit, Stopped, WalGone
  <2>2. Named' \subseteq Named
    BY <2>1 DEF Named, Idle
  <2>3. Begins(chain, chain) /\ Begins(Off.chain, chain) /\ Off.cold = 0 /\ Off.chain = <<>>
    BY <1>0, EmptyBegins DEF Off
  <2>4. \/ file' = file
        \/ file'.cold = 0 /\ Begins(file'.chain, chain)
    <3> DEFINE w == [chain |-> chain, cold |-> cold]
    <3>1. w.cold = 0 /\ Begins(w.chain, chain)
      BY <2>3 DEF AllHot
    <3>2. file' = file \/ file' = w
      BY <2>1
    <3> HIDE DEF w
    <3> QED  BY <3>1, <3>2
  <2> QED  BY <2>1, <2>2, <2>3, <2>4, NamedLess, ChainStays
<1>11. Past(file.chain)
  BY FilePast
<1>12. CASE BootPlain \/ BootDropWal
  <2>1. /\ ~up /\ up' /\ chain' = file.chain /\ file' = file /\ flush' = flush
        /\ made' = made /\ job' = job /\ wal' \in {wal, NoEvent}
    BY <1>12 DEF BootPlain, BootDropWal, Loaded, WalGone
  <2>2. Named' \subseteq Named
    BY <2>1 DEF Named
  <2>3. \A x, y \in Named' : x.id = y.id => x = y
    BY <2>2, NamedLess
  <2>4. \A c : Past(c)' <=> Past(c)
    BY <2>1 DEF Past
  <2>5. Past(chain)' /\ file'.cold = 0 /\ Begins(file'.chain, chain')
    BY <1>0, <1>11, <2>1, <2>4, EmptyBegins DEF PromiseInv
  <2>6. \A f \in {"timer", "sync"} : flush'[f].cold = 0 /\ Begins(flush'[f].chain, chain')
    BY <1>0, <2>1, EmptyBegins DEF PromiseInv
  <2>7. wal' # NoEvent => \E c : Past(c)' /\ HeadOf(c) = wal'.prev /\ Promise!Follows(wal', c)
    BY <2>1, <2>4 DEF PromiseInv
  <2> QED  BY <2>1, <2>3, <2>5, <2>6, <2>7 DEF PromiseInv
<1>13. ASSUME NEW w \in BOOLEAN, BootReplay(w) PROVE PromiseInv'
  <2>1. /\ ~up /\ up' /\ chain' = Append(file.chain, wal) /\ made' = made \cup {wal}
        /\ wal \in Event /\ wal # NoEvent /\ wal.prev = HeadOf(file.chain)
        /\ job' = job /\ wal' \in {wal, NoEvent}
        /\ flush' = [flush EXCEPT !["timer"].at = "armed"]
        /\ file' = file \/ file' = [chain |-> chain', cold |-> cold']
    BY <1>0, <1>13 DEF BootReplay, Replayable, WalGone
  <2>2. Named' \subseteq Named
    BY <2>1 DEF Named
  <2>3. \A x, y \in Named' : x.id = y.id => x = y
    BY <2>2, NamedLess
  <2>4. \A c : Past(c) => Past(c)'
    BY <2>1 DEF Past
  <2>5. Past(chain)'
    <3>1. /\ chain' \in Seq(Event) /\ IsLinked(chain')
          /\ Len(chain') = Len(file.chain) + 1
          /\ \A i \in 1 .. Len(file.chain) : chain'[i] = file.chain[i]
          /\ chain'[Len(file.chain) + 1] = wal
      BY <1>0, <1>11, <2>1, AppendLinked, AppendBegins DEF Past
    <3>2. \A i \in 1 .. Len(chain') : i \in 1 .. Len(file.chain) \/ i = Len(file.chain) + 1
      BY <1>0, <3>1
    <3> QED  BY <1>11, <2>1, <3>1, <3>2 DEF Past
  <2>6. Len(chain') \in Nat /\ Begins(file.chain, chain')
    BY <1>0, <2>1, AppendBegins
  <2>7. file'.cold = 0 /\ Begins(file'.chain, chain')
    <3>1. CASE file' = file
      BY <2>6, <3>1 DEF PromiseInv
    <3>2. CASE file' = [chain |-> chain', cold |-> cold']
      <4>1. file'.chain = chain' /\ file'.cold = cold'
        BY <3>2
      <4> QED  BY <2>6, <4>1, EmptyBegins DEF AllHot
    <3> QED  BY <2>1, <3>1, <3>2
  <2>8. \A f \in {"timer", "sync"} : flush'[f].cold = 0 /\ Begins(flush'[f].chain, chain')
    <3>1. \A f \in {"timer", "sync"} :
            flush'[f].chain = flush[f].chain /\ flush'[f].cold = flush[f].cold
      BY <1>0, <2>1 DEF Flushes
    <3> QED  BY <2>1, <2>6, <3>1, EmptyBegins DEF PromiseInv
  <2>9. wal' # NoEvent => \E c : Past(c)' /\ HeadOf(c) = wal'.prev /\ Promise!Follows(wal', c)
    BY <2>1, <2>4 DEF PromiseInv
  <2> QED  BY <2>1, <2>3, <2>5, <2>7, <2>8, <2>9 DEF PromiseInv
<1>14. ~BootDegraded
  BY NoStartFromGenesis
<1>15. CASE UNCHANGED vars
  <2>1. Named' \subseteq Named
    BY <1>15 DEF vars, Named
  <2> QED  BY <1>15, <2>1, NamedLess, ChainStays DEF vars
<1> QED
  BY <1>4, <1>5, <1>6, <1>7, <1>8, <1>9, <1>10, <1>12, <1>13, <1>14, <1>15 DEF Next

(* Each step is one of the promise or none of its business.                *)
LEMMA PromiseStep ==
  ASSUME Alone, AllInv, AllHot, PromiseInv, [Next]_vars, ~BootDegraded
  PROVE  [Promise!Next]_Promise!vars
<1>0. /\ chain \in Seq(Event) /\ file.chain \in Seq(Event) /\ wal \in Event \cup {NoEvent}
      /\ Begins(file.chain, chain) /\ file.cold = 0
  BY DEF AllInv, TypeInv, ChainOK, DiskOK, PromiseInv
<1>1. ASSUME UNCHANGED <<up, chain>> PROVE [Promise!Next]_Promise!vars
  BY <1>1 DEF Promise!vars
<1>2. ASSUME NEW t \in WriterThreads,
             AppendCheck(t) \/ AppendDraft(t) \/ IngestCheck(t)
      PROVE  [Promise!Next]_Promise!vars
  BY <1>1, <1>2 DEF AppendCheck, AppendDraft, IngestCheck
<1>3. ASSUME NEW t \in WriterThreads, AppendCommit(t) \/ IngestAccept(t)
      PROVE  [Promise!Next]_Promise!vars
  <2> DEFINE e == job[t].ev
  <2>1. /\ job[t].op \in {"commit", "ingest"} /\ up /\ up' = up
        /\ chain' = Append(chain, e)
    BY <1>3 DEF AppendCommit, IngestAccept, Accept
  <2>2. e \in Event /\ Promise!Follows(e, chain)
    BY <2>1, JobFollows
  <2> HIDE DEF e
  <2>3. chain' # <<>> /\ Last(chain') = e
    BY <1>0, <2>1, <2>2, AppendBegins
  <2>4. Promise!Last(chain') = e
    BY <2>3 DEF Last, Promise!Last
  <2>5. Promise!Grow(Promise!Last(chain'))
    BY <2>1, <2>2, <2>4 DEF Promise!Grow
  <2> QED  BY <2>3, <2>5 DEF Promise!Next
<1>4. ASSUME NEW t \in WriterThreads,
             \/ \E k \in 1 .. Len(chain) : ForkCheck(t, k)
             \/ ForkApply(t) \/ Reset(t)
      PROVE  FALSE
  BY <1>4 DEF ForkCheck, ForkApply, Reset, Free, Alone, AllInv, SilentInv, SilentJob
<1>5. ASSUME NEW f \in {"timer", "sync"},
             FlushStart(f) \/ FlushWrite(f) \/ FlushFail(f) \/ FlushDone(f)
      PROVE  [Promise!Next]_Promise!vars
  BY <1>1, <1>5 DEF FlushStart, FlushWrite, FlushFail, FlushDone
<1>6. CASE Crash \/ Exit
  BY <1>6 DEF Crash, Exit, Stopped, Promise!Stop, Promise!Next
<1>7. CASE BootPlain \/ BootDropWal
  <2>1. ~up /\ up' = TRUE /\ chain' = file.chain
    BY <1>7 DEF BootPlain, BootDropWal, Loaded
  <2>2. IsPrefix(chain', chain)
    BY <1>0, <2>1, BeginsIsPrefix
  <2> QED  BY <2>1, <2>2 DEF Promise!Boot, Promise!Next, IsPrefix, Promise!IsPrefix
<1>8. ASSUME NEW w \in BOOLEAN, BootReplay(w) PROVE [Promise!Next]_Promise!vars
  <2>1. /\ ~up /\ up' = TRUE /\ chain' = Append(file.chain, wal)
        /\ wal \in Event /\ wal.prev = HeadOf(file.chain) /\ WalAdmissible
    BY <1>0, <1>8 DEF BootReplay, Replayable
  <2>2. /\ chain' # <<>> /\ Front(chain') = file.chain /\ Last(chain') = wal
        /\ IsPrefix(file.chain, chain)
    BY <1>0, <2>1, AppendBegins, BeginsIsPrefix
  <2>3. Promise!Follows(wal, file.chain)
    <3>1. /\ RebuiltSequences(file.chain, 0) \in [Authors -> 0 .. MaxSeq]
          /\ Covered(file.chain, 0, RebuiltSequences(file.chain, 0))
          /\ Listed(file.chain, 0, RebuiltRevoked(file.chain, 0))
      BY <1>0, RebuiltTyped, RebuiltCovers, RebuiltLists
    <3> QED  BY <1>0, <2>1, <3>1, TabledFollows DEF WalAdmissible
  <2>4. /\ Promise!Front(chain') = file.chain /\ Promise!Last(chain') = wal
        /\ Promise!IsPrefix(file.chain, chain)
    BY <2>2 DEF Front, Promise!Front, Last, Promise!Last, IsPrefix, Promise!IsPrefix
  <2> QED  BY <2>1, <2>2, <2>3, <2>4 DEF Promise!Boot, Promise!Next
<1>9. CASE UNCHANGED vars
  BY <1>1, <1>9 DEF vars
<1> QED  BY <1>2, <1>3, <1>4, <1>5, <1>6, <1>7, <1>8, <1>9 DEF Next

LEMMA PromiseStart == Init => PromiseInv /\ Promise!Init
<1> SUFFICES ASSUME Init PROVE PromiseInv /\ Promise!Init
  OBVIOUS
<1>1. /\ made = {} /\ wal = NoEvent /\ chain = <<>> /\ file.chain = <<>> /\ file.cold = 0
      /\ \A f \in {"timer", "sync"} : flush[f].chain = <<>> /\ flush[f].cold = 0
      /\ \A t \in WriterThreads : job[t].op = "idle"
      /\ up = TRUE
  BY DEF Init, Off, Idle
<1>2. Named = {}
  <2>1. \A t \in WriterThreads : job[t].op \notin {"commit", "ingest"}
    BY <1>1
  <2> QED  BY <1>1, <2>1 DEF Named
<1>3. Past(<<>>) /\ Begins(<<>>, <<>>)
  BY EmptyLinked DEF Past, Begins
<1> QED  BY <1>1, <1>2, <1>3 DEF PromiseInv, Promise!Init

(* When the event loop alone writes, boots come within the freshness       *)
(* window and nothing is archived, the node is an append-only ledger: its  *)
(* chain grows by one event at a time that may follow, failed writes and   *)
(* crashes take events off its end only, and the write-ahead entry comes   *)
(* back only where it belongs (append, ingest_events, _flush, _load).      *)
THEOREM LoopKeepsPromise ==
  ASSUME Alone
  PROVE  Spec /\ [](cold = 0) => Promised
<1>0. TakeTurns /\ "rns" \notin Writers
  BY DEF Alone
<1>1. Spec => []AllInv
  <2>1. TypeInv /\ LinkInv /\ RiseInv /\ SilentInv => AllInv
    BY DEF AllInv
  <2> QED
    BY <1>0, <2>1, TypeInit, TypeNext, LinkInit, LinkNext, RiseInit, RiseNext, SilentInit,
       SilentNext, PTL DEF Spec
<1>2. AllInv /\ AllHot /\ AllHot' /\ PromiseInv /\ [Next]_vars => PromiseInv'
  BY PromiseNext
<1>3. AllInv /\ AllHot /\ AllHot' /\ PromiseInv /\ [Next]_vars
        => [Promise!Next]_Promise!vars
  BY PromiseStep, NoStartFromGenesis
<1>4. [](cold = 0) => []AllHot
  BY PTL DEF AllHot
<1> QED  BY <1>1, <1>2, <1>3, <1>4, PromiseStart, PTL DEF Spec, Promised, Promise!Spec
================================================================================
