------------------------------ MODULE LedgerProofs ------------------------------
(***************************************************************************)
(* What holds of Ledger for every set of authors and events and every      *)
(* bound: its typing whatever threads write, and, when they take turns,    *)
(* that the chain is whole in memory and on disk, that numbers rise, and,  *)
(* without forks, that a revoked key is silent.                            *)
(***************************************************************************)
EXTENDS Ledger, TLAPS, WellFoundedInduction

(* A nonempty set of numbers up to a bound has its maximum in it           *)
(* (_rebuild_state takes the largest number of each author).               *)
LEMMA MaxInside ==
  ASSUME NEW n \in Nat, NEW S \in SUBSET (0 .. n), S # {}
  PROVE  Max(S) \in S /\ \A x \in S : x <= Max(S)
<1> DEFINE T == {n - x : x \in S}
<1>0. \A x \in S : n - x \in Nat
  OBVIOUS
<1>1. T \subseteq Nat /\ T # {}
  BY <1>0, Zenon
<1>2. PICK y \in T : \A z \in T : <<z, y>> \notin OpToRel(<, Nat)
  BY <1>1, NatLessThanWellFounded, WFMin, Zenon
<1>3. PICK m \in S : y = n - m
  OBVIOUS
<1>4. ASSUME NEW x \in S PROVE m >= x
  <2>1. n - x \in T /\ n - x \in Nat /\ y \in Nat
    BY <1>1
  <2>2. ~ (n - x < y)
    BY <1>2, <2>1 DEF OpToRel
  <2> QED  BY <1>3, <2>2
<1>5. \E m1 \in S : \A x \in S : m1 >= x
  BY <1>4
<1>6. Max(S) \in S /\ \A x \in S : Max(S) >= x
  BY <1>5 DEF Max
<1> QED  BY <1>6

(* What is rebuilt at a boot or after a fork is a table of numbers and a   *)
(* set of authors, and no event in memory is beyond it (_rebuild_state,    *)
(* _rebuild_revocations).                                                  *)
LEMMA RebuiltTyped ==
  ASSUME NEW c \in Seq(Event), NEW k \in Nat
  PROVE  /\ RebuiltSequences(c, k) \in [Authors -> 0 .. MaxSeq]
         /\ RebuiltRevoked(c, k) \subseteq Authors
         /\ \A i \in k + 1 .. Len(c) : c[i].seq <= RebuiltSequences(c, k)[c[i].author]
<1>1. \A i \in k + 1 .. Len(c) : c[i] \in Event
  OBVIOUS
<1>2. Hot(c, k) \subseteq Event
  BY <1>1 DEF Hot
<1>3. \A e \in Event : e.seq \in 0 .. MaxSeq /\ e.author \in Authors
  BY LedgerAssumption DEF Event, Seqs
<1> DEFINE Numbers(a) == {0} \cup {e.seq : e \in {x \in Hot(c, k) : x.author = a}}
<1>4. \A a \in Authors : Numbers(a) \in SUBSET (0 .. MaxSeq) /\ Numbers(a) # {}
  BY <1>2, <1>3, LedgerAssumption
<1>5. \A a \in Authors : Max(Numbers(a)) \in 0 .. MaxSeq
                         /\ \A x \in Numbers(a) : x <= Max(Numbers(a))
  <2> TAKE a \in Authors
  <2>0. MaxSeq \in Nat
    BY LedgerAssumption
  <2> HIDE DEF Numbers
  <2> QED  BY <1>4, <2>0, MaxInside
<1>6. RebuiltSequences(c, k) = [a \in Authors |-> Max(Numbers(a))]
  BY DEF RebuiltSequences
<1>7. RebuiltRevoked(c, k) \subseteq Authors
  BY <1>2, <1>3 DEF RebuiltRevoked
<1>8. ASSUME NEW i \in k + 1 .. Len(c)
      PROVE  c[i].seq <= RebuiltSequences(c, k)[c[i].author]
  <2>1. c[i] \in Hot(c, k) /\ c[i].author \in Authors
    BY <1>1, <1>3 DEF Hot
  <2>2. c[i].seq \in Numbers(c[i].author)
    BY <2>1
  <2> HIDE DEF Numbers
  <2> QED  BY <1>5, <1>6, <2>1, <2>2
<1>9. RebuiltSequences(c, k) \in [Authors -> 0 .. MaxSeq]
  <2> HIDE DEF Numbers
  <2> QED  BY <1>5, <1>6
<1> QED  BY <1>7, <1>8, <1>9

(* The memory cap archives from the oldest events on, and never more than  *)
(* there are (_enforce_memory_cap).                                        *)
LEMMA ArchivedTyped ==
  ASSUME NEW c \in Seq(Event), NEW k \in 0 .. Len(c)
  PROVE  Archived(c, k) \in k .. Len(c)
  BY LedgerAssumption DEF Archived

(* The hash of the head is the id of an event or that of genesis.          *)
LEMMA HeadTyped ==
  ASSUME NEW c \in Seq(Event)
  PROVE  HeadOf(c) \in Ids \cup {Genesis}
<1>1. CASE c = <<>>
  BY <1>1 DEF HeadOf
<1>2. CASE c # <<>>
  <2>1. c[Len(c)] \in Event
    BY <1>2
  <2> QED  BY <1>2, <2>1 DEF HeadOf, Last, Event
<1> QED  BY <1>1, <1>2

GoodJob(j) ==
  /\ j \in Jobs
  /\ j.op \in {"commit", "ingest"} => j.ev \in Event
  /\ j.op = "append" => j.ev \in Draft
  /\ j.base <= Len(j.new)

GoodFlush(g) == g \in Flushes /\ g.cold <= Len(g.chain)

JobsOK == job \in [WriterThreads -> Jobs] /\ \A t \in WriterThreads : GoodJob(job[t])

FlushesOK ==
  /\ flush \in [{"timer", "sync"} -> Flushes]
  /\ \A f \in {"timer", "sync"} : GoodFlush(flush[f])

ChainOK ==
  /\ chain \in Seq(Event) /\ cold \in 0 .. Len(chain)
  /\ sequences \in [Authors -> 0 .. MaxSeq] /\ revoked \subseteq Authors

DiskOK ==
  /\ file \in [chain : Seq(Event), cold : Nat] /\ file.cold <= Len(file.chain)
  /\ wal \in Event \cup {NoEvent}

FlagsOK ==
  /\ up \in BOOLEAN /\ clean \in BOOLEAN /\ dirty \in BOOLEAN
  /\ made \subseteq Event

(* The typing invariant: what a writer has checked is an event by the time *)
(* it is added, and no snapshot has more events archived than it has.      *)
TypeInv == ChainOK /\ JobsOK /\ FlushesOK /\ DiskOK /\ FlagsOK

LEMMA IdleGood == GoodJob(Idle) /\ Idle.op = "idle"
  BY DEF GoodJob, Idle, Jobs

LEMMA OffGood == GoodFlush(Off)
  BY DEF GoodFlush, Off, Flushes

(* One writer, or one flush, moves on.                                     *)
LEMMA JobMoves ==
  ASSUME JobsOK, NEW t \in WriterThreads, NEW j, GoodJob(j),
         job' = [job EXCEPT ![t] = j]
  PROVE  JobsOK'
  BY DEF JobsOK, GoodJob

LEMMA FlushMoves ==
  ASSUME FlushesOK, NEW f \in {"timer", "sync"}, NEW g, GoodFlush(g),
         flush' = [flush EXCEPT ![f] = g]
  PROVE  FlushesOK'
  BY DEF FlushesOK, GoodFlush

(* The timer of _save, or the flush of a reset, is set.                    *)
LEMMA FlushArmed ==
  ASSUME FlushesOK, NEW f \in {"timer", "sync"},
         flush' = [flush EXCEPT ![f].at = "armed"]
  PROVE  FlushesOK'
<1>1. GoodFlush([flush[f] EXCEPT !.at = "armed"])
  BY DEF FlushesOK, GoodFlush, Flushes
<1>2. flush' = [flush EXCEPT ![f] = [flush[f] EXCEPT !.at = "armed"]]
  BY DEF FlushesOK
<1> QED  BY <1>1, <1>2, FlushMoves

(* A chain that is saved: the cap, the flag, the timer (_save).            *)
LEMMA SaveTyped ==
  ASSUME FlushesOK, NEW k \in 0 .. Len(chain'), chain' \in Seq(Event), Save(k)
  PROVE  cold' \in k .. Len(chain') /\ dirty' = TRUE /\ FlushesOK'
<1>1. cold' \in k .. Len(chain') /\ dirty' = TRUE
  BY ArchivedTyped DEF Save
<1>2. CASE flush["timer"].at = "off"
  <2>1. flush' = [flush EXCEPT !["timer"].at = "armed"]
    BY <1>2 DEF Save
  <2> QED  BY <1>1, <2>1, FlushArmed
<1>3. CASE flush["timer"].at # "off"
  <2>1. flush' = flush
    BY <1>3 DEF Save
  <2> QED  BY <1>1, <2>1 DEF FlushesOK, GoodFlush
<1> QED  BY <1>2, <1>3

(* An event that is added (the end of append and of ingest_events).        *)
LEMMA AcceptTyped ==
  ASSUME TypeInv, NEW e \in Event, Accept(e)
  PROVE  ChainOK' /\ FlushesOK' /\ DiskOK' /\ FlagsOK'
<1>1. /\ chain' \in Seq(Event) /\ Len(chain') = Len(chain) + 1
      /\ cold \in 0 .. Len(chain')
  BY DEF TypeInv, ChainOK, Accept
<1>2. cold' \in 0 .. Len(chain') /\ dirty' = TRUE /\ FlushesOK'
  <2>1. Save(cold)
    BY DEF Accept
  <2>2. cold' \in cold .. Len(chain') /\ dirty' = TRUE /\ FlushesOK'
    BY <1>1, <2>1, SaveTyped DEF TypeInv
  <2> QED  BY <1>1, <2>2
<1>3. e.author \in Authors /\ e.seq \in 0 .. MaxSeq
  BY LedgerAssumption DEF Event, Seqs
<1>4. sequences' \in [Authors -> 0 .. MaxSeq]
  BY <1>3 DEF TypeInv, ChainOK, Accept
<1>5. revoked' \subseteq Authors
  BY <1>3 DEF TypeInv, ChainOK, Accept
<1>6. DiskOK'
  BY DEF TypeInv, DiskOK, Accept
<1>7. FlagsOK'
  BY <1>2 DEF TypeInv, FlagsOK, Accept
<1> QED  BY <1>1, <1>2, <1>4, <1>5, <1>6, <1>7 DEF ChainOK

(* A draft that is given an id and the head is an event (append).          *)
LEMMA DraftBecomesEvent ==
  ASSUME ChainOK, NEW d \in Draft, NEW i \in Ids
  PROVE  [d EXCEPT !.id = i, !.prev = HeadHash] \in Event
<1>1. HeadHash \in Ids \cup {Genesis}
  BY HeadTyped DEF ChainOK, HeadHash
<1> QED  BY <1>1 DEF Draft, Event

LEMMA EventJobGood ==
  ASSUME NEW e \in Event, NEW op \in {"commit", "ingest"}
  PROVE  GoodJob([op |-> op, ev |-> e, new |-> <<>>, base |-> 0])
  BY DEF GoodJob, Jobs

LEMMA DraftJobGood ==
  ASSUME NEW d \in Draft
  PROVE  GoodJob([op |-> "append", ev |-> d, new |-> <<>>, base |-> 0])
  BY DEF GoodJob, Jobs

(* The new chain of a fork that passed its check (apply_fork).             *)
LEMMA ForkedTyped ==
  ASSUME ChainOK, NEW k \in 1 .. Len(chain), cold < k, NEW f \in Seq(Event)
  PROVE  /\ Forked(k, f) \in Seq(Event) /\ Len(Forked(k, f)) = k + Len(f)
         /\ GoodJob([op |-> "fork", ev |-> NoEvent, new |-> Forked(k, f), base |-> cold])
<1>1. SubSeq(chain, 1, k) \in Seq(Event) /\ Len(SubSeq(chain, 1, k)) = k
  BY DEF ChainOK
<1>2. Forked(k, f) \in Seq(Event) /\ Len(Forked(k, f)) = k + Len(f)
  BY <1>1 DEF Forked
<1>3. cold \in Nat /\ cold <= k + Len(f)
  BY DEF ChainOK
<1> QED  BY <1>2, <1>3 DEF GoodJob, Jobs

(* The steps of the writers keep the types.                                *)
LEMMA WriterTyped ==
  ASSUME TypeInv, NEW t \in WriterThreads,
         \/ AppendCheck(t) \/ AppendDraft(t) \/ AppendCommit(t)
         \/ IngestCheck(t) \/ IngestAccept(t)
         \/ \E k \in 1 .. Len(chain) : ForkCheck(t, k)
         \/ ForkApply(t) \/ Reset(t)
  PROVE  TypeInv'
<1>0. GoodJob(job[t])
  BY DEF TypeInv, JobsOK
<1>1. CASE AppendCheck(t)
  <2>1. PICK d \in Draft :
          job' = [job EXCEPT ![t] = [op |-> "append", ev |-> d, new |-> <<>>, base |-> 0]]
    BY <1>1 DEF AppendCheck
  <2>2. JobsOK'
    BY <2>1, DraftJobGood, JobMoves DEF TypeInv
  <2> QED
    BY <1>1, <2>2
    DEF AppendCheck, TypeInv, ChainOK, FlushesOK, GoodFlush, DiskOK, FlagsOK
<1>2. CASE AppendDraft(t)
  <2>1. job[t].ev \in Draft
    BY <1>0, <1>2 DEF AppendDraft, GoodJob
  <2>2. PICK i \in Ids :
          LET e == [job[t].ev EXCEPT !.id = i, !.prev = HeadHash]
          IN /\ job' = [job EXCEPT ![t] = [op |-> "commit", ev |-> e, new |-> <<>>, base |-> 0]]
             /\ wal' \in IF MayFail THEN {wal, e} ELSE {e}
    BY <1>2 DEF AppendDraft, Least, Unused
  <2> DEFINE e == [job[t].ev EXCEPT !.id = i, !.prev = HeadHash]
  <2>3. e \in Event
    BY <2>1, DraftBecomesEvent DEF TypeInv
  <2>4. /\ job' = [job EXCEPT ![t] = [op |-> "commit", ev |-> e, new |-> <<>>, base |-> 0]]
        /\ wal' \in {wal, e}
    BY <2>2
  <2> HIDE DEF e
  <2>5. JobsOK'
    BY <2>3, <2>4, EventJobGood, JobMoves DEF TypeInv
  <2>6. DiskOK'
    BY <1>2, <2>3, <2>4 DEF AppendDraft, TypeInv, DiskOK
  <2> QED
    BY <1>2, <2>5, <2>6 DEF AppendDraft, TypeInv, ChainOK, FlushesOK, GoodFlush, FlagsOK
<1>3. CASE AppendCommit(t) \/ IngestAccept(t)
  <2>1. job[t].ev \in Event /\ Accept(job[t].ev) /\ job' = [job EXCEPT ![t] = Idle]
    BY <1>0, <1>3 DEF AppendCommit, IngestAccept, GoodJob
  <2>2. JobsOK'
    BY <2>1, IdleGood, JobMoves DEF TypeInv
  <2>3. ChainOK' /\ FlushesOK' /\ DiskOK' /\ FlagsOK'
    BY <2>1, AcceptTyped
  <2> QED  BY <2>2, <2>3 DEF TypeInv
<1>4. CASE IngestCheck(t)
  <2>1. Offered \subseteq Event
    BY DEF Offered, Known, Least, Unused, TypeInv, FlagsOK, Event
  <2>2. PICK e \in Event :
          job' = [job EXCEPT ![t] = [op |-> "ingest", ev |-> e, new |-> <<>>, base |-> 0]]
    BY <1>4, <2>1 DEF IngestCheck
  <2>3. JobsOK'
    BY <2>2, EventJobGood, JobMoves DEF TypeInv
  <2> QED
    BY <1>4, <2>3
    DEF IngestCheck, TypeInv, ChainOK, FlushesOK, GoodFlush, DiskOK, FlagsOK
<1>5. ASSUME NEW k \in 1 .. Len(chain), ForkCheck(t, k) PROVE TypeInv'
  <2>1. PICK f \in Seq(Event) :
          job' = [job EXCEPT ![t] =
                    [op |-> "fork", ev |-> NoEvent, new |-> Forked(k, f), base |-> cold]]
    BY <1>5 DEF ForkCheck
  <2>2. cold < k
    BY <1>5 DEF ForkCheck, TypeInv, ChainOK
  <2>3. JobsOK'
    BY <2>1, <2>2, ForkedTyped, JobMoves DEF TypeInv
  <2> QED
    BY <1>5, <2>3
    DEF ForkCheck, TypeInv, ChainOK, FlushesOK, GoodFlush, DiskOK, FlagsOK
<1>6. CASE ForkApply(t)
  <2>1. /\ job[t].new \in Seq(Event) /\ job[t].base \in 0 .. Len(job[t].new)
        /\ job[t].base \in Nat
    BY <1>0 DEF GoodJob, Jobs
  <2>2. chain' = job[t].new /\ Save(job[t].base) /\ job' = [job EXCEPT ![t] = Idle]
    BY <1>6 DEF ForkApply
  <2>3. cold' \in 0 .. Len(chain') /\ dirty' = TRUE /\ FlushesOK'
    <3> DEFINE k == job[t].base
    <3>1. k \in 0 .. Len(chain') /\ chain' \in Seq(Event) /\ Save(k) /\ FlushesOK
      BY <2>1, <2>2 DEF TypeInv
    <3> HIDE DEF k
    <3>2. cold' \in k .. Len(chain') /\ dirty' = TRUE /\ FlushesOK'
      BY <3>1, SaveTyped
    <3> QED  BY <3>1, <3>2
  <2>4. sequences' \in [Authors -> 0 .. MaxSeq] /\ revoked' \subseteq Authors
    BY <1>6, <2>1, RebuiltTyped DEF ForkApply
  <2>5. ChainOK'
    BY <2>1, <2>2, <2>3, <2>4 DEF ChainOK
  <2>6. JobsOK'
    BY <2>2, IdleGood, JobMoves DEF TypeInv
  <2>7. made' \subseteq Event
    <3>1. \A i \in DOMAIN job[t].new : job[t].new[i] \in Event
      BY <2>1
    <3> QED  BY <1>6, <3>1 DEF ForkApply, Range, TypeInv, FlagsOK
  <2> QED  BY <1>6, <2>3, <2>5, <2>6, <2>7 DEF ForkApply, TypeInv, DiskOK, FlagsOK
<1>7. CASE Reset(t)
  <2>1. FlushesOK'
    BY <1>7, FlushArmed DEF Reset, TypeInv
  <2>2. JobsOK'
    BY <1>7 DEF Reset, TypeInv, JobsOK, GoodJob
  <2>3. ChainOK'
    BY <1>7, LedgerAssumption DEF Reset, ChainOK
  <2> QED  BY <1>7, <2>1, <2>2, <2>3 DEF Reset, TypeInv, DiskOK, FlagsOK
<1> QED  BY <1>1, <1>2, <1>3, <1>4, <1>5, <1>6, <1>7

(* The steps of a flush keep the types (_flush).                           *)
LEMMA FlushTyped ==
  ASSUME TypeInv, NEW f \in {"timer", "sync"},
         FlushStart(f) \/ FlushWrite(f) \/ FlushFail(f) \/ FlushDone(f)
  PROVE  TypeInv'
<1>0. GoodFlush(flush[f])
  BY DEF TypeInv, FlushesOK
<1>1. GoodFlush([at |-> "writing", chain |-> chain, cold |-> cold])
  BY DEF TypeInv, ChainOK, GoodFlush, Flushes
<1>2. GoodFlush([Off EXCEPT !.at = "written"])
  <2>1. [Off EXCEPT !.at = "written"] = [at |-> "written", chain |-> <<>>, cold |-> 0]
    BY DEF Off
  <2>2. GoodFlush([at |-> "written", chain |-> <<>>, cold |-> 0])
    BY DEF GoodFlush, Flushes
  <2> QED  BY <2>1, <2>2
<1>3. FlushesOK'
  <2>1. CASE FlushStart(f)
    BY <1>1, <2>1, OffGood, FlushMoves DEF FlushStart, TypeInv
  <2>2. CASE FlushWrite(f)
    BY <1>2, <2>2, FlushMoves DEF FlushWrite, TypeInv
  <2>3. CASE FlushFail(f) \/ FlushDone(f)
    BY <2>3, OffGood, FlushMoves DEF FlushFail, FlushDone, TypeInv
  <2> QED  BY <2>1, <2>2, <2>3
<1>4. DiskOK'
  <2>1. CASE FlushWrite(f)
    BY <1>0, <2>1 DEF FlushWrite, GoodFlush, Flushes, TypeInv, DiskOK
  <2>2. CASE FlushStart(f) \/ FlushFail(f) \/ FlushDone(f)
    BY <2>2 DEF FlushStart, FlushFail, FlushDone, WalGone, TypeInv, DiskOK
  <2> QED  BY <2>1, <2>2
<1>5. ChainOK' /\ JobsOK' /\ FlagsOK'
  BY DEF FlushStart, FlushWrite, FlushFail, FlushDone, TypeInv, ChainOK, JobsOK, GoodJob, FlagsOK
<1> QED  BY <1>3, <1>4, <1>5 DEF TypeInv

(* Stops and boots keep the types.                                         *)
LEMMA StopTyped ==
  ASSUME TypeInv, Crash \/ Exit
  PROVE  TypeInv'
<1>1. JobsOK' /\ FlushesOK'
  BY IdleGood, OffGood
  DEF Crash, Exit, Stopped, JobsOK, FlushesOK, GoodJob, GoodFlush
<1>2. ChainOK' /\ FlagsOK'
  BY DEF Crash, Exit, Stopped, TypeInv, ChainOK, FlagsOK
<1>3. DiskOK'
  BY DEF Crash, Exit, Stopped, WalGone, TypeInv, ChainOK, DiskOK
<1> QED  BY <1>1, <1>2, <1>3 DEF TypeInv

LEMMA BootTyped ==
  ASSUME TypeInv,
         BootPlain \/ BootDropWal \/ BootDegraded \/ \E w \in BOOLEAN : BootReplay(w)
  PROVE  TypeInv'
<1>0. /\ file.chain \in Seq(Event) /\ file.cold \in 0 .. Len(file.chain) /\ file.cold \in Nat
      /\ wal \in Event \cup {NoEvent}
  BY DEF TypeInv, DiskOK
<1>1. /\ RebuiltSequences(file.chain, file.cold) \in [Authors -> 0 .. MaxSeq]
      /\ RebuiltRevoked(file.chain, file.cold) \subseteq Authors
  BY <1>0, RebuiltTyped
<1>2. CASE BootPlain \/ BootDropWal
  <2>1. ChainOK'
    BY <1>0, <1>1, <1>2 DEF BootPlain, BootDropWal, Loaded, ChainOK
  <2>2. JobsOK' /\ FlushesOK'
    BY <1>2
    DEF BootPlain, BootDropWal, Loaded, TypeInv, JobsOK, FlushesOK, GoodJob, GoodFlush
  <2>3. DiskOK' /\ FlagsOK'
    BY <1>2 DEF BootPlain, BootDropWal, Loaded, WalGone, TypeInv, DiskOK, FlagsOK
  <2> QED  BY <2>1, <2>2, <2>3 DEF TypeInv
<1>3. CASE BootDegraded
  <2>1. ChainOK'
    BY <1>3, LedgerAssumption DEF BootDegraded, ChainOK
  <2>2. JobsOK' /\ FlushesOK'
    BY <1>3 DEF BootDegraded, TypeInv, JobsOK, FlushesOK, GoodJob, GoodFlush
  <2>3. DiskOK' /\ FlagsOK'
    BY <1>3 DEF BootDegraded, WalGone, TypeInv, DiskOK, FlagsOK
  <2> QED  BY <2>1, <2>2, <2>3 DEF TypeInv
<1>4. ASSUME NEW w \in BOOLEAN, BootReplay(w) PROVE TypeInv'
  <2>0. wal \in Event /\ wal.author \in Authors /\ wal.seq \in 0 .. MaxSeq
    <3>1. wal \in Event
      BY <1>0, <1>4 DEF BootReplay
    <3> QED  BY <3>1, LedgerAssumption DEF Event, Seqs
  <2>1. /\ chain' = Append(file.chain, wal) /\ chain' \in Seq(Event)
        /\ file.cold \in 0 .. Len(chain') /\ cold' = Archived(chain', file.cold)
    BY <1>0, <1>4, <2>0 DEF BootReplay
  <2>2. cold' \in 0 .. Len(chain') /\ cold' \in Nat
    <3> DEFINE k == file.cold
    <3>1. k \in 0 .. Len(chain') /\ cold' = Archived(chain', k)
      BY <2>1
    <3> HIDE DEF k
    <3>2. cold' \in k .. Len(chain')
      BY <2>1, <3>1, ArchivedTyped
    <3> QED  BY <2>1, <3>1, <3>2
  <2>3. sequences' \in [Authors -> 0 .. MaxSeq]
    BY <1>1, <1>4, <2>0 DEF BootReplay
  <2>4. revoked' \subseteq Authors
    BY <1>1, <1>4, <2>0 DEF BootReplay
  <2>5. DiskOK'
    BY <1>4, <2>0, <2>1, <2>2 DEF BootReplay, WalGone, TypeInv, DiskOK
  <2>6. FlushesOK'
    BY <1>4, FlushArmed DEF BootReplay, TypeInv
  <2>7. JobsOK'
    BY <1>4 DEF BootReplay, TypeInv, JobsOK, GoodJob
  <2>8. FlagsOK'
    BY <1>4, <2>0 DEF BootReplay, TypeInv, FlagsOK
  <2> QED
    BY <2>1, <2>2, <2>3, <2>4, <2>5, <2>6, <2>7, <2>8 DEF TypeInv, ChainOK
<1> QED  BY <1>2, <1>3, <1>4

LEMMA TypeInit == Init => TypeInv
<1> SUFFICES ASSUME Init PROVE TypeInv
  OBVIOUS
<1>1. JobsOK /\ FlushesOK
  BY IdleGood, OffGood DEF Init, JobsOK, FlushesOK, GoodJob, GoodFlush
<1>2. ChainOK
  BY LedgerAssumption DEF Init, ChainOK
<1>3. DiskOK
  BY DEF Init, DiskOK
<1>4. FlagsOK
  BY DEF Init, FlagsOK
<1> QED  BY <1>1, <1>2, <1>3, <1>4 DEF TypeInv

LEMMA TypeNext == TypeInv /\ [Next]_vars => TypeInv'
<1> SUFFICES ASSUME TypeInv, [Next]_vars PROVE TypeInv'
  OBVIOUS
<1>1. CASE \E t \in WriterThreads :
             \/ AppendCheck(t) \/ AppendDraft(t) \/ AppendCommit(t)
             \/ IngestCheck(t) \/ IngestAccept(t)
             \/ \E k \in 1 .. Len(chain) : ForkCheck(t, k)
             \/ ForkApply(t) \/ Reset(t)
  BY <1>1, WriterTyped
<1>2. CASE \E f \in {"timer", "sync"} :
             FlushStart(f) \/ FlushWrite(f) \/ FlushFail(f) \/ FlushDone(f)
  BY <1>2, FlushTyped
<1>3. CASE Crash \/ Exit
  BY <1>3, StopTyped
<1>4. CASE BootPlain \/ BootDropWal \/ BootDegraded \/ \E w \in BOOLEAN : BootReplay(w)
  BY <1>4, BootTyped
<1>5. CASE UNCHANGED vars
  BY <1>5
  DEF vars, TypeInv, ChainOK, JobsOK, FlushesOK, DiskOK, FlagsOK, GoodJob, GoodFlush
<1> QED  BY <1>1, <1>2, <1>3, <1>4, <1>5 DEF Next

(* Whatever threads write and whatever is lost at a stop, every variable   *)
(* keeps its type: the tables rebuilt at a boot, the cap's count and the   *)
(* snapshots of the flushes included.                                      *)
THEOREM TypeCorrect == Spec => []TypeOK
<1>1. TypeInv => TypeOK
  BY DEF TypeInv, ChainOK, JobsOK, FlushesOK, DiskOK, FlagsOK, TypeOK
<1>2. Spec => []TypeInv
  BY TypeInit, TypeNext, PTL DEF Spec
<1> QED  BY <1>1, <1>2, PTL

(***************************************************************************)
(* The chain is whole when the writers take turns                          *)
(***************************************************************************)
LinkedJob(j) ==
  /\ j.op \in {"commit", "ingest"} => j.ev.prev = HeadHash
  /\ IsLinked(j.new)

(* The chain, its copies on disk and on the way there, and the chain a     *)
(* fork is about to install are whole; an event checked still follows the  *)
(* head when it is added, which is what another writer in between breaks.  *)
LinkInv ==
  /\ IsLinked(chain) /\ IsLinked(file.chain)
  /\ \A f \in {"timer", "sync"} : IsLinked(flush[f].chain)
  /\ \A t \in WriterThreads : LinkedJob(job[t])
  /\ \A t \in WriterThreads : job[t].op # "idle" => up
  /\ \A t, u \in WriterThreads : job[t].op # "idle" /\ job[u].op # "idle" => t = u

LEMMA EmptyLinked == IsLinked(<<>>) /\ IsLinked(Idle.new) /\ IsLinked(Off.chain)
  BY DEF IsLinked, Idle, Off

(* An event that names the head keeps a chain whole.                       *)
LEMMA AppendLinked ==
  ASSUME NEW c \in Seq(Event), IsLinked(c), NEW e \in Event, e.prev = HeadOf(c)
  PROVE  IsLinked(Append(c, e))
<1> DEFINE d == Append(c, e)
<1>1. Len(d) = Len(c) + 1 /\ DOMAIN d = 1 .. Len(c) + 1
  OBVIOUS
<1>2. ASSUME NEW i \in 1 .. Len(c) PROVE d[i] = c[i]
  OBVIOUS
<1>3. d[Len(c) + 1] = e
  OBVIOUS
<1>4. ASSUME NEW i \in DOMAIN d
      PROVE  d[i].prev = IF i = 1 THEN Genesis ELSE d[i - 1].id
  <2>1. CASE i \in 1 .. Len(c)
    <3>1. c[i].prev = IF i = 1 THEN Genesis ELSE c[i - 1].id
      BY <2>1 DEF IsLinked
    <3>2. i # 1 => d[i - 1] = c[i - 1]
      BY <1>2, <2>1
    <3> QED  BY <1>2, <2>1, <3>1, <3>2
  <2>2. CASE i = Len(c) + 1
    <3>1. CASE c = <<>>
      BY <1>3, <2>2, <3>1 DEF HeadOf
    <3>2. CASE c # <<>>
      <4>1. HeadOf(c) = c[Len(c)].id /\ Len(c) \in 1 .. Len(c)
        BY <3>2 DEF HeadOf, Last
      <4>2. d[Len(c)] = c[Len(c)] /\ i - 1 = Len(c) /\ i # 1
        BY <1>2, <2>2, <4>1
      <4> QED  BY <1>3, <2>2, <4>1, <4>2
    <3> QED  BY <3>1, <3>2
  <2> QED  BY <1>1, <2>1, <2>2
<1> QED  BY <1>4 DEF IsLinked

(* A fork that goes on from an event of the chain leaves it whole          *)
(* (_order_chain_from).                                                    *)
LEMMA ForkLinked ==
  ASSUME chain \in Seq(Event), IsLinked(chain), NEW k \in 1 .. Len(chain),
         NEW f \in Seq(Event), GoesOn(chain[k].id, f)
  PROVE  IsLinked(Forked(k, f))
<1> DEFINE d == Forked(k, f)
<1>1. /\ SubSeq(chain, 1, k) \in Seq(Event) /\ Len(SubSeq(chain, 1, k)) = k
      /\ \A i \in 1 .. k : SubSeq(chain, 1, k)[i] = chain[i]
  OBVIOUS
<1>2. /\ d \in Seq(Event) /\ Len(d) = k + Len(f)
      /\ \A i \in 1 .. k : d[i] = chain[i]
      /\ \A i \in 1 .. Len(f) : d[k + i] = f[i]
  BY <1>1 DEF Forked
<1> HIDE DEF d
<1>3. ASSUME NEW i \in DOMAIN d
      PROVE  d[i].prev = IF i = 1 THEN Genesis ELSE d[i - 1].id
  <2>1. CASE i <= k
    <3>1. i \in DOMAIN chain /\ chain[i].prev = IF i = 1 THEN Genesis ELSE chain[i - 1].id
      BY <1>2, <2>1 DEF IsLinked
    <3>2. d[i] = chain[i] /\ (i # 1 => d[i - 1] = chain[i - 1])
      BY <1>2, <2>1
    <3> QED  BY <3>1, <3>2
  <2>2. CASE i > k
    <3> DEFINE j == i - k
    <3>0. j \in 1 .. Len(f) /\ i = k + j /\ i # 1
      BY <1>2, <2>2
    <3>1. j \in DOMAIN f /\ i = k + j /\ d[i] = f[j] /\ i # 1
      BY <1>2, <3>0
    <3>2. f[j].prev = IF j = 1 THEN chain[k].id ELSE f[j - 1].id
      BY <3>1 DEF GoesOn
    <3>3. d[i - 1] = IF j = 1 THEN chain[k] ELSE f[j - 1]
      <4>1. CASE j = 1
        BY <1>2, <3>1, <4>1
      <4>2. CASE j # 1
        <5>1. j - 1 \in 1 .. Len(f) /\ i - 1 = k + (j - 1)
          BY <3>1, <4>2
        <5> QED  BY <1>2, <4>2, <5>1
      <4> QED  BY <4>1, <4>2
    <3> QED  BY <3>1, <3>2, <3>3
  <2> QED  BY <1>2, <2>1, <2>2
<1> QED  BY <1>3 DEF IsLinked, d

(* While one thread adds or replaces, no other has an event or a fork on   *)
(* its hands.                                                              *)
LEMMA OthersIdle ==
  ASSUME TakeTurns, LinkInv, NEW t \in WriterThreads, job[t].op # "idle" \/ Free(t)
  PROVE  \A u \in WriterThreads : u # t => job[u].op = "idle"
  BY DEF Free, LinkInv, Idle

(* A step that leaves the head alone and gives at most t a job keeps the   *)
(* jobs linked.                                                            *)
LEMMA JobLinks ==
  ASSUME JobsOK, LinkInv, NEW t \in WriterThreads, up, up' = up, chain' = chain,
         \A u \in WriterThreads : u # t => job[u].op = "idle",
         NEW j, job' = [job EXCEPT ![t] = j],
         LinkedJob(j)
  PROVE  /\ \A u \in WriterThreads : LinkedJob(job[u])'
         /\ \A u \in WriterThreads : job'[u].op # "idle" => up'
         /\ \A u, v \in WriterThreads : job'[u].op # "idle" /\ job'[v].op # "idle" => u = v
<1>1. HeadHash' = HeadHash
  BY DEF HeadHash
<1>2. ASSUME NEW u \in WriterThreads PROVE LinkedJob(job[u])'
  <2>1. CASE u = t
    BY <1>1, <2>1 DEF JobsOK, LinkedJob
  <2>2. CASE u # t
    BY <1>1, <2>2 DEF JobsOK, LinkedJob, LinkInv
  <2> QED  BY <2>1, <2>2
<1>3. ASSUME NEW u \in WriterThreads, job'[u].op # "idle" PROVE u = t
  BY <1>3 DEF JobsOK
<1> QED  BY <1>2, <1>3

(* When all are idle after a step, no job has to follow the new head.      *)
LEMMA IdleLinks ==
  ASSUME \A u \in WriterThreads : job'[u].op = "idle" /\ IsLinked(job'[u].new)
  PROVE  /\ \A u \in WriterThreads : LinkedJob(job[u])'
         /\ \A u \in WriterThreads : job'[u].op # "idle" => up'
         /\ \A u, v \in WriterThreads : job'[u].op # "idle" /\ job'[v].op # "idle" => u = v
<1>1. \A u \in WriterThreads : job'[u].op \notin {"commit", "ingest"}
  <2> TAKE u \in WriterThreads
  <2>1. job'[u].op = "idle"
    OBVIOUS
  <2> QED  BY <2>1
<1> QED  BY <1>1 DEF LinkedJob

LEMMA SaveLinks ==
  ASSUME FlushesOK, NEW k, Save(k), LinkInv
  PROVE  \A f \in {"timer", "sync"} : IsLinked(flush'[f].chain)
<1>1. ASSUME NEW f \in {"timer", "sync"} PROVE flush'[f].chain = flush[f].chain
  BY DEF Save, FlushesOK, Flushes
<1> QED  BY <1>1 DEF LinkInv

LEMMA WriterLinks ==
  ASSUME TakeTurns, TypeInv, LinkInv, NEW t \in WriterThreads,
         \/ AppendCheck(t) \/ AppendDraft(t) \/ AppendCommit(t)
         \/ IngestCheck(t) \/ IngestAccept(t)
         \/ \E k \in 1 .. Len(chain) : ForkCheck(t, k)
         \/ ForkApply(t) \/ Reset(t)
  PROVE  LinkInv'
<1>0. /\ GoodJob(job[t]) /\ job[t] \in Jobs /\ JobsOK /\ FlushesOK
      /\ chain \in Seq(Event) /\ LinkedJob(job[t])
  BY LedgerAssumption DEF TypeInv, JobsOK, GoodJob, ChainOK, LinkInv
<1>1. CASE AppendCheck(t)
  <2>1. PICK d \in Draft :
          job' = [job EXCEPT ![t] = [op |-> "append", ev |-> d, new |-> <<>>, base |-> 0]]
    BY <1>1 DEF AppendCheck
  <2>2. LinkedJob([op |-> "append", ev |-> d, new |-> <<>>, base |-> 0])
    BY EmptyLinked DEF LinkedJob
  <2>3. up /\ up' = up /\ chain' = chain
    BY <1>1 DEF AppendCheck, Free
  <2>4. \A u \in WriterThreads : u # t => job[u].op = "idle"
    BY <1>1, OthersIdle DEF AppendCheck
  <2> QED  BY <1>0, <1>1, <2>1, <2>2, <2>3, <2>4, JobLinks DEF AppendCheck, LinkInv
<1>2. CASE AppendDraft(t)
  <2>1. PICK e : /\ e.prev = HeadHash
                 /\ job' = [job EXCEPT ![t] =
                              [op |-> "commit", ev |-> e, new |-> <<>>, base |-> 0]]
    <3>1. job[t].ev \in Draft
      BY <1>0, <1>2 DEF AppendDraft, GoodJob
    <3>2. \A i : [job[t].ev EXCEPT !.id = i, !.prev = HeadHash].prev = HeadHash
      BY <3>1 DEF Draft
    <3> QED  BY <1>2, <3>2 DEF AppendDraft
  <2>2. LinkedJob([op |-> "commit", ev |-> e, new |-> <<>>, base |-> 0])
    BY <2>1, EmptyLinked DEF LinkedJob
  <2>3. up /\ up' = up /\ chain' = chain
    BY <1>2 DEF AppendDraft, LinkInv
  <2>4. \A u \in WriterThreads : u # t => job[u].op = "idle"
    BY <1>2, OthersIdle DEF AppendDraft
  <2> QED  BY <1>0, <1>2, <2>1, <2>2, <2>3, <2>4, JobLinks DEF AppendDraft, LinkInv
<1>3. CASE AppendCommit(t) \/ IngestAccept(t)
  <2>0. job[t].op # "idle"
    BY <1>3 DEF AppendCommit, IngestAccept
  <2>1. /\ job[t].ev \in Event /\ Accept(job[t].ev) /\ job' = [job EXCEPT ![t] = Idle]
        /\ job[t].ev.prev = HeadOf(chain)
    BY <1>0, <1>3 DEF AppendCommit, IngestAccept, GoodJob, LinkedJob, LinkInv, HeadHash
  <2>2. IsLinked(chain')
    <3>1. chain' = Append(chain, job[t].ev)
      BY <2>1 DEF Accept
    <3> QED  BY <1>0, <2>1, <3>1, AppendLinked DEF LinkInv
  <2>3. \A u \in WriterThreads : job'[u].op = "idle" /\ IsLinked(job'[u].new)
    BY <1>0, <2>0, <2>1, OthersIdle, IdleGood, EmptyLinked DEF JobsOK, LinkInv, LinkedJob
  <2>4. \A f \in {"timer", "sync"} : IsLinked(flush'[f].chain)
    BY <1>0, <2>1, SaveLinks DEF Accept
  <2>5. IsLinked(file'.chain)
    BY <2>1 DEF Accept, LinkInv
  <2> QED  BY <2>2, <2>3, <2>4, <2>5, IdleLinks DEF LinkInv
<1>4. CASE IngestCheck(t)
  <2>1. PICK e : /\ e.prev = HeadHash
                 /\ job' = [job EXCEPT ![t] =
                              [op |-> "ingest", ev |-> e, new |-> <<>>, base |-> 0]]
    BY <1>4 DEF IngestCheck, Extends
  <2>2. LinkedJob([op |-> "ingest", ev |-> e, new |-> <<>>, base |-> 0])
    BY <2>1, EmptyLinked DEF LinkedJob
  <2>3. up /\ up' = up /\ chain' = chain
    BY <1>4 DEF IngestCheck, Free
  <2>4. \A u \in WriterThreads : u # t => job[u].op = "idle"
    BY <1>4, OthersIdle DEF IngestCheck
  <2> QED  BY <1>0, <1>4, <2>1, <2>2, <2>3, <2>4, JobLinks DEF IngestCheck, LinkInv
<1>5. ASSUME NEW k \in 1 .. Len(chain), ForkCheck(t, k) PROVE LinkInv'
  <2>1. PICK f \in Seq(Event) :
          /\ GoesOn(chain[k].id, f)
          /\ job' = [job EXCEPT ![t] =
                       [op |-> "fork", ev |-> NoEvent, new |-> Forked(k, f), base |-> cold]]
    BY <1>5 DEF ForkCheck
  <2>2. LinkedJob([op |-> "fork", ev |-> NoEvent, new |-> Forked(k, f), base |-> cold])
    BY <1>0, <2>1, ForkLinked DEF LinkedJob, LinkInv
  <2>3. up /\ up' = up /\ chain' = chain
    BY <1>5 DEF ForkCheck, Free
  <2>4. \A u \in WriterThreads : u # t => job[u].op = "idle"
    BY <1>5, OthersIdle DEF ForkCheck
  <2> QED  BY <1>0, <1>5, <2>1, <2>2, <2>3, <2>4, JobLinks DEF ForkCheck, LinkInv
<1>6. CASE ForkApply(t)
  <2>0. job[t].op # "idle"
    BY <1>6 DEF ForkApply
  <2>1. /\ chain' = job[t].new /\ Save(job[t].base) /\ job' = [job EXCEPT ![t] = Idle]
        /\ file' = file
    BY <1>6 DEF ForkApply, LinkInv
  <2>2. IsLinked(chain')
    BY <1>0, <2>1 DEF LinkedJob
  <2>3. \A u \in WriterThreads : job'[u].op = "idle" /\ IsLinked(job'[u].new)
    BY <1>0, <2>0, <2>1, OthersIdle, IdleGood, EmptyLinked DEF JobsOK, LinkInv, LinkedJob
  <2>4. \A f \in {"timer", "sync"} : IsLinked(flush'[f].chain)
    BY <1>0, <2>1, SaveLinks
  <2> QED  BY <2>1, <2>2, <2>3, <2>4, IdleLinks DEF LinkInv
<1>7. CASE Reset(t)
  <2>0. Free(t)
    BY <1>7 DEF Reset
  <2>1. job[t] = Idle /\ chain' = <<>> /\ job' = job /\ file' = file
    BY <1>7 DEF Reset, Free
  <2>2. \A u \in WriterThreads : job'[u].op = "idle" /\ IsLinked(job'[u].new)
    BY <1>0, <2>0, <2>1, OthersIdle, IdleGood DEF LinkInv, LinkedJob
  <2>3. \A f \in {"timer", "sync"} : flush'[f].chain = flush[f].chain
    BY <1>0, <1>7 DEF Reset, FlushesOK, Flushes
  <2> QED  BY <2>1, <2>2, <2>3, IdleLinks, EmptyLinked DEF LinkInv
<1> QED  BY <1>1, <1>2, <1>3, <1>4, <1>5, <1>6, <1>7

LEMMA FlushLinks ==
  ASSUME TypeInv, LinkInv, NEW f \in {"timer", "sync"},
         FlushStart(f) \/ FlushWrite(f) \/ FlushFail(f) \/ FlushDone(f)
  PROVE  LinkInv'
<1>1. /\ chain' = chain /\ job' = job /\ up' = up
      /\ \A g : IsLinked(flush'[g].chain) \/ g \notin {"timer", "sync"}
    <2>1. \A g \in {"timer", "sync"} : IsLinked(flush'[g].chain)
      BY EmptyLinked
      DEF FlushStart, FlushWrite, FlushFail, FlushDone, TypeInv, FlushesOK, LinkInv, Off
    <2> QED  BY <2>1 DEF FlushStart, FlushWrite, FlushFail, FlushDone
<1>2. IsLinked(file'.chain)
  BY DEF FlushStart, FlushWrite, FlushFail, FlushDone, LinkInv
<1>3. \A t \in WriterThreads : LinkedJob(job[t])'
  BY <1>1 DEF LinkInv, LinkedJob, HeadHash
<1> QED  BY <1>1, <1>2, <1>3 DEF LinkInv

LEMMA StopLinks ==
  ASSUME TypeInv, LinkInv, Crash \/ Exit
  PROVE  LinkInv'
<1>1. /\ chain' = chain /\ IsLinked(file'.chain)
      /\ \A f \in {"timer", "sync"} : flush'[f] = Off
      /\ \A t \in WriterThreads : job'[t] = Idle
  BY DEF Crash, Exit, Stopped, LinkInv
<1>2. \A t \in WriterThreads : job'[t].op = "idle" /\ IsLinked(job'[t].new)
  BY <1>1, EmptyLinked, IdleGood
<1> QED  BY <1>1, <1>2, IdleLinks, EmptyLinked DEF LinkInv

LEMMA BootLinks ==
  ASSUME TypeInv, LinkInv,
         BootPlain \/ BootDropWal \/ BootDegraded \/ \E w \in BOOLEAN : BootReplay(w)
  PROVE  LinkInv'
<1>0. file.chain \in Seq(Event) /\ wal \in Event \cup {NoEvent} /\ IsLinked(file.chain)
  BY DEF TypeInv, DiskOK, LinkInv
<1>1. ~up /\ job' = job
  BY DEF BootPlain, BootDropWal, BootDegraded, BootReplay, Loaded
<1>2. \A t \in WriterThreads : job'[t].op = "idle" /\ IsLinked(job'[t].new)
  BY <1>1 DEF LinkInv, LinkedJob
<1>3. \A f \in {"timer", "sync"} : flush'[f].chain = flush[f].chain
  BY DEF BootPlain, BootDropWal, BootDegraded, BootReplay, Loaded, TypeInv, FlushesOK, Flushes
<1>4. IsLinked(chain') /\ IsLinked(file'.chain)
  <2>1. CASE BootPlain \/ BootDropWal
    BY <1>0, <2>1 DEF BootPlain, BootDropWal, Loaded
  <2>2. CASE BootDegraded
    BY <1>0, <2>2, EmptyLinked DEF BootDegraded
  <2>3. ASSUME NEW w \in BOOLEAN, BootReplay(w) PROVE IsLinked(chain') /\ IsLinked(file'.chain)
    <3>1. wal \in Event /\ wal.prev = HeadOf(file.chain) /\ chain' = Append(file.chain, wal)
      BY <1>0, <2>3 DEF BootReplay, Replayable
    <3>2. IsLinked(chain')
      BY <1>0, <3>1, AppendLinked
    <3>3. file' = [chain |-> chain', cold |-> cold'] \/ file' = file
      BY <2>3 DEF BootReplay
    <3> QED  BY <1>0, <3>2, <3>3
  <2> QED  BY <2>1, <2>2, <2>3
<1> QED  BY <1>2, <1>3, <1>4, IdleLinks DEF LinkInv

LEMMA LinkInit == Init => LinkInv
  BY EmptyLinked, IdleGood DEF Init, LinkInv, LinkedJob

LEMMA LinkNext ==
  ASSUME TakeTurns
  PROVE  TypeInv /\ LinkInv /\ [Next]_vars => LinkInv'
<1> SUFFICES ASSUME TypeInv, LinkInv, [Next]_vars PROVE LinkInv'
  OBVIOUS
<1>1. CASE \E t \in WriterThreads :
             \/ AppendCheck(t) \/ AppendDraft(t) \/ AppendCommit(t)
             \/ IngestCheck(t) \/ IngestAccept(t)
             \/ \E k \in 1 .. Len(chain) : ForkCheck(t, k)
             \/ ForkApply(t) \/ Reset(t)
  BY <1>1, WriterLinks
<1>2. CASE \E f \in {"timer", "sync"} :
             FlushStart(f) \/ FlushWrite(f) \/ FlushFail(f) \/ FlushDone(f)
  BY <1>2, FlushLinks
<1>3. CASE Crash \/ Exit
  BY <1>3, StopLinks
<1>4. CASE BootPlain \/ BootDropWal \/ BootDegraded \/ \E w \in BOOLEAN : BootReplay(w)
  BY <1>4, BootLinks
<1>5. CASE UNCHANGED vars
  BY <1>5 DEF vars, LinkInv, LinkedJob, HeadHash
<1> QED  BY <1>1, <1>2, <1>3, <1>4, <1>5 DEF Next

(* When its threads take turns, the node's chain in memory and the one in  *)
(* its file are whole through appends, ingests, forks, resets, archiving,  *)
(* failed writes and crashes; MCLedger_threads.cfg shows that they are     *)
(* not when one thread checks an event while another adds one.             *)
THEOREM TurnsLinked ==
  ASSUME TakeTurns
  PROVE  Spec => []ChainLinked
<1>1. LinkInv => ChainLinked
  BY DEF LinkInv, ChainLinked
<1>2. Spec => [](TypeInv /\ LinkInv)
  BY TypeInit, TypeNext, LinkInit, LinkNext, PTL DEF Spec
<1> QED  BY <1>1, <1>2, PTL

(***************************************************************************)
(* No number is used twice in memory when the writers take turns           *)
(***************************************************************************)
Covered(c, k, s) == \A i \in k + 1 .. Len(c) : c[i].seq <= s[c[i].author]

RisingJob(j) ==
  /\ j.op \in {"append", "commit", "ingest"} => j.ev.seq > sequences[j.ev.author]
  /\ Rising(j.new, j.base)

(* Numbers rise in memory and in every copy of it, and the table of        *)
(* numbers is up to date with memory.                                      *)
RiseInv ==
  /\ Rising(chain, cold) /\ Covered(chain, cold, sequences)
  /\ Rising(file.chain, file.cold)
  /\ \A f \in {"timer", "sync"} : Rising(flush[f].chain, flush[f].cold)
  /\ \A t \in WriterThreads : RisingJob(job[t])

LEMMA EmptyRises ==
  /\ \A k \in Nat : Rising(<<>>, k)
  /\ Rising(Idle.new, Idle.base) /\ Rising(Off.chain, Off.cold)
  /\ \A k \in Nat : \A s : Covered(<<>>, k, s)
  BY DEF Rising, Covered, Idle, Off

(* Archiving more takes events out of the comparison only.                 *)
LEMMA LaterRises ==
  ASSUME NEW c \in Seq(Event), NEW k \in Nat, NEW m \in Nat, k <= m,
         NEW s, Rising(c, k), Covered(c, k, s)
  PROVE  Rising(c, m) /\ Covered(c, m, s)
<1>1. \A i \in m + 1 .. Len(c) : i \in k + 1 .. Len(c)
  OBVIOUS
<1> QED  BY <1>1 DEF Rising, Covered

(* An event above the table's number for its author continues the rise.    *)
LEMMA AppendRises ==
  ASSUME NEW c \in Seq(Event), NEW k \in Nat, NEW s \in [Authors -> 0 .. MaxSeq],
         NEW e \in Event, Rising(c, k), Covered(c, k, s), e.seq > s[e.author]
  PROVE  /\ Rising(Append(c, e), k)
         /\ Covered(Append(c, e), k, [s EXCEPT ![e.author] = e.seq])
<1> DEFINE d == Append(c, e)
<1>1. /\ Len(d) = Len(c) + 1
      /\ \A i \in 1 .. Len(c) : d[i] = c[i] /\ c[i] \in Event
      /\ d[Len(c) + 1] = e
  OBVIOUS
<1>2. \A x \in Event : x.seq \in Nat /\ x.author \in Authors
  BY LedgerAssumption DEF Event, Seqs
<1>3. \A a \in Authors : s[a] \in Nat
  BY LedgerAssumption
<1> HIDE DEF d
<1>4. ASSUME NEW i \in k + 1 .. Len(d), NEW j \in k + 1 .. Len(d),
             i < j, d[i].author = d[j].author
      PROVE  d[i].seq < d[j].seq
  <2>1. i \in k + 1 .. Len(c) /\ d[i] = c[i] /\ c[i] \in Event
    BY <1>1, <1>4
  <2>2. CASE j \in k + 1 .. Len(c)
    <3>1. d[j] = c[j]
      BY <1>1, <2>2
    <3> QED  BY <1>4, <2>1, <2>2, <3>1 DEF Rising
  <2>3. CASE j = Len(c) + 1
    <3>1. c[i].seq <= s[e.author] /\ c[i].seq \in Nat /\ s[e.author] \in Nat /\ e.seq \in Nat
      BY <1>1, <1>2, <1>3, <1>4, <2>1, <2>3 DEF Covered
    <3> QED  BY <1>1, <2>1, <2>3, <3>1
  <2> QED  BY <1>1, <2>2, <2>3
<1>5. ASSUME NEW i \in k + 1 .. Len(d)
      PROVE  d[i].seq <= [s EXCEPT ![e.author] = e.seq][d[i].author]
  <2>1. CASE i = Len(c) + 1
    BY <1>1, <1>2, <2>1
  <2>2. CASE i \in k + 1 .. Len(c)
    <3>1. c[i].seq <= s[c[i].author] /\ d[i] = c[i] /\ c[i] \in Event
      BY <1>1, <2>2 DEF Covered
    <3>2. CASE c[i].author = e.author
      BY <1>2, <1>3, <3>1, <3>2
    <3>3. CASE c[i].author # e.author
      BY <1>2, <3>1, <3>3
    <3> QED  BY <3>2, <3>3
  <2> QED  BY <1>1, <2>1, <2>2
<1> QED  BY <1>4, <1>5 DEF Rising, Covered, d

(* A fork that passes the check continues the rise (apply_fork).           *)
LEMMA ForkRises ==
  ASSUME ChainOK, Rising(chain, cold), NEW k \in 1 .. Len(chain), cold < k,
         NEW f \in Seq(Event), ForkAdmissible(k, f)
  PROVE  Rising(Forked(k, f), cold)
<1> DEFINE d == Forked(k, f)
<1>0. chain \in Seq(Event) /\ cold \in Nat
  BY DEF ChainOK
<1>1. /\ SubSeq(chain, 1, k) \in Seq(Event) /\ Len(SubSeq(chain, 1, k)) = k
      /\ \A i \in 1 .. k : SubSeq(chain, 1, k)[i] = chain[i]
  BY <1>0
<1>2. ASSUME NEW g \in Seq(Event)
      PROVE  /\ Forked(k, g) \in Seq(Event) /\ Len(Forked(k, g)) = k + Len(g)
             /\ \A i \in 1 .. k : Forked(k, g)[i] = chain[i]
             /\ \A i \in k + 1 .. k + Len(g) : Forked(k, g)[i] = g[i - k]
  BY <1>1 DEF Forked
<1>3. ASSUME NEW i \in cold + 1 .. Len(d), NEW j \in cold + 1 .. Len(d),
             i < j, d[i].author = d[j].author
      PROVE  d[i].seq < d[j].seq
  <2>1. CASE j <= k
    <3>1. d[i] = chain[i] /\ d[j] = chain[j]
      BY <1>0, <1>2, <1>3, <2>1
    <3> QED  BY <1>0, <1>3, <2>1, <3>1 DEF Rising
  <2>2. CASE j > k
    <3> DEFINE n == j - k
               g == SubSeq(f, 1, n - 1)
    <3>0. Len(d) = k + Len(f)
      BY <1>2
    <3>1. n \in 1 .. Len(f) /\ j = k + n /\ n - 1 \in Nat
      BY <1>0, <2>2, <3>0
    <3>2. /\ g \in Seq(Event) /\ Len(g) = n - 1
          /\ \A h \in 1 .. n - 1 : g[h] = f[h]
      BY <3>1
    <3>3. d[j] = f[n]
      <4>1. j \in k + 1 .. k + Len(f)
        BY <1>0, <2>2, <3>0
      <4> QED  BY <1>2, <4>1
    <3> HIDE DEF n, g, d
    <3>4. i \in cold + 1 .. Len(Forked(k, g))
      BY <1>0, <1>2, <1>3, <3>1, <3>2
    <3>5. Forked(k, g)[i] = d[i]
      <4>1. CASE i <= k
        BY <1>0, <1>2, <1>3, <3>2, <4>1 DEF d
      <4>2. CASE i > k
        <5>0. i \in Nat /\ k \in Nat /\ n \in Nat /\ n <= Len(f) /\ i < k + n
          BY <1>0, <1>3, <3>1
        <5>1. i \in k + 1 .. k + Len(g) /\ i \in k + 1 .. k + Len(f) /\ i - k \in 1 .. n - 1
          BY <3>2, <4>2, <5>0
        <5>2. Forked(k, g)[i] = g[i - k]
          BY <1>2, <3>2, <5>1
        <5>3. d[i] = f[i - k]
          BY <1>2, <5>1 DEF d
        <5> QED  BY <3>2, <5>1, <5>2, <5>3
      <4> QED  BY <1>0, <1>3, <4>1, <4>2
    <3>6. d[i] \in Hot(Forked(k, g), cold)
      BY <3>4, <3>5 DEF Hot
    <3>7. \A x \in Hot(Forked(k, g), cold) : x.author = f[n].author => x.seq < f[n].seq
      BY <3>1 DEF ForkAdmissible, g
    <3> QED  BY <1>3, <3>3, <3>6, <3>7
  <2> QED  BY <1>0, <1>2, <1>3, <2>1, <2>2
<1> QED  BY <1>3 DEF Rising

(* The table rebuilt for a chain covers it (_rebuild_state).               *)
LEMMA RebuiltCovers ==
  ASSUME NEW c \in Seq(Event), NEW k \in Nat
  PROVE  Covered(c, k, RebuiltSequences(c, k))
  BY RebuiltTyped DEF Covered

(* As in JobLinks and IdleLinks, for the numbers.                          *)
LEMMA JobRises ==
  ASSUME JobsOK, RiseInv, NEW t \in WriterThreads, sequences' = sequences,
         NEW j, job' = [job EXCEPT ![t] = j], RisingJob(j)
  PROVE  \A u \in WriterThreads : RisingJob(job[u])'
  BY DEF JobsOK, RisingJob, RiseInv

LEMMA IdleRises ==
  ASSUME \A u \in WriterThreads : job'[u].op = "idle" /\ Rising(job'[u].new, job'[u].base)
  PROVE  \A u \in WriterThreads : RisingJob(job[u])'
<1>1. \A u \in WriterThreads : job'[u].op \notin {"append", "commit", "ingest"}
  <2> TAKE u \in WriterThreads
  <2>1. job'[u].op = "idle"
    OBVIOUS
  <2> QED  BY <2>1
<1> QED  BY <1>1 DEF RisingJob

LEMMA SaveRises ==
  ASSUME FlushesOK, NEW k, Save(k), RiseInv
  PROVE  \A f \in {"timer", "sync"} : Rising(flush'[f].chain, flush'[f].cold)
<1>1. ASSUME NEW f \in {"timer", "sync"}
      PROVE  flush'[f].chain = flush[f].chain /\ flush'[f].cold = flush[f].cold
  BY DEF Save, FlushesOK, Flushes
<1> QED  BY <1>1 DEF RiseInv

LEMMA WriterRises ==
  ASSUME TakeTurns, TypeInv, LinkInv, RiseInv, NEW t \in WriterThreads,
         \/ AppendCheck(t) \/ AppendDraft(t) \/ AppendCommit(t)
         \/ IngestCheck(t) \/ IngestAccept(t)
         \/ \E k \in 1 .. Len(chain) : ForkCheck(t, k)
         \/ ForkApply(t) \/ Reset(t)
  PROVE  RiseInv'
<1>0. /\ GoodJob(job[t]) /\ job[t] \in Jobs /\ JobsOK /\ FlushesOK /\ ChainOK
      /\ chain \in Seq(Event) /\ cold \in Nat /\ cold \in 0 .. Len(chain)
      /\ RisingJob(job[t])
      /\ sequences \in [Authors -> 0 .. MaxSeq]
  BY LedgerAssumption DEF TypeInv, JobsOK, GoodJob, ChainOK, RiseInv
<1>1. CASE AppendCheck(t)
  <2>1. PICK d \in Draft :
          /\ d.seq > sequences[d.author]
          /\ job' = [job EXCEPT ![t] = [op |-> "append", ev |-> d, new |-> <<>>, base |-> 0]]
    BY <1>1 DEF AppendCheck, Admissible
  <2>2. RisingJob([op |-> "append", ev |-> d, new |-> <<>>, base |-> 0])
    BY <2>1, EmptyRises DEF RisingJob
  <2>3. \A u \in WriterThreads : RisingJob(job[u])'
    BY <1>0, <1>1, <2>1, <2>2, JobRises DEF AppendCheck
  <2> QED  BY <1>1, <2>3 DEF AppendCheck, RiseInv
<1>2. CASE AppendDraft(t)
  <2>1. PICK e : /\ e.seq > sequences[e.author]
                 /\ job' = [job EXCEPT ![t] =
                              [op |-> "commit", ev |-> e, new |-> <<>>, base |-> 0]]
    <3>1. job[t].ev \in Draft /\ job[t].ev.seq > sequences[job[t].ev.author]
      BY <1>0, <1>2 DEF AppendDraft, GoodJob, RisingJob
    <3>2. \A i : LET e == [job[t].ev EXCEPT !.id = i, !.prev = HeadHash]
                 IN  e.seq = job[t].ev.seq /\ e.author = job[t].ev.author
      BY <3>1 DEF Draft
    <3> QED  BY <1>2, <3>1, <3>2 DEF AppendDraft
  <2>2. RisingJob([op |-> "commit", ev |-> e, new |-> <<>>, base |-> 0])
    BY <2>1, EmptyRises DEF RisingJob
  <2>3. \A u \in WriterThreads : RisingJob(job[u])'
    BY <1>0, <1>2, <2>1, <2>2, JobRises DEF AppendDraft
  <2> QED  BY <1>2, <2>3 DEF AppendDraft, RiseInv
<1>3. CASE AppendCommit(t) \/ IngestAccept(t)
  <2>0. job[t].op # "idle"
    BY <1>3 DEF AppendCommit, IngestAccept
  <2> DEFINE e == job[t].ev
  <2>1. /\ e \in Event /\ Accept(e) /\ job' = [job EXCEPT ![t] = Idle]
        /\ e.seq > sequences[e.author]
    BY <1>0, <1>3 DEF AppendCommit, IngestAccept, GoodJob, RisingJob, LinkInv
  <2> HIDE DEF e
  <2>2. /\ chain' = Append(chain, e) /\ chain' \in Seq(Event) /\ Len(chain') = Len(chain) + 1
        /\ sequences' = [sequences EXCEPT ![e.author] = e.seq] /\ Save(cold) /\ file' = file
    BY <1>0, <2>1 DEF Accept
  <2>3. Rising(chain', cold) /\ Covered(chain', cold, sequences')
    <3>1. Rising(chain, cold) /\ Covered(chain, cold, sequences)
      BY DEF RiseInv
    <3>2. /\ Rising(Append(chain, e), cold)
          /\ Covered(Append(chain, e), cold, [sequences EXCEPT ![e.author] = e.seq])
      BY <1>0, <2>1, <3>1, AppendRises
    <3> QED  BY <2>2, <3>2
  <2>4. cold' \in cold .. Len(chain')
    <3> DEFINE k == cold
    <3>1. k \in 0 .. Len(chain') /\ chain' \in Seq(Event) /\ Save(k) /\ FlushesOK
      BY <1>0, <2>2
    <3> HIDE DEF k
    <3>2. cold' \in k .. Len(chain')
      BY <3>1, SaveTyped
    <3> QED  BY <3>2 DEF k
  <2>5. Rising(chain', cold') /\ Covered(chain', cold', sequences')
    <3>1. cold' \in Nat /\ cold <= cold' /\ cold \in Nat /\ chain' \in Seq(Event)
      BY <1>0, <2>2, <2>4
    <3> QED  BY <2>3, <3>1, LaterRises
  <2>6. \A u \in WriterThreads : job'[u].op = "idle" /\ Rising(job'[u].new, job'[u].base)
    BY <1>0, <2>0, <2>1, OthersIdle, IdleGood, EmptyRises DEF JobsOK, RiseInv, RisingJob
  <2>7. \A f \in {"timer", "sync"} : Rising(flush'[f].chain, flush'[f].cold)
    BY <1>0, <2>2, SaveRises
  <2>8. Rising(file'.chain, file'.cold)
    BY <2>2 DEF RiseInv
  <2> QED  BY <2>5, <2>6, <2>7, <2>8, IdleRises DEF RiseInv
<1>4. CASE IngestCheck(t)
  <2>1. PICK e : /\ e.seq > sequences[e.author]
                 /\ job' = [job EXCEPT ![t] =
                              [op |-> "ingest", ev |-> e, new |-> <<>>, base |-> 0]]
    BY <1>4 DEF IngestCheck, Admissible
  <2>2. RisingJob([op |-> "ingest", ev |-> e, new |-> <<>>, base |-> 0])
    BY <2>1, EmptyRises DEF RisingJob
  <2>3. \A u \in WriterThreads : RisingJob(job[u])'
    BY <1>0, <1>4, <2>1, <2>2, JobRises DEF IngestCheck
  <2> QED  BY <1>4, <2>3 DEF IngestCheck, RiseInv
<1>5. ASSUME NEW k \in 1 .. Len(chain), ForkCheck(t, k) PROVE RiseInv'
  <2>1. PICK f \in Seq(Event) :
          /\ ForkAdmissible(k, f)
          /\ job' = [job EXCEPT ![t] =
                       [op |-> "fork", ev |-> NoEvent, new |-> Forked(k, f), base |-> cold]]
    BY <1>5 DEF ForkCheck
  <2>2. cold < k
    BY <1>0, <1>5 DEF ForkCheck
  <2>3. RisingJob([op |-> "fork", ev |-> NoEvent, new |-> Forked(k, f), base |-> cold])
    BY <1>0, <2>1, <2>2, ForkRises DEF RisingJob, RiseInv
  <2>4. \A u \in WriterThreads : RisingJob(job[u])'
    BY <1>0, <1>5, <2>1, <2>3, JobRises DEF ForkCheck
  <2> QED  BY <1>5, <2>4 DEF ForkCheck, RiseInv
<1>6. CASE ForkApply(t)
  <2>0. job[t].op # "idle"
    BY <1>6 DEF ForkApply
  <2> DEFINE new == job[t].new
             k == job[t].base
  <2>1. /\ new \in Seq(Event) /\ k \in Nat /\ k \in 0 .. Len(new) /\ Rising(new, k)
    BY <1>0, <1>6 DEF ForkApply, GoodJob, Jobs, RisingJob, LinkInv
  <2>2. /\ chain' = new /\ sequences' = RebuiltSequences(new, k) /\ Save(k) /\ file' = file
        /\ job' = [job EXCEPT ![t] = Idle]
    BY <1>6 DEF ForkApply
  <2> HIDE DEF new, k
  <2>3. Covered(chain', k, sequences')
    BY <2>1, <2>2, RebuiltCovers
  <2>4. cold' \in k .. Len(chain')
    BY <1>0, <2>1, <2>2, SaveTyped
  <2>5. Rising(chain', cold') /\ Covered(chain', cold', sequences')
    <3>1. cold' \in Nat /\ k <= cold' /\ chain' \in Seq(Event)
      BY <2>1, <2>2, <2>4
    <3> QED  BY <2>1, <2>2, <2>3, <3>1, LaterRises
  <2>6. \A u \in WriterThreads : job'[u].op = "idle" /\ Rising(job'[u].new, job'[u].base)
    BY <1>0, <2>0, <2>1, <2>2, OthersIdle, IdleGood, EmptyRises DEF JobsOK, RiseInv, RisingJob
  <2>7. \A f \in {"timer", "sync"} : Rising(flush'[f].chain, flush'[f].cold)
    BY <1>0, <2>2, SaveRises
  <2>8. Rising(file'.chain, file'.cold)
    BY <2>2 DEF RiseInv
  <2> QED  BY <2>5, <2>6, <2>7, <2>8, IdleRises DEF RiseInv
<1>7. CASE Reset(t)
  <2>0. Free(t)
    BY <1>7 DEF Reset
  <2>1. /\ job[t] = Idle /\ chain' = <<>> /\ cold' = 0
        /\ job' = job /\ file' = file
    BY <1>7 DEF Reset, Free
  <2>2. \A u \in WriterThreads : job'[u].op = "idle" /\ Rising(job'[u].new, job'[u].base)
    BY <1>0, <2>0, <2>1, OthersIdle, IdleGood DEF RiseInv, RisingJob
  <2>3. \A f \in {"timer", "sync"} :
          flush'[f].chain = flush[f].chain /\ flush'[f].cold = flush[f].cold
    BY <1>0, <1>7 DEF Reset, FlushesOK, Flushes
  <2> QED  BY <2>1, <2>2, <2>3, IdleRises, EmptyRises DEF RiseInv
<1> QED  BY <1>1, <1>2, <1>3, <1>4, <1>5, <1>6, <1>7

LEMMA FlushRises ==
  ASSUME TypeInv, RiseInv, NEW f \in {"timer", "sync"},
         FlushStart(f) \/ FlushWrite(f) \/ FlushFail(f) \/ FlushDone(f)
  PROVE  RiseInv'
<1>1. \A g \in {"timer", "sync"} : Rising(flush'[g].chain, flush'[g].cold)
  BY EmptyRises
  DEF FlushStart, FlushWrite, FlushFail, FlushDone, TypeInv, FlushesOK, RiseInv, Off
<1>2. Rising(file'.chain, file'.cold)
  BY DEF FlushStart, FlushWrite, FlushFail, FlushDone, RiseInv
<1>3. chain' = chain /\ cold' = cold /\ sequences' = sequences /\ job' = job
  BY DEF FlushStart, FlushWrite, FlushFail, FlushDone
<1> QED  BY <1>1, <1>2, <1>3 DEF RiseInv, RisingJob

LEMMA StopRises ==
  ASSUME TypeInv, RiseInv, Crash \/ Exit
  PROVE  RiseInv'
<1>1. /\ chain' = chain /\ cold' = cold /\ sequences' = sequences
      /\ Rising(file'.chain, file'.cold)
      /\ \A f \in {"timer", "sync"} : flush'[f] = Off
      /\ \A t \in WriterThreads : job'[t] = Idle
  BY DEF Crash, Exit, Stopped, RiseInv
<1>2. \A t \in WriterThreads : job'[t].op = "idle" /\ Rising(job'[t].new, job'[t].base)
  BY <1>1, EmptyRises, IdleGood
<1> QED  BY <1>1, <1>2, IdleRises, EmptyRises DEF RiseInv

LEMMA BootRises ==
  ASSUME TypeInv, LinkInv, RiseInv,
         BootPlain \/ BootDropWal \/ BootDegraded \/ \E w \in BOOLEAN : BootReplay(w)
  PROVE  RiseInv'
<1> DEFINE c == file.chain
           k == file.cold
           s == RebuiltSequences(c, k)
<1>0. /\ c \in Seq(Event) /\ k \in Nat /\ k \in 0 .. Len(c)
      /\ wal \in Event \cup {NoEvent} /\ Rising(c, k)
  BY DEF TypeInv, DiskOK, RiseInv
<1>1. Covered(c, k, s) /\ s \in [Authors -> 0 .. MaxSeq]
  BY <1>0, RebuiltCovers, RebuiltTyped
<1>2. ~up /\ job' = job
  BY DEF BootPlain, BootDropWal, BootDegraded, BootReplay, Loaded
<1>3. \A t \in WriterThreads : job'[t].op = "idle" /\ Rising(job'[t].new, job'[t].base)
  BY <1>2 DEF LinkInv, RiseInv, RisingJob
<1>4. \A f \in {"timer", "sync"} :
        flush'[f].chain = flush[f].chain /\ flush'[f].cold = flush[f].cold
  BY DEF BootPlain, BootDropWal, BootDegraded, BootReplay, Loaded, TypeInv, FlushesOK, Flushes
<1>5. /\ Rising(chain', cold') /\ Covered(chain', cold', sequences')
      /\ Rising(file'.chain, file'.cold)
  <2>1. CASE BootPlain \/ BootDropWal
    BY <1>0, <1>1, <2>1 DEF BootPlain, BootDropWal, Loaded
  <2>2. CASE BootDegraded
    BY <1>0, <2>2, EmptyRises DEF BootDegraded
  <2>3. ASSUME NEW w \in BOOLEAN, BootReplay(w)
        PROVE  /\ Rising(chain', cold') /\ Covered(chain', cold', sequences')
               /\ Rising(file'.chain, file'.cold)
    <3>1. /\ wal \in Event /\ wal.seq > s[wal.author]
          /\ chain' = Append(c, wal) /\ cold' = Archived(chain', k)
          /\ sequences' = [s EXCEPT ![wal.author] = wal.seq]
      BY <1>0, <2>3 DEF BootReplay, WalAdmissible, Admissible
    <3>2. file' = [chain |-> chain', cold |-> cold'] \/ file' = file
      BY <2>3 DEF BootReplay
    <3> HIDE DEF c, k, s
    <3>3. /\ Rising(Append(c, wal), k)
          /\ Covered(Append(c, wal), k, [s EXCEPT ![wal.author] = wal.seq])
      BY <1>0, <1>1, <3>1, AppendRises
    <3>4. chain' \in Seq(Event) /\ k \in 0 .. Len(chain')
      BY <1>0, <3>1
    <3>5. cold' \in k .. Len(chain')
      BY <3>1, <3>4, ArchivedTyped
    <3>6. cold' \in Nat /\ k <= cold' /\ k \in Nat
      BY <1>0, <3>5
    <3>7. Rising(chain', cold') /\ Covered(chain', cold', sequences')
      <4>1. Rising(chain', k) /\ Covered(chain', k, sequences')
        BY <3>1, <3>3
      <4> QED  BY <3>4, <3>6, <4>1, LaterRises
    <3>8. Rising(file'.chain, file'.cold)
      <4>1. CASE file' = [chain |-> chain', cold |-> cold']
        <5>1. file'.chain = chain' /\ file'.cold = cold'
          BY <4>1
        <5> QED  BY <3>7, <5>1
      <4>2. CASE file' = file
        BY <4>2 DEF RiseInv
      <4> QED  BY <3>2, <4>1, <4>2
    <3> QED  BY <3>7, <3>8
  <2> QED  BY <2>1, <2>2, <2>3
<1> QED  BY <1>3, <1>4, <1>5, IdleRises DEF RiseInv

LEMMA RiseInit == Init => RiseInv
<1> SUFFICES ASSUME Init PROVE RiseInv
  OBVIOUS
<1>1. \A t \in WriterThreads : RisingJob(job[t])
  BY EmptyRises, IdleGood DEF Init, RisingJob
<1> QED  BY <1>1, EmptyRises DEF Init, RiseInv

LEMMA RiseNext ==
  ASSUME TakeTurns
  PROVE  TypeInv /\ LinkInv /\ RiseInv /\ [Next]_vars => RiseInv'
<1> SUFFICES ASSUME TypeInv, LinkInv, RiseInv, [Next]_vars PROVE RiseInv'
  OBVIOUS
<1>1. CASE \E t \in WriterThreads :
             \/ AppendCheck(t) \/ AppendDraft(t) \/ AppendCommit(t)
             \/ IngestCheck(t) \/ IngestAccept(t)
             \/ \E k \in 1 .. Len(chain) : ForkCheck(t, k)
             \/ ForkApply(t) \/ Reset(t)
  BY <1>1, WriterRises
<1>2. CASE \E f \in {"timer", "sync"} :
             FlushStart(f) \/ FlushWrite(f) \/ FlushFail(f) \/ FlushDone(f)
  BY <1>2, FlushRises
<1>3. CASE Crash \/ Exit
  BY <1>3, StopRises
<1>4. CASE BootPlain \/ BootDropWal \/ BootDegraded \/ \E w \in BOOLEAN : BootReplay(w)
  BY <1>4, BootRises
<1>5. CASE UNCHANGED vars
  BY <1>5 DEF vars, RiseInv, RisingJob
<1> QED  BY <1>1, <1>2, <1>3, <1>4, <1>5 DEF Next

(* When the node's threads take turns, no number of an author is used      *)
(* twice among the events in memory, although the table that guards it is  *)
(* rebuilt at every boot and after every fork.                             *)
THEOREM TurnsRise ==
  ASSUME TakeTurns
  PROVE  Spec => []HotSequencesRise
<1>1. RiseInv => HotSequencesRise
  BY DEF RiseInv, HotSequencesRise
<1>2. Spec => [](TypeInv /\ LinkInv /\ RiseInv)
  BY TypeInit, TypeNext, LinkInit, LinkNext, RiseInit, RiseNext, PTL DEF Spec
<1> QED  BY <1>1, <1>2, PTL

(***************************************************************************)
(* A revoked key is silent when the writers take turns and no fork comes   *)
(***************************************************************************)
Silent(c, k) ==
  \A i, j \in k + 1 .. Len(c) :
    i < j /\ c[i].author = c[j].author /\ c[i].kind = "key_revoke"
      => c[j].kind = "key_revoke"

Listed(c, k, r) == \A i \in k + 1 .. Len(c) : c[i].kind = "key_revoke" => c[i].author \in r

SilentJob(j) ==
  /\ j.op # "fork"
  /\ j.op \in {"append", "commit", "ingest"}
       => (j.ev.author \in revoked => j.ev.kind = "key_revoke")

(* Revoked keys are silent in memory and in every copy of it, and the      *)
(* table of revocations is up to date with memory.                         *)
SilentInv ==
  /\ Silent(chain, cold) /\ Listed(chain, cold, revoked)
  /\ Silent(file.chain, file.cold)
  /\ \A f \in {"timer", "sync"} : Silent(flush[f].chain, flush[f].cold)
  /\ \A t \in WriterThreads : SilentJob(job[t])

LEMMA EmptySilent ==
  /\ \A k \in Nat : Silent(<<>>, k)
  /\ SilentJob(Idle) /\ Silent(Off.chain, Off.cold)
  /\ \A k \in Nat : \A r : Listed(<<>>, k, r)
  BY DEF Silent, Listed, SilentJob, Idle, Off

(* Archiving more takes events out of the comparison only.                 *)
LEMMA LaterSilent ==
  ASSUME NEW c \in Seq(Event), NEW k \in Nat, NEW m \in Nat, k <= m,
         NEW r, Silent(c, k), Listed(c, k, r)
  PROVE  Silent(c, m) /\ Listed(c, m, r)
<1>1. \A i \in m + 1 .. Len(c) : i \in k + 1 .. Len(c)
  OBVIOUS
<1> QED  BY <1>1 DEF Silent, Listed

(* An event of a key that is not listed, or another revocation, breaks no  *)
(* silence, and is listed if it is a revocation.                           *)
Relisted(e, r) == IF e.kind = "key_revoke" THEN r \cup {e.author} ELSE r

LEMMA AppendSilent ==
  ASSUME NEW c \in Seq(Event), NEW k \in Nat, NEW r, NEW e \in Event,
         Silent(c, k), Listed(c, k, r), e.author \in r => e.kind = "key_revoke"
  PROVE  Silent(Append(c, e), k) /\ Listed(Append(c, e), k, Relisted(e, r))
<1> DEFINE d == Append(c, e)
<1>1. /\ Len(d) = Len(c) + 1 /\ Len(c) \in Nat
      /\ \A i \in 1 .. Len(c) : d[i] = c[i]
      /\ d[Len(c) + 1] = e
  OBVIOUS
<1> HIDE DEF d
<1>2. ASSUME NEW i \in k + 1 .. Len(d), NEW j \in k + 1 .. Len(d),
             i < j, d[i].author = d[j].author, d[i].kind = "key_revoke"
      PROVE  d[j].kind = "key_revoke"
  <2>1. i \in k + 1 .. Len(c) /\ d[i] = c[i]
    BY <1>1, <1>2
  <2>2. CASE j \in k + 1 .. Len(c)
    <3>1. d[j] = c[j]
      BY <1>1, <2>2
    <3> QED  BY <1>2, <2>1, <2>2, <3>1 DEF Silent
  <2>3. CASE j = Len(c) + 1
    BY <1>1, <1>2, <2>1, <2>3 DEF Listed
  <2> QED  BY <1>1, <2>2, <2>3
<1>3. ASSUME NEW i \in k + 1 .. Len(d), d[i].kind = "key_revoke"
      PROVE  d[i].author \in Relisted(e, r)
  <2>1. CASE i = Len(c) + 1
    BY <1>1, <1>3, <2>1 DEF Relisted
  <2>2. CASE i \in k + 1 .. Len(c)
    <3>1. d[i] = c[i]
      BY <1>1, <2>2
    <3> QED  BY <1>3, <2>2, <3>1 DEF Listed, Relisted
  <2> QED  BY <1>1, <2>1, <2>2
<1> QED  BY <1>2, <1>3 DEF Silent, Listed, d

(* The table rebuilt for a chain lists its revocations                     *)
(* (_rebuild_revocations).                                                 *)
LEMMA RebuiltLists ==
  ASSUME NEW c \in Seq(Event), NEW k \in Nat
  PROVE  Listed(c, k, RebuiltRevoked(c, k))
  BY DEF Listed, RebuiltRevoked, Hot

(* As in JobLinks and IdleLinks, for the revocations.                      *)
LEMMA JobSilent ==
  ASSUME JobsOK, SilentInv, NEW t \in WriterThreads, revoked' = revoked,
         NEW j, job' = [job EXCEPT ![t] = j], SilentJob(j)
  PROVE  \A u \in WriterThreads : SilentJob(job[u])'
  BY DEF JobsOK, SilentJob, SilentInv

LEMMA IdleSilent ==
  ASSUME \A u \in WriterThreads : job'[u].op = "idle"
  PROVE  \A u \in WriterThreads : SilentJob(job[u])'
<1>1. \A u \in WriterThreads : job'[u].op \notin {"fork", "append", "commit", "ingest"}
  <2> TAKE u \in WriterThreads
  <2>1. job'[u].op = "idle"
    OBVIOUS
  <2> QED  BY <2>1
<1> QED  BY <1>1 DEF SilentJob

LEMMA SaveSilent ==
  ASSUME FlushesOK, NEW k, Save(k), SilentInv
  PROVE  \A f \in {"timer", "sync"} : Silent(flush'[f].chain, flush'[f].cold)
<1>1. ASSUME NEW f \in {"timer", "sync"}
      PROVE  flush'[f].chain = flush[f].chain /\ flush'[f].cold = flush[f].cold
  BY DEF Save, FlushesOK, Flushes
<1> QED  BY <1>1 DEF SilentInv

LEMMA WriterSilent ==
  ASSUME TakeTurns, "rns" \notin Writers,
         TypeInv, LinkInv, SilentInv, NEW t \in WriterThreads,
         \/ AppendCheck(t) \/ AppendDraft(t) \/ AppendCommit(t)
         \/ IngestCheck(t) \/ IngestAccept(t)
         \/ \E k \in 1 .. Len(chain) : ForkCheck(t, k)
         \/ ForkApply(t) \/ Reset(t)
  PROVE  SilentInv'
<1>0. /\ GoodJob(job[t]) /\ job[t] \in Jobs /\ JobsOK /\ FlushesOK /\ ChainOK
      /\ chain \in Seq(Event) /\ cold \in Nat /\ cold \in 0 .. Len(chain)
      /\ SilentJob(job[t])
  BY LedgerAssumption DEF TypeInv, JobsOK, GoodJob, ChainOK, SilentInv
<1>1. CASE AppendCheck(t)
  <2>1. PICK d \in Draft :
          /\ d.author \in revoked => d.kind = "key_revoke"
          /\ job' = [job EXCEPT ![t] = [op |-> "append", ev |-> d, new |-> <<>>, base |-> 0]]
    BY <1>1 DEF AppendCheck, Admissible
  <2>2. SilentJob([op |-> "append", ev |-> d, new |-> <<>>, base |-> 0])
    BY <2>1 DEF SilentJob
  <2>3. \A u \in WriterThreads : SilentJob(job[u])'
    BY <1>0, <1>1, <2>1, <2>2, JobSilent DEF AppendCheck
  <2> QED  BY <1>1, <2>3 DEF AppendCheck, SilentInv
<1>2. CASE AppendDraft(t)
  <2>1. PICK e : /\ e.author \in revoked => e.kind = "key_revoke"
                 /\ job' = [job EXCEPT ![t] =
                              [op |-> "commit", ev |-> e, new |-> <<>>, base |-> 0]]
    <3>1. /\ job[t].ev \in Draft
          /\ job[t].ev.author \in revoked => job[t].ev.kind = "key_revoke"
      BY <1>0, <1>2 DEF AppendDraft, GoodJob, SilentJob
    <3>2. \A i : LET e == [job[t].ev EXCEPT !.id = i, !.prev = HeadHash]
                 IN  e.kind = job[t].ev.kind /\ e.author = job[t].ev.author
      BY <3>1 DEF Draft
    <3> QED  BY <1>2, <3>1, <3>2 DEF AppendDraft
  <2>2. SilentJob([op |-> "commit", ev |-> e, new |-> <<>>, base |-> 0])
    BY <2>1 DEF SilentJob
  <2>3. \A u \in WriterThreads : SilentJob(job[u])'
    BY <1>0, <1>2, <2>1, <2>2, JobSilent DEF AppendDraft
  <2> QED  BY <1>2, <2>3 DEF AppendDraft, SilentInv
<1>3. CASE AppendCommit(t) \/ IngestAccept(t)
  <2>0. job[t].op # "idle"
    BY <1>3 DEF AppendCommit, IngestAccept
  <2> DEFINE e == job[t].ev
  <2>1. /\ e \in Event /\ Accept(e) /\ job' = [job EXCEPT ![t] = Idle]
        /\ e.author \in revoked => e.kind = "key_revoke"
    BY <1>0, <1>3 DEF AppendCommit, IngestAccept, GoodJob, SilentJob
  <2> HIDE DEF e
  <2>2. /\ chain' = Append(chain, e) /\ chain' \in Seq(Event) /\ Len(chain') = Len(chain) + 1
        /\ revoked' = Relisted(e, revoked) /\ Save(cold) /\ file' = file
    BY <1>0, <2>1 DEF Accept, Relisted
  <2>3. Silent(chain', cold) /\ Listed(chain', cold, revoked')
    <3>1. Silent(chain, cold) /\ Listed(chain, cold, revoked)
      BY DEF SilentInv
    <3>2. /\ Silent(Append(chain, e), cold)
          /\ Listed(Append(chain, e), cold, Relisted(e, revoked))
      BY <1>0, <2>1, <3>1, AppendSilent
    <3> QED  BY <2>2, <3>2
  <2>4. cold' \in cold .. Len(chain')
    <3> DEFINE k == cold
    <3>1. k \in 0 .. Len(chain') /\ chain' \in Seq(Event) /\ Save(k) /\ FlushesOK
      BY <1>0, <2>2
    <3> HIDE DEF k
    <3>2. cold' \in k .. Len(chain')
      BY <3>1, SaveTyped
    <3> QED  BY <3>2 DEF k
  <2>5. Silent(chain', cold') /\ Listed(chain', cold', revoked')
    <3>1. cold' \in Nat /\ cold <= cold' /\ cold \in Nat /\ chain' \in Seq(Event)
      BY <1>0, <2>2, <2>4
    <3> QED  BY <2>3, <3>1, LaterSilent
  <2>6. \A u \in WriterThreads : job'[u].op = "idle"
    BY <1>0, <2>0, <2>1, OthersIdle, IdleGood DEF JobsOK
  <2>7. \A f \in {"timer", "sync"} : Silent(flush'[f].chain, flush'[f].cold)
    BY <1>0, <2>2, SaveSilent
  <2>8. Silent(file'.chain, file'.cold)
    BY <2>2 DEF SilentInv
  <2> QED  BY <2>5, <2>6, <2>7, <2>8, IdleSilent DEF SilentInv
<1>4. CASE IngestCheck(t)
  <2>1. PICK e : /\ e.author \in revoked => e.kind = "key_revoke"
                 /\ job' = [job EXCEPT ![t] =
                              [op |-> "ingest", ev |-> e, new |-> <<>>, base |-> 0]]
    BY <1>4 DEF IngestCheck, Admissible
  <2>2. SilentJob([op |-> "ingest", ev |-> e, new |-> <<>>, base |-> 0])
    BY <2>1 DEF SilentJob
  <2>3. \A u \in WriterThreads : SilentJob(job[u])'
    BY <1>0, <1>4, <2>1, <2>2, JobSilent DEF IngestCheck
  <2> QED  BY <1>4, <2>3 DEF IngestCheck, SilentInv
<1>5. ASSUME NEW k \in 1 .. Len(chain), ForkCheck(t, k) PROVE FALSE
  BY <1>5 DEF ForkCheck, Free
<1>6. CASE ForkApply(t)
  BY <1>0, <1>6 DEF ForkApply, SilentJob
<1>7. CASE Reset(t)
  <2>0. Free(t)
    BY <1>7 DEF Reset
  <2>1. /\ job[t] = Idle /\ chain' = <<>> /\ cold' = 0
        /\ job' = job /\ file' = file
    BY <1>7 DEF Reset, Free
  <2>2. \A u \in WriterThreads : job'[u].op = "idle"
    BY <1>0, <2>0, <2>1, OthersIdle, IdleGood
  <2>3. \A f \in {"timer", "sync"} :
          flush'[f].chain = flush[f].chain /\ flush'[f].cold = flush[f].cold
    BY <1>0, <1>7 DEF Reset, FlushesOK, Flushes
  <2> QED  BY <2>1, <2>2, <2>3, IdleSilent, EmptySilent DEF SilentInv
<1> QED  BY <1>1, <1>2, <1>3, <1>4, <1>5, <1>6, <1>7

LEMMA FlushSilent ==
  ASSUME TypeInv, SilentInv, NEW f \in {"timer", "sync"},
         FlushStart(f) \/ FlushWrite(f) \/ FlushFail(f) \/ FlushDone(f)
  PROVE  SilentInv'
<1>1. \A g \in {"timer", "sync"} : Silent(flush'[g].chain, flush'[g].cold)
  BY EmptySilent
  DEF FlushStart, FlushWrite, FlushFail, FlushDone, TypeInv, FlushesOK, SilentInv, Off
<1>2. Silent(file'.chain, file'.cold)
  BY DEF FlushStart, FlushWrite, FlushFail, FlushDone, SilentInv
<1>3. chain' = chain /\ cold' = cold /\ revoked' = revoked /\ job' = job
  BY DEF FlushStart, FlushWrite, FlushFail, FlushDone
<1> QED  BY <1>1, <1>2, <1>3 DEF SilentInv, SilentJob

LEMMA StopSilent ==
  ASSUME TypeInv, SilentInv, Crash \/ Exit
  PROVE  SilentInv'
<1>1. /\ chain' = chain /\ cold' = cold /\ revoked' = revoked
      /\ Silent(file'.chain, file'.cold)
      /\ \A f \in {"timer", "sync"} : flush'[f] = Off
      /\ \A t \in WriterThreads : job'[t] = Idle
  BY DEF Crash, Exit, Stopped, SilentInv
<1>2. \A t \in WriterThreads : job'[t].op = "idle"
  BY <1>1, IdleGood
<1> QED  BY <1>1, <1>2, IdleSilent, EmptySilent DEF SilentInv

LEMMA BootSilent ==
  ASSUME TypeInv, LinkInv, SilentInv,
         BootPlain \/ BootDropWal \/ BootDegraded \/ \E w \in BOOLEAN : BootReplay(w)
  PROVE  SilentInv'
<1> DEFINE c == file.chain
           k == file.cold
           r == RebuiltRevoked(c, k)
<1>0. /\ c \in Seq(Event) /\ k \in Nat /\ k \in 0 .. Len(c)
      /\ wal \in Event \cup {NoEvent} /\ Silent(c, k)
  BY DEF TypeInv, DiskOK, SilentInv
<1>1. Listed(c, k, r)
  BY <1>0, RebuiltLists
<1>2. ~up /\ job' = job
  BY DEF BootPlain, BootDropWal, BootDegraded, BootReplay, Loaded
<1>3. \A t \in WriterThreads : job'[t].op = "idle"
  BY <1>2 DEF LinkInv
<1>4. \A f \in {"timer", "sync"} :
        flush'[f].chain = flush[f].chain /\ flush'[f].cold = flush[f].cold
  BY DEF BootPlain, BootDropWal, BootDegraded, BootReplay, Loaded, TypeInv, FlushesOK, Flushes
<1>5. /\ Silent(chain', cold') /\ Listed(chain', cold', revoked')
      /\ Silent(file'.chain, file'.cold)
  <2>1. CASE BootPlain \/ BootDropWal
    BY <1>0, <1>1, <2>1 DEF BootPlain, BootDropWal, Loaded
  <2>2. CASE BootDegraded
    BY <1>0, <2>2, EmptySilent DEF BootDegraded
  <2>3. ASSUME NEW w \in BOOLEAN, BootReplay(w)
        PROVE  /\ Silent(chain', cold') /\ Listed(chain', cold', revoked')
               /\ Silent(file'.chain, file'.cold)
    <3>1. /\ wal \in Event
          /\ wal.author \in r => wal.kind = "key_revoke"
          /\ chain' = Append(c, wal) /\ cold' = Archived(chain', k)
          /\ revoked' = Relisted(wal, r)
      BY <1>0, <2>3 DEF BootReplay, WalAdmissible, Admissible, Relisted
    <3>2. file' = [chain |-> chain', cold |-> cold'] \/ file' = file
      BY <2>3 DEF BootReplay
    <3> HIDE DEF c, k, r
    <3>3. Silent(Append(c, wal), k) /\ Listed(Append(c, wal), k, Relisted(wal, r))
      BY <1>0, <1>1, <3>1, AppendSilent
    <3>4. chain' \in Seq(Event) /\ k \in 0 .. Len(chain')
      BY <1>0, <3>1
    <3>5. cold' \in k .. Len(chain')
      BY <3>1, <3>4, ArchivedTyped
    <3>6. cold' \in Nat /\ k <= cold' /\ k \in Nat
      BY <1>0, <3>5
    <3>7. Silent(chain', cold') /\ Listed(chain', cold', revoked')
      <4>1. Silent(chain', k) /\ Listed(chain', k, revoked')
        BY <3>1, <3>3
      <4> QED  BY <3>4, <3>6, <4>1, LaterSilent
    <3>8. Silent(file'.chain, file'.cold)
      <4>1. CASE file' = [chain |-> chain', cold |-> cold']
        <5>1. file'.chain = chain' /\ file'.cold = cold'
          BY <4>1
        <5> QED  BY <3>7, <5>1
      <4>2. CASE file' = file
        BY <4>2 DEF SilentInv
      <4> QED  BY <3>2, <4>1, <4>2
    <3> QED  BY <3>7, <3>8
  <2> QED  BY <2>1, <2>2, <2>3
<1> QED  BY <1>3, <1>4, <1>5, IdleSilent DEF SilentInv

LEMMA SilentInit == Init => SilentInv
<1> SUFFICES ASSUME Init PROVE SilentInv
  OBVIOUS
<1>1. \A t \in WriterThreads : SilentJob(job[t])
  BY EmptySilent DEF Init
<1> QED  BY <1>1, EmptySilent DEF Init, SilentInv

LEMMA SilentNext ==
  ASSUME TakeTurns, "rns" \notin Writers
  PROVE  TypeInv /\ LinkInv /\ SilentInv /\ [Next]_vars => SilentInv'
<1> SUFFICES ASSUME TypeInv, LinkInv, SilentInv, [Next]_vars PROVE SilentInv'
  OBVIOUS
<1>1. CASE \E t \in WriterThreads :
             \/ AppendCheck(t) \/ AppendDraft(t) \/ AppendCommit(t)
             \/ IngestCheck(t) \/ IngestAccept(t)
             \/ \E k \in 1 .. Len(chain) : ForkCheck(t, k)
             \/ ForkApply(t) \/ Reset(t)
  BY <1>1, WriterSilent
<1>2. CASE \E f \in {"timer", "sync"} :
             FlushStart(f) \/ FlushWrite(f) \/ FlushFail(f) \/ FlushDone(f)
  BY <1>2, FlushSilent
<1>3. CASE Crash \/ Exit
  BY <1>3, StopSilent
<1>4. CASE BootPlain \/ BootDropWal \/ BootDegraded \/ \E w \in BOOLEAN : BootReplay(w)
  BY <1>4, BootSilent
<1>5. CASE UNCHANGED vars
  BY <1>5 DEF vars, SilentInv, SilentJob
<1> QED  BY <1>1, <1>2, <1>3, <1>4, <1>5 DEF Next

(* When the node's threads take turns and no fork comes over RNS, a key    *)
(* that was revoked in what memory holds signs nothing but revocations     *)
(* after it, although the table of revocations is rebuilt at every boot.   *)
THEOREM TurnsSilence ==
  ASSUME TakeTurns, "rns" \notin Writers
  PROVE  Spec => []RevokedKeySilent
<1>1. SilentInv => RevokedKeySilent
  BY DEF SilentInv, Silent, RevokedKeySilent
<1>2. Spec => [](TypeInv /\ LinkInv /\ SilentInv)
  BY TypeInit, TypeNext, LinkInit, LinkNext, SilentInit, SilentNext, PTL DEF Spec
<1> QED  BY <1>1, <1>2, PTL
=================================================================================
