--------------------------------- MODULE Ledger ---------------------------------
(***************************************************************************)
(* One node's copy of the infonet (class Infonet of mesh_hashchain.py):    *)
(* the chain in memory, the threads that write it, the delayed save, the   *)
(* write-ahead file, stops and boots.                                      *)
(*                                                                         *)
(* No lock protects the chain.  A writer first checks an event (sequence,  *)
(* revocation, signature), then adds it; the other threads run in between. *)
(* "loop" is the event loop: local appends, and events pushed by peers.    *)
(* "sync" is the thread that pulls from peers and resets a diverged chain. *)
(* "rns" is the thread of the RNS bridge: gossip and forks with a quorum.  *)
(*                                                                         *)
(* An event's id stands for its hash: an id belongs to one event.  Events  *)
(* archived by the memory cap stay in chain, below the position cold; the  *)
(* code never reads them back.  Signatures, payloads and key bindings are  *)
(* left out (every event offered passes those checks), and a revocation    *)
(* takes effect when it is accepted (grace_until = revoked_at).            *)
(***************************************************************************)
EXTENDS Integers, Sequences, SequencesExt

CONSTANTS
  Ids,         \* event ids, numbered
  Genesis,     \* GENESIS_HASH
  NoId,        \* no id, of an event that has none yet
  Authors,     \* node ids of authors; each has one key
  MaxSeq,      \* bound: the largest sequence number in use
  Kinds,       \* event types: "message" and "key_revoke"
  Writers,     \* threads of this node that write: a subset of WriterThreads
  TakeTurns,   \* bound: no writer starts while another is between check and append
  HotMax,      \* MAX_CHAIN_MEMORY
  LockDepth,   \* CHAIN_LOCK_DEPTH
  MaxFork,     \* bound: events in a fork
  SmallChain,  \* a forked chain shorter than this is reset (20)
  MayFail,     \* writes to disk may fail
  MayStale     \* the node may stay down for longer than the ingest freshness window

WriterThreads == {"loop", "sync", "rns"}
Seqs == 1 .. MaxSeq

ASSUME LedgerAssumption ==
  /\ Ids \subseteq Nat /\ Genesis \notin Ids /\ NoId \notin Ids /\ NoId # Genesis
  /\ Kinds \subseteq {"message", "key_revoke"}
  /\ Writers \subseteq WriterThreads /\ TakeTurns \in BOOLEAN
  /\ MaxSeq \in Nat \ {0} /\ HotMax \in Nat \ {0} /\ LockDepth \in Nat
  /\ MaxFork \in Nat /\ SmallChain \in Nat
  /\ MayFail \in BOOLEAN /\ MayStale \in BOOLEAN

Event == [id : Ids, prev : Ids \cup {Genesis}, author : Authors, seq : Seqs, kind : Kinds]
Draft == [id : {NoId}, prev : {NoId}, author : Authors, seq : Seqs, kind : Kinds]
NoEvent == [id |-> NoId]

Jobs == [op : {"idle", "append", "commit", "ingest", "fork"},
         ev : Event \cup Draft \cup {NoEvent}, new : Seq(Event), base : Nat]
Flushes == [at : {"off", "armed", "writing", "written"}, chain : Seq(Event), cold : Nat]

VARIABLES
  up,         \* the process runs; while it does not, memory is what it was when it stopped
  chain,      \* self.events, after the archived events
  cold,       \* how many events of chain are archived
  sequences,  \* self.node_sequences
  revoked,    \* authors in self.revocations
  job,        \* what each writer is in the middle of
  dirty,      \* self._dirty
  flush,      \* the two threads that run _flush
  file,       \* CHAIN_FILE
  wal,        \* WAL_FILE
  made,       \* the events that were on this chain at some time, known to peers
  clean       \* the process did not crash since it booted

vars == <<up, chain, cold, sequences, revoked, job, dirty, flush, file, wal, made, clean>>

Idle == [op |-> "idle", ev |-> NoEvent, new |-> <<>>, base |-> 0]
Off == [at |-> "off", chain |-> <<>>, cold |-> 0]

(* head_hash *)
HeadOf(c) == IF c = <<>> THEN Genesis ELSE Last(c).id
HeadHash == HeadOf(chain)

(* The events of event_index: those not archived. *)
Hot(c, k) == {c[i] : i \in k + 1 .. Len(c)}

(* Mutants: a boot starts the tables empty. *)
NoSequences(c, k) == [a \in Authors |-> 0]
NoneRevoked(c, k) == {}

(* _rebuild_state and _rebuild_revocations see what memory holds. *)
RebuiltSequences(c, k) ==
  [a \in Authors |-> Max({0} \cup {e.seq : e \in {x \in Hot(c, k) : x.author = a}})]
RebuiltRevoked(c, k) == {e.author : e \in {x \in Hot(c, k) : x.kind = "key_revoke"}}

(* Mutant: a number may be used again. *)
AdmissibleAgain(e, seqs, gone) ==
  /\ e.seq >= seqs[e.author]
  /\ e.author \in gone => e.kind = "key_revoke"

Admissible(e, seqs, gone) ==
  /\ e.seq > seqs[e.author]
  /\ e.author \in gone => e.kind = "key_revoke"

InFlight == {wal} \cup {job[t].ev : t \in WriterThreads}
              \cup UNION {Range(job[t].new) : t \in WriterThreads}
Unused == {i \in Ids : \A e \in made \cup InFlight : e.id # i}

(* New ids are used up in order, which only names them. *)
Least(S) == {i \in S : \A j \in S : i <= j}

(* What a peer may offer: an event once on this chain, or a new one after  *)
(* any of them.                                                            *)
Known == {Genesis} \cup {e.id : e \in made}
Offered ==
  made \cup [id : Least(Unused), prev : Known, author : Authors, seq : Seqs, kind : Kinds]

Init ==
  /\ up = TRUE /\ clean = TRUE
  /\ chain = <<>> /\ cold = 0
  /\ sequences = [a \in Authors |-> 0] /\ revoked = {}
  /\ job = [t \in WriterThreads |-> Idle]
  /\ dirty = FALSE /\ flush = [f \in {"timer", "sync"} |-> Off]
  /\ file = [chain |-> <<>>, cold |-> 0] /\ wal = NoEvent
  /\ made = {}

(***************************************************************************)
(* Writing the chain                                                       *)
(***************************************************************************)
Free(t) ==
  /\ up /\ t \in Writers /\ job[t] = Idle
  /\ t = "sync" => flush["sync"].at = "off"
  /\ TakeTurns => \A u \in WriterThreads : job[u] = Idle

(* Mutant: the cap is applied to a chain of any length. *)
ArchivedAlways(c, k) == Len(c) - HotMax

(* _enforce_memory_cap *)
Archived(c, k) == IF Len(c) - k > HotMax THEN Len(c) - HotMax ELSE k

(* _save, k events being archived: the timer is started unless one is      *)
(* alive, a running flush included.                                        *)
Save(k) ==
  /\ cold' = Archived(chain', k)
  /\ dirty' = TRUE
  /\ flush' = IF flush["timer"].at = "off" THEN [flush EXCEPT !["timer"].at = "armed"]
                                           ELSE flush

Accept(e) ==
  /\ chain' = Append(chain, e)
  /\ sequences' = [sequences EXCEPT ![e.author] = e.seq]
  /\ revoked' = IF e.kind = "key_revoke" THEN revoked \cup {e.author} ELSE revoked
  /\ made' = made \cup {e}
  /\ Save(cold)
  /\ UNCHANGED <<up, file, wal, clean>>

(* append, down to the last refusal. *)
AppendCheck(t) ==
  /\ Free(t) /\ t = "loop"
  /\ \E d \in Draft :
       /\ Admissible(d, sequences, revoked)
       /\ job' = [job EXCEPT ![t] = [op |-> "append", ev |-> d, new |-> <<>>, base |-> 0]]
  /\ UNCHANGED <<up, chain, cold, sequences, revoked, dirty, flush, file, wal, made, clean>>

(* append builds the event on the head of now and writes it ahead; an      *)
(* error of the write is logged and ignored.                               *)
AppendDraft(t) ==
  /\ up /\ job[t].op = "append"
  /\ \E i \in Least(Unused) :
       LET e == [job[t].ev EXCEPT !.id = i, !.prev = HeadHash]
       IN /\ job' = [job EXCEPT ![t] = [op |-> "commit", ev |-> e, new |-> <<>>, base |-> 0]]
          /\ wal' \in IF MayFail THEN {wal, e} ELSE {e}
  /\ UNCHANGED <<up, chain, cold, sequences, revoked, dirty, flush, file, made, clean>>

AppendCommit(t) ==
  /\ up /\ job[t].op = "commit"
  /\ Accept(job[t].ev)
  /\ job' = [job EXCEPT ![t] = Idle]

(* Mutant: an event may follow any event this node has seen. *)
ExtendsAny(e) == e.prev \in Known

Extends(e) == e.prev = HeadHash

(* ingest_events, for one event, down to the last refusal. *)
IngestCheck(t) ==
  /\ Free(t)
  /\ \E e \in Offered :
       /\ \A x \in Hot(chain, cold) : x.id # e.id
       /\ Extends(e)
       /\ Admissible(e, sequences, revoked)
       /\ job' = [job EXCEPT ![t] = [op |-> "ingest", ev |-> e, new |-> <<>>, base |-> 0]]
  /\ UNCHANGED <<up, chain, cold, sequences, revoked, dirty, flush, file, wal, made, clean>>

IngestAccept(t) ==
  /\ up /\ job[t].op = "ingest"
  /\ Accept(job[t].ev)
  /\ job' = [job EXCEPT ![t] = Idle]

(* The fork f goes on from the event h without a gap. *)
GoesOn(h, f) ==
  \A i \in DOMAIN f : f[i].prev = IF i = 1 THEN h ELSE f[i - 1].id

(* Mutant: the fork takes the place of position k too. *)
ForkedOver(k, f) == SubSeq(chain, 1, k - 1) \o f

(* The chain with f in place of what follows position k. *)
Forked(k, f) == SubSeq(chain, 1, k) \o f

(* Forks a quorum may offer: events that go on from h.                     *)
OfferedForks(h) ==
  LET after(f) == IF f = <<>> THEN h ELSE Last(f).id
      next(f) == {e \in made : e.prev = after(f)}
                   \cup [id : Least(Unused \ {e.id : e \in Range(f)}), prev : {after(f)},
                         author : Authors, seq : Seqs, kind : Kinds]
      forks[n \in 0 .. MaxFork] ==
        IF n = 0 THEN {<<>>}
        ELSE forks[n - 1] \cup
             UNION {{Append(f, e) : e \in next(f)} : f \in forks[n - 1]}
  IN forks[MaxFork]

(* The check of apply_fork: each event against the events kept and the     *)
(* ones of the fork before it, and against the revocations of now.         *)
ForkAdmissible(k, f) ==
  \A i \in DOMAIN f :
    /\ \A x \in Hot(SubSeq(chain, 1, k), cold) : x.id # f[i].id
    /\ \A x \in Hot(Forked(k, SubSeq(f, 1, i - 1)), cold) :
         x.author = f[i].author => x.seq < f[i].seq
    /\ f[i].author \in revoked => f[i].kind = "key_revoke"

(* How many events a fork at position k takes off the chain. *)
Depth(k) == Len(chain) - k

ForkCheck(t, k) ==
  /\ Free(t) /\ t = "rns"
  /\ k > cold
  /\ Depth(k) <= LockDepth
  /\ \E f \in OfferedForks(chain[k].id) :
       /\ f \in Seq(Event) /\ GoesOn(chain[k].id, f)
       /\ Len(f) > Len(chain) - k
       /\ ForkAdmissible(k, f)
       /\ job' = [job EXCEPT ![t] =
                    [op |-> "fork", ev |-> NoEvent, new |-> Forked(k, f), base |-> cold]]
  /\ UNCHANGED <<up, chain, cold, sequences, revoked, dirty, flush, file, wal, made, clean>>

(* The events kept are those memory held at the check. *)
ForkApply(t) ==
  /\ up /\ job[t].op = "fork"
  /\ chain' = job[t].new
  /\ sequences' = RebuiltSequences(job[t].new, job[t].base)
  /\ revoked' = RebuiltRevoked(job[t].new, job[t].base)
  /\ made' = made \cup Range(job[t].new)
  /\ Save(job[t].base)
  /\ job' = [job EXCEPT ![t] = Idle]
  /\ UNCHANGED <<up, file, wal, clean>>

(* reset_chain, on a peer's answer "forked": the flush follows at once, in *)
(* the same thread.                                                        *)
Reset(t) ==
  /\ Free(t) /\ t = "sync"
  /\ chain # <<>> /\ Len(chain) - cold < SmallChain
  /\ chain' = <<>> /\ cold' = 0
  /\ sequences' = [a \in Authors |-> 0] /\ revoked' = {}
  /\ dirty' = TRUE
  /\ flush' = [flush EXCEPT !["sync"].at = "armed"]
  /\ UNCHANGED <<up, job, file, wal, made, clean>>

(***************************************************************************)
(* _flush, in the timer's thread or in the one that reset the chain        *)
(***************************************************************************)
FlushStart(f) ==
  /\ up /\ flush[f].at = "armed"
  /\ flush' = [flush EXCEPT ![f] =
       IF dirty THEN [at |-> "writing", chain |-> chain, cold |-> cold] ELSE Off]
  /\ UNCHANGED <<up, chain, cold, sequences, revoked, job, dirty, file, wal, made, clean>>

FlushWrite(f) ==
  /\ up /\ flush[f].at = "writing"
  /\ file' = [chain |-> flush[f].chain, cold |-> flush[f].cold]
  /\ flush' = [flush EXCEPT ![f] = [Off EXCEPT !.at = "written"]]
  /\ UNCHANGED <<up, chain, cold, sequences, revoked, job, dirty, wal, made, clean>>

FlushFail(f) ==
  /\ MayFail /\ up /\ flush[f].at = "writing"
  /\ flush' = [flush EXCEPT ![f] = Off]
  /\ UNCHANGED <<up, chain, cold, sequences, revoked, job, dirty, file, wal, made, clean>>

(* _clear_wal and _quarantine_wal; their errors are logged and ignored. *)
WalGone == wal' \in IF MayFail THEN {NoEvent, wal} ELSE {NoEvent}

FlushDone(f) ==
  /\ up /\ flush[f].at = "written"
  /\ dirty' = FALSE /\ WalGone
  /\ flush' = [flush EXCEPT ![f] = Off]
  /\ UNCHANGED <<up, chain, cold, sequences, revoked, job, file, made, clean>>

(***************************************************************************)
(* Stops and boots                                                         *)
(***************************************************************************)
Stopped ==
  /\ up /\ up' = FALSE
  /\ job' = [t \in WriterThreads |-> Idle]
  /\ dirty' = FALSE /\ flush' = [f \in {"timer", "sync"} |-> Off]
  /\ UNCHANGED <<chain, cold, sequences, revoked, made>>

Crash == Stopped /\ clean' = FALSE /\ UNCHANGED <<file, wal>>

(* The loop has ended and atexit runs _flush; the other threads are cut off. *)
Exit ==
  /\ job["loop"] = Idle
  /\ Stopped /\ clean' = TRUE
  /\ \/ dirty /\ file' = [chain |-> chain, cold |-> cold] /\ WalGone
     \/ (~dirty \/ MayFail) /\ UNCHANGED <<file, wal>>

(* _load up to _replay_wal. *)
Loaded ==
  /\ ~up /\ up' = TRUE /\ clean' = TRUE
  /\ chain' = file.chain /\ cold' = file.cold
  /\ sequences' = RebuiltSequences(file.chain, file.cold)
  /\ revoked' = RebuiltRevoked(file.chain, file.cold)
  /\ UNCHANGED <<job, dirty, flush, file, made>>

Indexed(e) == \E x \in Hot(file.chain, file.cold) : x.id = e.id
Replayable(e) == ~Indexed(e) /\ e.prev = HeadOf(file.chain)

BootPlain == Loaded /\ wal = NoEvent /\ UNCHANGED wal

(* The entry is in the file already, or was written for another head. *)
BootDropWal == Loaded /\ wal # NoEvent /\ ~Replayable(wal) /\ WalGone

WalAdmissible ==
  Admissible(wal, RebuiltSequences(file.chain, file.cold), RebuiltRevoked(file.chain, file.cold))

(* ingest_events accepts the entry, and the flush that follows writes the  *)
(* file or fails.                                                          *)
BootReplay(written) ==
  /\ ~up /\ up' = TRUE /\ clean' = TRUE
  /\ wal # NoEvent /\ Replayable(wal) /\ WalAdmissible
  /\ chain' = Append(file.chain, wal)
  /\ cold' = Archived(chain', file.cold)
  /\ sequences' = [RebuiltSequences(file.chain, file.cold) EXCEPT ![wal.author] = wal.seq]
  /\ revoked' = RebuiltRevoked(file.chain, file.cold)
                  \cup (IF wal.kind = "key_revoke" THEN {wal.author} ELSE {})
  /\ made' = made \cup {wal}
  /\ file' = IF written THEN [chain |-> chain', cold |-> cold'] ELSE file
  /\ IF written THEN WalGone ELSE UNCHANGED wal
  /\ dirty' = ~written
  /\ flush' = [flush EXCEPT !["timer"].at = "armed"]
  /\ UNCHANGED job

(* ingest_events refuses the entry: it is put aside and memory starts from *)
(* genesis, whatever the file holds.                                       *)
BootDegraded ==
  /\ ~up /\ up' = TRUE /\ clean' = TRUE
  /\ wal # NoEvent /\ Replayable(wal) /\ (MayStale \/ ~WalAdmissible)
  /\ chain' = <<>> /\ cold' = 0
  /\ sequences' = [a \in Authors |-> 0] /\ revoked' = {}
  /\ WalGone
  /\ UNCHANGED <<job, dirty, flush, file, made>>

Next ==
  \/ \E t \in WriterThreads :
       \/ AppendCheck(t)
       \/ AppendDraft(t)
       \/ AppendCommit(t)
       \/ IngestCheck(t)
       \/ IngestAccept(t)
       \/ \E k \in 1 .. Len(chain) : ForkCheck(t, k)
       \/ ForkApply(t)
       \/ Reset(t)
  \/ \E f \in {"timer", "sync"} :
       FlushStart(f) \/ FlushWrite(f) \/ FlushFail(f) \/ FlushDone(f)
  \/ Crash \/ Exit
  \/ BootPlain \/ BootDropWal \/ BootDegraded
  \/ BootReplay(TRUE) \/ (MayFail /\ BootReplay(FALSE))

Spec == Init /\ [][Next]_vars

(***************************************************************************)
(* Properties                                                              *)
(***************************************************************************)
TypeOK ==
  /\ up \in BOOLEAN /\ clean \in BOOLEAN /\ dirty \in BOOLEAN
  /\ chain \in Seq(Event) /\ cold \in 0 .. Len(chain)
  /\ sequences \in [Authors -> 0 .. MaxSeq] /\ revoked \subseteq Authors
  /\ job \in [WriterThreads -> Jobs] /\ flush \in [{"timer", "sync"} -> Flushes]
  /\ file \in [chain : Seq(Event), cold : Nat] /\ file.cold <= Len(file.chain)
  /\ wal \in Event \cup {NoEvent}
  /\ made \subseteq Event

IsLinked(c) ==
  \A i \in DOMAIN c : c[i].prev = IF i = 1 THEN Genesis ELSE c[i - 1].id

(* The chain is whole: each event names the one before it, in memory and   *)
(* in the file the next boot reads, through forks, resets, archiving and   *)
(* crashes.  validate_chain calls anything else a broken link.             *)
ChainLinked == (up => IsLinked(chain)) /\ IsLinked(file.chain)

Rising(c, k) ==
  \A i, j \in k + 1 .. Len(c) :
    i < j /\ c[i].author = c[j].author => c[i].seq < c[j].seq

(* No author's number is used twice in what memory holds, although the     *)
(* table of numbers is lost at every stop and rebuilt at every boot.       *)
HotSequencesRise == up => Rising(chain, cold)

(* After a key is revoked it signs nothing but revocations, across the     *)
(* boots that rebuild the table of revocations.                            *)
RevokedKeySilent ==
  up => \A i, j \in cold + 1 .. Len(chain) :
          i < j /\ chain[i].author = chain[j].author /\ chain[i].kind = "key_revoke"
            => chain[j].kind = "key_revoke"

(* What lies deeper than the chain lock stays where it is as long as the   *)
(* process runs, unless the node resets its chain.                         *)
LockHolds ==
  [][up /\ up' /\ chain' # <<>>
       => IsPrefix(SubSeq(chain, 1, Len(chain) - LockDepth), chain')]_vars

(* When the last event appended is in the write-ahead file at the stop, a  *)
(* boot finds it, and all that was on the chain before it.                 *)
NoSilentLoss ==
  [][~up /\ up' /\ chain # <<>> /\ wal = Last(chain) => IsPrefix(chain, chain')]_vars

(* After a stop through the exit handler the file holds the whole chain.   *)
CleanExitKeepsAll == ~up /\ clean => file.chain = chain

(* The append-only ledger the infonet promises to be. *)
Promise == INSTANCE AppendOnlyLedger
Promised == Promise!Spec
================================================================================
