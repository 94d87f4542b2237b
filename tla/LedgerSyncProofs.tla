---------------------------- MODULE LedgerSyncProofs ----------------------------
(***************************************************************************)
(* What holds of LedgerSync for any nodes, peers, transports and pages.    *)
(***************************************************************************)
EXTENDS LedgerSync, SequenceTheorems, WellFoundedInduction, TLAPS

(***************************************************************************)
(* Chains and the history behind them.                                     *)
(***************************************************************************)

Event == [after : Nat, kind : Kinds]

HistoryInv ==
  /\ made \in Seq(Event)
  /\ chain \in [Nodes -> Seq(EventIds)]
  /\ \A n \in Nodes : Whole(n)
  /\ OneHistory

(* What was signed stays as it was signed.                                 *)
Kept ==
  /\ made' \in Seq(Event)
  /\ Len(made) <= Len(made')
  /\ \A e \in EventIds : made'[e] = made[e]

(* Event e is added to the chain of n: it extends the head, and is new.    *)
Extends(n, e) ==
  /\ e \in EventIds' /\ e \notin Holds(n)
  /\ made'[e].after = Head0(chain[n])
  /\ chain' = [chain EXCEPT ![n] = Append(@, e)]

(* No event has the place of genesis.                                      *)
LEMMA EventsArePlaces ==
  ASSUME made \in Seq(Event)
  PROVE  /\ EventIds \subseteq Nat \ {0} /\ Genesis \notin EventIds
         /\ \A e \in EventIds : made[e] \in Event
  BY DEF EventIds, Genesis

(* A chain that is not empty has its last event as its head.               *)
LEMMA HeadOfChain ==
  ASSUME made \in Seq(Event), chain \in [Nodes -> Seq(EventIds)], NEW n \in Nodes
  PROVE  /\ Len(chain[n]) = 0 => Head0(chain[n]) = Genesis
         /\ Len(chain[n]) # 0 => /\ Head0(chain[n]) = chain[n][Len(chain[n])]
                                 /\ Head0(chain[n]) \in EventIds
                                 /\ Head0(chain[n]) \in Holds(n)
<1>1. chain[n] \in Seq(EventIds)
  OBVIOUS
<1>2. CASE chain[n] = <<>>
  BY <1>1, <1>2 DEF Head0
<1>3. CASE chain[n] # <<>>
  <2>1. Len(chain[n]) \in 1..Len(chain[n]) /\ DOMAIN chain[n] = 1..Len(chain[n])
    BY <1>1, <1>3
  <2> QED  BY <1>1, <1>3, <2>1 DEF Head0, Holds
<1> QED  BY <1>2, <1>3

(* The chains after event e was added to the chain of n.                   *)
LEMMA ExtendedChains ==
  ASSUME HistoryInv, Kept, NEW n \in Nodes, NEW e, Extends(n, e)
  PROVE  /\ chain' \in [Nodes -> Seq(EventIds')]
         /\ \A m \in Nodes \ {n} : chain'[m] = chain[m]
         /\ Len(chain'[n]) = Len(chain[n]) + 1
         /\ chain'[n][Len(chain[n]) + 1] = e
         /\ \A i \in 1..Len(chain[n]) : chain'[n][i] = chain[n][i]
<1>1. EventIds \subseteq EventIds'
  BY DEF HistoryInv, Kept, EventIds
<1>2. \A m \in Nodes : chain[m] \in Seq(EventIds) /\ chain[m] \in Seq(EventIds')
  <2>1. ASSUME NEW m \in Nodes PROVE chain[m] \in Seq(EventIds)
    BY DEF HistoryInv
  <2>2. ASSUME NEW m \in Nodes PROVE chain[m] \in Seq(EventIds')
    <3> DEFINE S == EventIds  T == EventIds'
    <3>1. chain[m] \in Seq(S) /\ S \subseteq T
      BY <1>1, <2>1
    <3> HIDE DEF S, T
    <3>2. chain[m] \in Seq(T)
      BY <3>1
    <3> QED  BY <3>2 DEF T
  <2> QED  BY <2>1, <2>2
<1>3. chain'[n] = Append(chain[n], e) /\ \A m \in Nodes \ {n} : chain'[m] = chain[m]
  BY DEF HistoryInv, Extends
<1>4. Append(chain[n], e) \in Seq(EventIds')
  <2> DEFINE T == EventIds'
  <2>1. chain[n] \in Seq(T) /\ e \in T
    BY <1>2 DEF Extends
  <2> HIDE DEF T
  <2>2. Append(chain[n], e) \in Seq(T)
    BY <2>1
  <2> QED  BY <2>2 DEF T
<1>5. chain' \in [Nodes -> Seq(EventIds')]
  <2> DEFINE T == Seq(EventIds')
  <2>1. chain \in [Nodes -> T]
    BY <1>2 DEF HistoryInv
  <2>2. Append(chain[n], e) \in T
    BY <1>4
  <2> HIDE DEF T
  <2>3. chain' \in [Nodes -> T]
    BY <2>1, <2>2 DEF Extends
  <2> QED  BY <2>3 DEF T
<1>6. /\ Len(Append(chain[n], e)) = Len(chain[n]) + 1
      /\ Append(chain[n], e)[Len(chain[n]) + 1] = e
      /\ \A i \in 1..Len(chain[n]) : Append(chain[n], e)[i] = chain[n][i]
  <2> DEFINE c == chain[n]
  <2>1. c \in Seq(EventIds')
    BY <1>2
  <2> HIDE DEF c
  <2>2. /\ Len(Append(c, e)) = Len(c) + 1 /\ Append(c, e)[Len(c) + 1] = e
        /\ \A i \in 1..Len(c) : Append(c, e)[i] = c[i]
    BY <2>1
  <2> QED  BY <2>2 DEF c
<1> QED  BY <1>3, <1>5, <1>6

(* Where another node has e already, its chain up to e is the one extended.*)
LEMMA SameStem ==
  ASSUME HistoryInv, Kept, NEW n \in Nodes, NEW e, Extends(n, e),
         NEW m \in Nodes, NEW j \in DOMAIN chain[m], chain[m][j] = e
  PROVE  /\ j = Len(chain[n]) + 1
         /\ \A k \in 1..Len(chain[n]) : chain[n][k] = chain[m][k]
<1>1. /\ made \in Seq(Event) /\ chain \in [Nodes -> Seq(EventIds)]
      /\ chain[m] \in Seq(EventIds) /\ chain[n] \in Seq(EventIds)
      /\ DOMAIN chain[m] = 1..Len(chain[m]) /\ DOMAIN chain[n] = 1..Len(chain[n])
      /\ Len(chain[n]) \in Nat /\ Len(chain[m]) \in Nat
  BY DEF HistoryInv
<1>2. e \in EventIds /\ j \in Nat \ {0}
  BY <1>1
<1>3. Head0(chain[n]) = (IF j = 1 THEN Genesis ELSE chain[m][j - 1])
  <2>1. made[e].after = (IF j = 1 THEN Genesis ELSE chain[m][j - 1])
    BY DEF HistoryInv, Whole
  <2> QED  BY <1>2, <2>1 DEF Kept, Extends
<1>4. j # 1 => j - 1 \in DOMAIN chain[m] /\ chain[m][j - 1] \in EventIds
  BY <1>1, <1>2
<1>5. CASE Len(chain[n]) = 0
  BY <1>1, <1>2, <1>3, <1>4, <1>5, HeadOfChain, EventsArePlaces
<1>6. CASE Len(chain[n]) # 0
  <2>1. /\ j # 1 /\ chain[n][Len(chain[n])] = chain[m][j - 1]
        /\ Len(chain[n]) \in DOMAIN chain[n]
    BY <1>1, <1>2, <1>3, <1>4, <1>6, HeadOfChain, EventsArePlaces
  <2>2. /\ Len(chain[n]) = j - 1
        /\ \A k \in 1..Len(chain[n]) : chain[n][k] = chain[m][k]
    BY <1>4, <2>1 DEF HistoryInv, OneHistory
  <2> QED  BY <1>1, <1>2, <2>2
<1> QED  BY <1>5, <1>6

(* A chain that is extended stays whole, and in the one history.           *)
LEMMA ExtendKeeps ==
  ASSUME HistoryInv, Kept, NEW n \in Nodes, NEW e, Extends(n, e)
  PROVE  HistoryInv'
<1> DEFINE L == Len(chain[n])
<1>1. /\ chain' \in [Nodes -> Seq(EventIds')]
      /\ \A m \in Nodes \ {n} : chain'[m] = chain[m]
      /\ Len(chain'[n]) = L + 1 /\ chain'[n][L + 1] = e
      /\ \A i \in 1..L : chain'[n][i] = chain[n][i]
  BY ExtendedChains
<1>2. /\ \A m \in Nodes : /\ chain[m] \in Seq(EventIds) /\ DOMAIN chain[m] = 1..Len(chain[m])
                          /\ chain'[m] \in Seq(EventIds')
                          /\ DOMAIN chain'[m] = 1..Len(chain'[m])
      /\ L \in Nat
  BY <1>1 DEF HistoryInv
<1>3. \A m \in Nodes : Whole(m)'
  <2> SUFFICES ASSUME NEW m \in Nodes, NEW i \in DOMAIN chain'[m]
               PROVE  made'[chain'[m][i]].after =
                        (IF i = 1 THEN Genesis ELSE chain'[m][i - 1])
    BY DEF Whole
  <2>1. CASE m # n
    <3>1. i \in DOMAIN chain[m] /\ chain'[m] = chain[m] /\ chain[m][i] \in EventIds
      BY <1>1, <1>2, <2>1
    <3>2. made[chain[m][i]].after = (IF i = 1 THEN Genesis ELSE chain[m][i - 1])
      BY <3>1 DEF HistoryInv, Whole
    <3> QED  BY <3>1, <3>2 DEF Kept
  <2>2. CASE m = n /\ i \in 1..L
    <3>1. /\ i \in DOMAIN chain[n] /\ chain'[n][i] = chain[n][i] /\ chain[n][i] \in EventIds
          /\ i # 1 => i - 1 \in 1..L
      BY <1>1, <1>2, <2>2
    <3>2. made[chain[n][i]].after = (IF i = 1 THEN Genesis ELSE chain[n][i - 1])
      BY <3>1 DEF HistoryInv, Whole
    <3>3. i # 1 => chain'[n][i - 1] = chain[n][i - 1]
      BY <1>1, <3>1
    <3> QED  BY <2>2, <3>1, <3>2, <3>3 DEF Kept
  <2>3. CASE m = n /\ i = L + 1
    <3>1. chain'[m][i] = e /\ made'[e].after = Head0(chain[n])
      BY <1>1, <2>3 DEF Extends
    <3>2. CASE L = 0
      BY <2>3, <3>1, <3>2, HeadOfChain DEF HistoryInv
    <3>3. CASE L # 0
      <4>1. Head0(chain[n]) = chain[n][L] /\ L \in 1..L /\ i # 1 /\ i - 1 = L
        BY <1>2, <2>3, <3>3, HeadOfChain DEF HistoryInv
      <4>2. chain'[n][L] = chain[n][L]
        BY <1>1, <4>1
      <4> QED  BY <2>3, <3>1, <4>1, <4>2
    <3> QED  BY <3>2, <3>3
  <2>4. m = n => i \in 1..L \/ i = L + 1
    BY <1>1, <1>2
  <2> QED  BY <2>1, <2>2, <2>3, <2>4
<1>4. OneHistory'
  <2> SUFFICES ASSUME NEW p \in Nodes, NEW q \in Nodes, NEW i \in DOMAIN chain'[p],
                      NEW j \in DOMAIN chain'[q], chain'[p][i] = chain'[q][j]
               PROVE  i = j /\ \A k \in 1..i : chain'[p][k] = chain'[q][k]
    BY DEF OneHistory
  <2> DEFINE Old(m, x) == x \in DOMAIN chain[m]
  <2>1. \A m \in Nodes : \A x \in DOMAIN chain'[m] :
           /\ Old(m, x) \/ (m = n /\ x = L + 1)
           /\ Old(m, x) => \A k \in 1..x : chain'[m][k] = chain[m][k]
    <3> SUFFICES ASSUME NEW m \in Nodes, NEW x \in DOMAIN chain'[m]
                 PROVE  /\ Old(m, x) \/ (m = n /\ x = L + 1)
                        /\ Old(m, x) => \A k \in 1..x : chain'[m][k] = chain[m][k]
      OBVIOUS
    <3>1. CASE m # n
      BY <1>1, <3>1
    <3>2. CASE m = n
      <4>1. x \in 1..(L + 1) /\ DOMAIN chain[n] = 1..L
        BY <1>1, <1>2, <3>2
      <4>2. Old(n, x) => \A k \in 1..x : k \in 1..L
        BY <1>2, <4>1
      <4> QED  BY <1>1, <1>2, <3>2, <4>1, <4>2
    <3> QED  BY <3>1, <3>2
  <2>2. \A m \in Nodes : \A x \in DOMAIN chain[m] : x \in Nat \ {0} /\ x \in 1..x
    BY <1>2
  <2>3. CASE Old(p, i) /\ Old(q, j)
    <3>1. chain[p][i] = chain[q][j]
      BY <2>1, <2>2, <2>3
    <3>2. i = j /\ \A k \in 1..i : chain[p][k] = chain[q][k]
      BY <2>3, <3>1 DEF HistoryInv, OneHistory
    <3> QED  BY <2>1, <2>3, <3>2
  <2>5. ASSUME NEW m \in Nodes, NEW x \in DOMAIN chain[m], chain[m][x] = e
        PROVE  /\ x = L + 1
               /\ \A k \in 1..(L + 1) : chain'[n][k] = chain'[m][k]
    <3>1. x = L + 1 /\ \A k \in 1..L : chain[n][k] = chain[m][k]
      BY <2>5, SameStem
    <3>2. m # n
      BY <2>5 DEF Extends, Holds
    <3>3. chain'[m] = chain[m] /\ chain'[n][L + 1] = chain'[m][L + 1]
      BY <1>1, <2>5, <3>1, <3>2
    <3>4. \A k \in 1..L : chain'[n][k] = chain'[m][k]
      BY <1>1, <3>1, <3>3
    <3> QED  BY <1>2, <3>1, <3>3, <3>4
  <2>6. CASE Old(p, i) /\ ~Old(q, j)
    <3>1. q = n /\ j = L + 1 /\ chain[p][i] = e
      BY <1>1, <2>1, <2>2, <2>6
    <3> QED  BY <2>5, <2>6, <3>1
  <2>7. CASE ~Old(p, i) /\ Old(q, j)
    <3>1. p = n /\ i = L + 1 /\ chain[q][j] = e
      BY <1>1, <2>1, <2>2, <2>7
    <3> QED  BY <2>5, <2>7, <3>1
  <2>8. CASE ~Old(p, i) /\ ~Old(q, j)
    BY <2>1, <2>8
  <2> QED  BY <2>3, <2>6, <2>7, <2>8
<1> QED  BY <1>1, <1>3, <1>4 DEF HistoryInv, Kept

(***************************************************************************)
(* The sync cycle.                                                         *)
(***************************************************************************)

Phases == {"idle", "ask", "asked", "answered", "ingest"}

(* A record with the fields of a sync cycle.                               *)
IsPull(p) ==
  p \in [phase : {p.phase}, peer : {p.peer}, todo : {p.todo}, rounds : {p.rounds},
         locator : {p.locator}, events : {p.events}, forked : {p.forked},
         offered : {p.offered}, at : {p.at}, expected : {p.expected},
         accepted : {p.accepted}, known : {p.known}, refused : {p.refused}]

(* The cycle asks one of the peers it has left to ask.                     *)
Asks(n, p) ==
  /\ p.phase \in Phases /\ p.todo \subseteq Peers[n]
  /\ p.phase # "idle" => p.peer \in p.todo

(* What the peer held came with all the history before it.                 *)
OfferIsClosed(p) ==
  /\ p.offered \subseteq EventIds
  /\ \A e \in p.offered : made[e].after \in p.offered \cup {Genesis}

(* The locator on its way starts where the chain starts.                   *)
LocatorIsOurs(n, p) ==
  p.phase = "asked" /\ p.locator # <<>> =>
    /\ 1 \in DOMAIN p.locator /\ chain[n] # <<>>
    /\ p.locator[1] = chain[n][1]

(* A forked answer is about a chain that shares nothing with the peer's.   *)
ForkIsForeign(n, p) ==
  p.phase = "answered" /\ p.forked => chain[n] # <<>> /\ Holds(n) \cap p.offered = {}

PullOK(n, p) ==
  IsPull(p) /\ Asks(n, p) /\ OfferIsClosed(p) /\ LocatorIsOurs(n, p) /\ ForkIsForeign(n, p)

PullsOK == pull = [n \in Nodes |-> pull[n]] /\ \A n \in Nodes : PullOK(n, pull[n])

RestTyped ==
  /\ favourite \in [Nodes -> Nodes \cup {NoNode}]
  /\ cooling \in [Nodes -> SUBSET Nodes]
  /\ stale \in 0..Len(made)

SyncInv == HistoryInv /\ PullsOK /\ RestTyped

(* No cycle.                                                               *)
LEMMA IdleOK == \A n \in Nodes : PullOK(n, Idle) /\ Idle.phase = "idle"
  BY DEF PullOK, IsPull, Asks, OfferIsClosed, LocatorIsOurs, ForkIsForeign, Idle, Phases

(* The cycle asks m, in round r.                                           *)
Asking(todo, m, r) ==
  [phase : {"ask"}, peer : {m}, todo : {todo}, rounds : {r}, locator : {<<>>},
   events : {<<>>}, forked : {FALSE}, offered : {{}}, at : {0}, expected : {Genesis},
   accepted : {0}, known : {0}, refused : {0}]

(* A cycle that is about to ask is in order.                               *)
LEMMA AskingOK ==
  ASSUME NEW n \in Nodes, NEW todo \in SUBSET Peers[n], NEW m \in todo, NEW r,
         NEW p \in Asking(todo, m, r)
  PROVE  PullOK(n, p) /\ p.phase = "ask"
  BY DEF Asking, PullOK, IsPull, Asks, OfferIsClosed, LocatorIsOurs, ForkIsForeign, Phases

(* Turning to a peer clears what an earlier one left.                      *)
LEMMA TurnAsks == \A todo, m : Turn(todo, m) \in Asking(todo, m, 0)
<1> TAKE todo, m
<1>1. Idle \in [phase : {"idle"}, peer : {NoNode}, todo : {{}}, rounds : {0},
                locator : {<<>>}, events : {<<>>}, forked : {FALSE}, offered : {{}},
                at : {0}, expected : {Genesis}, accepted : {0}, known : {0}, refused : {0}]
  BY DEF Idle
<1> QED  BY <1>1 DEF Turn, Asking

(* The cycle turns to a peer, for the first time ...                       *)
LEMMA TurnOK ==
  ASSUME NEW n \in Nodes, NEW todo \in SUBSET Peers[n], NEW m \in todo
  PROVE  PullOK(n, Turn(todo, m)) /\ Turn(todo, m).phase = "ask"
  BY TurnAsks, AskingOK

(* ... or again.                                                           *)
LEMMA AgainOK ==
  ASSUME NEW n \in Nodes, PullOK(n, pull[n]), pull[n].phase # "idle", NEW r
  PROVE  PullOK(n, Again(pull[n], r))
<1> DEFINE p == pull[n]
           t == Turn(p.todo, p.peer)
<1>1. p.todo \in SUBSET Peers[n] /\ p.peer \in p.todo
  BY DEF PullOK, Asks
<1>2. t \in Asking(p.todo, p.peer, 0) /\ Again(p, r) = [t EXCEPT !.rounds = r]
  BY TurnAsks DEF Again
<1> HIDE DEF p, t
<1>3. Again(p, r) \in Asking(p.todo, p.peer, r)
  BY <1>2 DEF Asking
<1> QED  BY <1>1, <1>3, AskingOK DEF p

(* The cycle of n becomes q, and nothing else of the pulls and chains.     *)
LEMMA CycleKeeps ==
  ASSUME SyncInv, NEW n \in Nodes, NEW q, PullOK(n, q),
         pull' = [pull EXCEPT ![n] = q], chain' = chain, made' = made
  PROVE  HistoryInv' /\ PullsOK'
<1>1. HistoryInv'
  BY DEF SyncInv, HistoryInv, EventIds, Whole, OneHistory
<1>2. pull'[n] = q /\ \A m \in Nodes \ {n} : pull'[m] = pull[m]
  BY DEF SyncInv, PullsOK
<1>3. pull' = [m \in Nodes |-> pull'[m]]
  BY DEF SyncInv, PullsOK
<1>4. ASSUME NEW m \in Nodes PROVE PullOK(m, pull[m])'
  <2> DEFINE p == pull'[m]
  <2>1. PullOK(m, p)
    BY <1>2 DEF SyncInv, PullsOK
  <2> HIDE DEF p
  <2>2. IsPull(p) /\ Asks(m, p)
    BY <2>1 DEF PullOK
  <2>3. OfferIsClosed(p) /\ LocatorIsOurs(m, p) /\ ForkIsForeign(m, p)
    BY <2>1 DEF PullOK
  <2>4. IsPull(pull[m])' /\ Asks(m, pull[m])'
    BY <2>2 DEF IsPull, Asks, p
  <2>5. OfferIsClosed(pull[m])'
    BY <2>3 DEF OfferIsClosed, EventIds, p
  <2>6. LocatorIsOurs(m, pull[m])'
    BY <2>3 DEF LocatorIsOurs, p
  <2>7. ForkIsForeign(m, pull[m])'
    BY <2>3 DEF ForkIsForeign, Holds, p
  <2> QED  BY <2>4, <2>5, <2>6, <2>7 DEF PullOK
<1> QED  BY <1>1, <1>3, <1>4 DEF PullsOK

(* The pull p of node m survives that the chain of n is extended.          *)
LEMMA ExtendKeepsPull ==
  ASSUME SyncInv, Kept, NEW n \in Nodes, NEW e, Extends(n, e), NEW m \in Nodes,
         PullOK(m, pull'[m])
  PROVE  PullOK(m, pull[m])'
<1> DEFINE p == pull'[m]
<1>1. IsPull(p) /\ Asks(m, p) /\ OfferIsClosed(p) /\ LocatorIsOurs(m, p) /\ ForkIsForeign(m, p)
  BY DEF PullOK
<1>2. /\ \A k \in Nodes \ {n} : chain'[k] = chain[k]
      /\ Len(chain'[n]) = Len(chain[n]) + 1
      /\ chain'[n][Len(chain[n]) + 1] = e
      /\ \A i \in 1..Len(chain[n]) : chain'[n][i] = chain[n][i]
      /\ chain'[n] \in Seq(EventIds')
  BY ExtendedChains DEF SyncInv
<1>3. /\ chain[n] \in Seq(EventIds) /\ DOMAIN chain[n] = 1..Len(chain[n])
      /\ Len(chain[n]) \in Nat /\ DOMAIN chain'[n] = 1..(Len(chain[n]) + 1)
  BY <1>2 DEF SyncInv, HistoryInv
<1> HIDE DEF p
<1>4. IsPull(pull[m])' /\ Asks(m, pull[m])'
  BY <1>1 DEF IsPull, Asks, p
<1>5. OfferIsClosed(pull[m])'
  <2>1. EventIds \subseteq EventIds' /\ \A x \in EventIds : made'[x] = made[x]
    BY DEF SyncInv, HistoryInv, Kept, EventIds
  <2>2. /\ p.offered \subseteq EventIds'
        /\ \A x \in p.offered : made'[x].after \in p.offered \cup {Genesis}
    BY <1>1, <2>1 DEF OfferIsClosed
  <2> QED  BY <2>2 DEF OfferIsClosed, p
<1>6. LocatorIsOurs(m, pull[m])'
  <2>1. ASSUME p.phase = "asked", p.locator # <<>>
        PROVE  1 \in DOMAIN p.locator /\ chain'[m] # <<>> /\ p.locator[1] = chain'[m][1]
    <3>1. 1 \in DOMAIN p.locator /\ chain[m] # <<>> /\ p.locator[1] = chain[m][1]
      BY <1>1, <2>1 DEF LocatorIsOurs
    <3>2. CASE m # n
      BY <1>2, <3>1, <3>2
    <3>3. CASE m = n
      <4>1. 1 \in 1..Len(chain[n])
        BY <1>3, <3>1, <3>3
      <4> QED  BY <1>2, <1>3, <3>1, <3>3, <4>1
    <3> QED  BY <3>2, <3>3
  <2> QED  BY <2>1 DEF LocatorIsOurs, p
<1>7. ForkIsForeign(m, pull[m])'
  <2>1. ASSUME p.phase = "answered", p.forked
        PROVE  chain'[m] # <<>> /\ Holds(m)' \cap p.offered = {}
    <3>1. chain[m] # <<>> /\ Holds(m) \cap p.offered = {}
      BY <1>1, <2>1 DEF ForkIsForeign
    <3>2. CASE m # n
      BY <1>2, <3>1, <3>2 DEF Holds
    <3>3. CASE m = n
      <4>1. Len(chain[n]) # 0 /\ Holds(n)' = Holds(n) \cup {e}
        BY <1>2, <1>3, <3>1, <3>3 DEF Holds
      <4>2. e \notin p.offered
        <5> SUFFICES ASSUME e \in p.offered PROVE FALSE
          OBVIOUS
        <5>1. /\ e \in EventIds /\ made[e].after \in p.offered \cup {Genesis}
              /\ made[e].after = Head0(chain[n])
          BY <1>1 DEF OfferIsClosed, Extends, Kept
        <5>2. Head0(chain[n]) \in Holds(n) /\ Head0(chain[n]) # Genesis
          BY <4>1, HeadOfChain, EventsArePlaces DEF SyncInv, HistoryInv
        <5> QED  BY <3>1, <3>3, <5>1, <5>2
      <4>3. chain'[n] # <<>>
        BY <1>2, <1>3
      <4> QED  BY <3>1, <3>3, <4>1, <4>2, <4>3
    <3> QED  BY <3>2, <3>3
  <2> QED  BY <2>1 DEF ForkIsForeign, p
<1> QED  BY <1>4, <1>5, <1>6, <1>7 DEF PullOK

(* Neither chains nor cycles change.                                       *)
LEMMA StillKeeps ==
  ASSUME SyncInv, pull' = pull, chain' = chain, made' = made
  PROVE  HistoryInv' /\ PullsOK'
<1>1. HistoryInv'
  BY DEF SyncInv, HistoryInv, EventIds, Whole, OneHistory
<1>2. PullsOK'
  BY DEF SyncInv, PullsOK, PullOK, IsPull, Asks, OfferIsClosed, EventIds, LocatorIsOurs,
     ForkIsForeign, Holds
<1> QED  BY <1>1, <1>2

(* A user of n signs an event (append).                                    *)
LEMMA AppendKeeps ==
  ASSUME SyncInv, NEW n \in Nodes, NEW k \in Kinds, Append1(n, k)
  PROVE  SyncInv'
<1> DEFINE e == Len(made) + 1
           r == [after |-> Head0(chain[n]), kind |-> k]
<1>1. /\ made' = Append(made, r) /\ chain' = [chain EXCEPT ![n] = Append(@, e)]
      /\ pull' = pull /\ favourite' = favourite /\ cooling' = cooling /\ stale' = stale
  BY DEF Append1
<1>2. /\ made \in Seq(Event) /\ chain[n] \in Seq(EventIds)
      /\ chain \in [Nodes -> Seq(EventIds)]
  BY DEF SyncInv, HistoryInv
<1>3. r \in Event /\ r.after = Head0(chain[n])
  <2>1. Head0(chain[n]) \in Nat
    BY <1>2, HeadOfChain, EventsArePlaces DEF Genesis
  <2> QED  BY <2>1 DEF Event
<1> HIDE DEF r
<1>4. Kept /\ Len(made') = Len(made) + 1 /\ made'[e] = r
  BY <1>1, <1>2, <1>3 DEF Kept, EventIds
<1>5. e \in EventIds' /\ e \notin Holds(n)
  BY <1>2, <1>4 DEF EventIds, Holds
<1>6. Extends(n, e)
  BY <1>1, <1>3, <1>4, <1>5 DEF Extends
<1> HIDE DEF e
<1>7. HistoryInv'
  BY <1>4, <1>6, ExtendKeeps DEF SyncInv
<1>8. PullsOK'
  <2>1. ASSUME NEW m \in Nodes PROVE PullOK(m, pull[m])'
    <3>1. PullOK(m, pull'[m])
      BY <1>1 DEF SyncInv, PullsOK
    <3> QED  BY <1>4, <1>6, <3>1, ExtendKeepsPull
  <2> QED  BY <1>1, <2>1 DEF SyncInv, PullsOK
<1>9. RestTyped'
  BY <1>1, <1>2, <1>4 DEF SyncInv, RestTyped
<1> QED  BY <1>7, <1>8, <1>9 DEF SyncInv

(* Events grow old, cooldowns elapse.                                      *)
LEMMA TimeKeeps ==
  ASSUME SyncInv, Age \/ \E n \in Nodes, m \in Nodes : CoolDown(n, m)
  PROVE  SyncInv'
<1>1. pull' = pull /\ chain' = chain /\ made' = made /\ favourite' = favourite
  BY DEF Age, CoolDown
<1>2. HistoryInv' /\ PullsOK'
  BY <1>1, StillKeeps
<1>3. Len(made) \in Nat
  BY DEF SyncInv, HistoryInv
<1>4. RestTyped'
  <2>1. CASE Age
    BY <1>1, <1>3, <2>1 DEF Age, SyncInv, RestTyped
  <2>2. CASE \E n \in Nodes, m \in Nodes : CoolDown(n, m)
    BY <1>1, <2>2 DEF CoolDown, SyncInv, RestTyped
  <2> QED  BY <2>1, <2>2
<1> QED  BY <1>2, <1>4 DEF SyncInv

(* An event is pushed to n (infonet_peer_push).                            *)
LEMMA PushKeeps ==
  ASSUME SyncInv, NEW n \in Nodes, NEW e, Pushed(n, e)
  PROVE  SyncInv'
<1>1. /\ made' = made /\ pull' = pull /\ favourite' = favourite /\ cooling' = cooling
      /\ stale' = stale
  BY DEF Pushed
<1>2. Kept
  BY <1>1 DEF Kept, SyncInv, HistoryInv
<1>3. Extends(n, e)
  BY <1>1 DEF Pushed, Ingestible, Extends, EventIds
<1>4. HistoryInv'
  BY <1>2, <1>3, ExtendKeeps DEF SyncInv
<1>5. PullsOK'
  <2>1. ASSUME NEW m \in Nodes PROVE PullOK(m, pull[m])'
    <3>1. PullOK(m, pull'[m])
      BY <1>1 DEF SyncInv, PullsOK
    <3> QED  BY <1>2, <1>3, <3>1, ExtendKeepsPull
  <2> QED  BY <1>1, <2>1 DEF SyncInv, PullsOK
<1>6. RestTyped'
  BY <1>1 DEF SyncInv, RestTyped
<1> QED  BY <1>4, <1>5, <1>6 DEF SyncInv

(***************************************************************************)
(* The steps of a cycle.                                                   *)
(***************************************************************************)

(* The favourites and cooldowns change at most for n, about peers of n.    *)
RestOf(n) ==
  /\ stale' = stale
  /\ favourite' = favourite \/ favourite' = [favourite EXCEPT ![n] = pull[n].peer]
  /\ cooling' = cooling \/ cooling' = [cooling EXCEPT ![n] = @ \cup {pull[n].peer}]

(* Favourites and cooldowns keep their types.                              *)
LEMMA RestKeeps ==
  ASSUME SyncInv, NEW n \in Nodes, RestOf(n), made' = made,
         pull[n].phase # "idle" \/ (favourite' = favourite /\ cooling' = cooling)
  PROVE  RestTyped'
<1>1. pull[n].phase # "idle" => pull[n].peer \in Nodes
  <2>1. Asks(n, pull[n]) /\ Peers[n] \subseteq Nodes
    BY SyncAssumption DEF SyncInv, PullsOK, PullOK
  <2> QED  BY <2>1 DEF Asks
<1>2. favourite' \in [Nodes -> Nodes \cup {NoNode}]
  BY <1>1 DEF RestOf, SyncInv, RestTyped
<1>3. cooling' \in [Nodes -> SUBSET Nodes]
  BY <1>1 DEF RestOf, SyncInv, RestTyped
<1> QED  BY <1>2, <1>3 DEF RestOf, SyncInv, RestTyped

(* A step that only moves the cycle of n on.                               *)
LEMMA MoveKeeps ==
  ASSUME SyncInv, NEW n \in Nodes, NEW q, PullOK(n, q), pull' = [pull EXCEPT ![n] = q],
         chain' = chain, made' = made, RestOf(n),
         pull[n].phase # "idle" \/ (favourite' = favourite /\ cooling' = cooling)
  PROVE  SyncInv'
  BY CycleKeeps, RestKeeps DEF SyncInv

(* A cycle begins (_run_public_sync_cycle).                                *)
LEMMA BeginKeeps == ASSUME SyncInv, NEW n \in Nodes, Begin(n) PROVE SyncInv'
<1> DEFINE todo == Peers[n] \ cooling[n]
<1>1. PICK m \in Preferred(n, todo) : pull' = [pull EXCEPT ![n] = Turn(todo, m)]
  BY DEF Begin
<1>2. todo \in SUBSET Peers[n] /\ m \in todo
  BY DEF Preferred
<1>3. PullOK(n, Turn(todo, m))
  BY <1>2, TurnOK
<1> QED  BY <1>1, <1>3, MoveKeeps DEF Begin, RestOf

(* The locator is the chain as it is (get_locator).                        *)
LEMMA AskKeeps == ASSUME SyncInv, NEW n \in Nodes, Ask(n) PROVE SyncInv'
<1> DEFINE p == pull[n]
           q == [p EXCEPT !.phase = "asked", !.locator = chain[n]]
<1>1. PullOK(n, p) /\ p.phase = "ask"
  BY DEF Ask, SyncInv, PullsOK
<1>2. pull' = [pull EXCEPT ![n] = q] /\ chain' = chain /\ made' = made /\ RestOf(n)
  BY DEF Ask, RestOf
<1>3. chain[n] # <<>> => 1 \in DOMAIN chain[n]
  <2>1. chain[n] \in Seq(EventIds)
    BY DEF SyncInv, HistoryInv
  <2> QED  BY <2>1
<1> HIDE DEF p
<1>4. /\ IsPull(q) /\ q.phase = "asked" /\ q.locator = chain[n] /\ q.todo = p.todo
      /\ q.peer = p.peer /\ q.offered = p.offered
  BY <1>1 DEF PullOK, IsPull
<1> HIDE DEF q
<1>5. PullOK(n, q)
  BY <1>1, <1>3, <1>4
     DEF PullOK, Asks, OfferIsClosed, LocatorIsOurs, ForkIsForeign, Phases
<1> QED  BY <1>1, <1>2, <1>5, MoveKeeps DEF p

(* The peer answers (infonet_sync_post): what it holds is closed, and if   *)
(* nothing of the locator is shared, nothing of the chain is.              *)
LEMMA AnswerKeeps == ASSUME SyncInv, NEW n \in Nodes, Answer(n) PROVE SyncInv'
<1> DEFINE p == pull[n]
           m == p.peer
           f == IsForked(m, p.locator)
           v == Page(n, m, p.locator)
           q == [p EXCEPT !.phase = "answered", !.locator = <<>>, !.forked = f,
                          !.events = v, !.offered = Holds(m)]
<1>1. PullOK(n, p) /\ p.phase = "asked"
  BY DEF Answer, SyncInv, PullsOK
<1>2. pull' = [pull EXCEPT ![n] = q] /\ chain' = chain /\ made' = made /\ RestOf(n)
  BY DEF Answer, RestOf
<1>3. m \in Nodes
  BY <1>1, SyncAssumption DEF PullOK, Asks
<1>4. /\ Holds(m) \subseteq EventIds
      /\ \A e \in Holds(m) : made[e].after \in Holds(m) \cup {Genesis}
  <2>1. chain[m] \in Seq(EventIds) /\ Whole(m)
    BY <1>3 DEF SyncInv, HistoryInv
  <2>2. \A i \in DOMAIN chain[m] : i # 1 => i - 1 \in DOMAIN chain[m]
    BY <2>1
  <2> QED  BY <2>1, <2>2 DEF Holds, Whole
<1>5. f => chain[n] # <<>> /\ Holds(n) \cap Holds(m) = {}
  <2> SUFFICES ASSUME f PROVE chain[n] # <<>> /\ Holds(n) \cap Holds(m) = {}
    OBVIOUS
  <2>1. /\ 1 \in DOMAIN p.locator /\ chain[n] # <<>> /\ p.locator[1] = chain[n][1]
        /\ p.locator[1] \notin Holds(m)
    BY <1>1 DEF PullOK, LocatorIsOurs, IsForked, Shared
  <2>2. ASSUME NEW e \in Holds(n), e \in Holds(m) PROVE FALSE
    <3>1. PICK i \in DOMAIN chain[n] : chain[n][i] = e
      BY DEF Holds
    <3>2. PICK j \in DOMAIN chain[m] : chain[m][j] = e
      BY <2>2 DEF Holds
    <3>3. i = j /\ \A k \in 1..i : chain[n][k] = chain[m][k]
      BY <1>3, <3>1, <3>2 DEF SyncInv, HistoryInv, OneHistory
    <3>4. chain[m] \in Seq(EventIds) /\ chain[n] \in Seq(EventIds)
      BY <1>3 DEF SyncInv, HistoryInv
    <3>5. 1 \in 1..i /\ 1 \in DOMAIN chain[m]
      BY <3>1, <3>2, <3>4
    <3> QED  BY <2>1, <3>3, <3>5 DEF Holds
  <2> QED  BY <2>1, <2>2
<1> HIDE DEF p, f, v
<1>6. /\ IsPull(q) /\ q.phase = "answered" /\ q.forked = f /\ q.todo = p.todo
      /\ q.peer = p.peer /\ q.offered = Holds(m)
  BY <1>1 DEF PullOK, IsPull
<1> HIDE DEF q, m
<1>7. PullOK(n, q)
  BY <1>1, <1>4, <1>5, <1>6
     DEF PullOK, Asks, OfferIsClosed, LocatorIsOurs, ForkIsForeign, Phases
<1> QED  BY <1>1, <1>2, <1>7, MoveKeeps DEF p

(* A pull that ended well, or did not.                                     *)
LEMMA EndKeeps ==
  ASSUME SyncInv, NEW n \in Nodes, pull[n].phase # "idle",
         Success(n, pull[n]) \/ Failure(n, pull[n]),
         chain' = chain, made' = made, stale' = stale
  PROVE  SyncInv'
<1>1. RestOf(n)
  BY DEF Success, Failure, RestOf
<1>2. CASE pull' = [pull EXCEPT ![n] = Idle]
  BY <1>1, <1>2, IdleOK, MoveKeeps
<1>3. CASE Failure(n, pull[n]) /\ pull' # [pull EXCEPT ![n] = Idle]
  <2> DEFINE rest == pull[n].todo \ {pull[n].peer}
  <2>1. PICK m \in Preferred(n, rest) : pull' = [pull EXCEPT ![n] = Turn(rest, m)]
    BY <1>3 DEF Failure
  <2>2. rest \in SUBSET Peers[n] /\ m \in rest
    BY DEF Preferred, SyncInv, PullsOK, PullOK, Asks
  <2>3. PullOK(n, Turn(rest, m))
    BY <2>2, TurnOK
  <2> QED  BY <1>1, <2>1, <2>3, MoveKeeps
<1> QED  BY <1>2, <1>3 DEF Success

(* The peer did not answer.                                                *)
LEMMA NoAnswerKeeps == ASSUME SyncInv, NEW n \in Nodes, NoAnswer(n) PROVE SyncInv'
  BY EndKeeps DEF NoAnswer

(* The peer had nothing more.                                              *)
LEMMA NothingNewKeeps == ASSUME SyncInv, NEW n \in Nodes, NothingNew(n) PROVE SyncInv'
  BY EndKeeps DEF NothingNew

(* The chain is not small: the fork is only reported.                      *)
LEMMA ForkReportKeeps == ASSUME SyncInv, NEW n \in Nodes, ForkReport(n) PROVE SyncInv'
<1>1. pull[n].phase # "idle" /\ RestOf(n)
  BY DEF ForkReport, RestOf
<1> QED  BY <1>1, IdleOK, MoveKeeps DEF ForkReport

(* A small chain is emptied, and the peer asked again (reset_chain).       *)
LEMMA ResetKeeps == ASSUME SyncInv, NEW n \in Nodes, Reset(n) PROVE SyncInv'
<1> DEFINE p == pull[n]
           q == Again(p, p.rounds)
<1>1. /\ p.phase = "answered" /\ pull' = [pull EXCEPT ![n] = q] /\ made' = made
      /\ chain' = [chain EXCEPT ![n] = <<>>] /\ favourite' = favourite
      /\ cooling' = cooling /\ stale' = stale
  BY DEF Reset
<1>2. PullOK(n, p)
  BY DEF SyncInv, PullsOK
<1>3. q \in Asking(p.todo, p.peer, p.rounds)
  <2> DEFINE t == Turn(p.todo, p.peer)
  <2>1. t \in Asking(p.todo, p.peer, 0) /\ q = [t EXCEPT !.rounds = p.rounds]
    BY TurnAsks DEF Again
  <2> HIDE DEF t, p, q
  <2> QED  BY <2>1 DEF Asking
<1>4. p.todo \in SUBSET Peers[n] /\ p.peer \in p.todo
  BY <1>1, <1>2 DEF PullOK, Asks
<1> HIDE DEF p, q
<1>5. chain'[n] = <<>> /\ \A m \in Nodes \ {n} : chain'[m] = chain[m]
  BY <1>1 DEF SyncInv, HistoryInv
<1>6. HistoryInv'
  <2>1. chain' \in [Nodes -> Seq(EventIds)]
    <3>1. <<>> \in Seq(EventIds)
      OBVIOUS
    <3> QED  BY <1>1, <3>1 DEF SyncInv, HistoryInv
  <2>2. DOMAIN chain'[n] = {}
    BY <1>5
  <2>3. \A m \in Nodes : Whole(m)'
    BY <1>1, <1>5, <2>2 DEF SyncInv, HistoryInv, Whole
  <2>4. OneHistory'
    <3> SUFFICES ASSUME NEW a \in Nodes, NEW b \in Nodes, NEW i \in DOMAIN chain'[a],
                        NEW j \in DOMAIN chain'[b], chain'[a][i] = chain'[b][j]
                 PROVE  i = j /\ \A k \in 1..i : chain'[a][k] = chain'[b][k]
      BY DEF OneHistory
    <3>1. a # n /\ b # n
      BY <2>2
    <3>2. chain'[a] = chain[a] /\ chain'[b] = chain[b]
      BY <1>5, <3>1
    <3> QED  BY <3>2 DEF SyncInv, HistoryInv, OneHistory
  <2> QED  BY <1>1, <2>1, <2>3, <2>4 DEF SyncInv, HistoryInv, EventIds
<1>7. PullsOK'
  <2>1. pull'[n] = q /\ \A m \in Nodes \ {n} : pull'[m] = pull[m]
    BY <1>1 DEF SyncInv, PullsOK
  <2>2. pull' = [m \in Nodes |-> pull'[m]]
    BY <1>1 DEF SyncInv, PullsOK
  <2>3. ASSUME NEW m \in Nodes, m # n PROVE PullOK(m, pull[m])'
    <3>1. PullOK(m, pull[m]) /\ pull'[m] = pull[m] /\ chain'[m] = chain[m]
      BY <1>5, <2>1, <2>3 DEF SyncInv, PullsOK
    <3> QED
      BY <1>1, <3>1 DEF PullOK, IsPull, Asks, OfferIsClosed, EventIds, LocatorIsOurs,
         ForkIsForeign, Holds
  <2>4. PullOK(n, pull[n])'
    <3>1. /\ IsPull(q) /\ q.phase = "ask" /\ q.offered = {} /\ q.peer \in q.todo
          /\ q.todo \subseteq Peers[n]
      BY <1>3, <1>4 DEF Asking, IsPull
    <3> QED
      BY <2>1, <3>1 DEF PullOK, IsPull, Asks, OfferIsClosed, LocatorIsOurs, ForkIsForeign,
         Phases
  <2> QED  BY <2>2, <2>3, <2>4 DEF PullsOK
<1>8. RestTyped'
  BY <1>1 DEF SyncInv, RestTyped
<1> QED  BY <1>6, <1>7, <1>8 DEF SyncInv

(* A page is here, to be taken in.                                         *)
LEMMA IngestStartKeeps == ASSUME SyncInv, NEW n \in Nodes, IngestStart(n) PROVE SyncInv'
<1> DEFINE p == pull[n]
           h == Head0(chain[n])
           q == [p EXCEPT !.phase = "ingest", !.at = 1, !.accepted = 0, !.known = 0,
                          !.refused = 0, !.expected = h]
<1>1. PullOK(n, p) /\ p.phase = "answered"
  BY DEF IngestStart, SyncInv, PullsOK
<1>2. pull' = [pull EXCEPT ![n] = q] /\ chain' = chain /\ made' = made /\ RestOf(n)
  BY DEF IngestStart, RestOf
<1> HIDE DEF p, h
<1>3. /\ IsPull(q) /\ q.phase = "ingest" /\ q.todo = p.todo /\ q.peer = p.peer
      /\ q.offered = p.offered
  BY <1>1 DEF PullOK, IsPull
<1> HIDE DEF q
<1>4. PullOK(n, q)
  BY <1>1, <1>3 DEF PullOK, Asks, OfferIsClosed, LocatorIsOurs, ForkIsForeign, Phases
<1> QED  BY <1>1, <1>2, <1>4, MoveKeeps DEF p

(* One event of the answer is looked at (ingest_events).                   *)
LEMMA IngestOneKeeps == ASSUME SyncInv, NEW n \in Nodes, IngestOne(n) PROVE SyncInv'
<1> DEFINE p == pull[n]
           e == p.events[p.at]
           q1 == [p EXCEPT !.at = @ + 1, !.known = @ + 1]
           q2 == [p EXCEPT !.at = @ + 1, !.accepted = @ + 1, !.expected = e]
           q3 == [p EXCEPT !.at = @ + 1, !.refused = @ + 1]
<1>1. PullOK(n, p) /\ p.phase = "ingest"
  BY DEF IngestOne, SyncInv, PullsOK
<1>2. /\ made' = made /\ favourite' = favourite /\ cooling' = cooling /\ stale' = stale
      /\ \/ pull' = [pull EXCEPT ![n] = q1] /\ chain' = chain
         \/ /\ pull' = [pull EXCEPT ![n] = q2]
            /\ chain' = [chain EXCEPT ![n] = Append(@, e)]
            /\ e \notin Holds(n) /\ Ingestible(n, e, p.expected)
         \/ pull' = [pull EXCEPT ![n] = q3] /\ chain' = chain
  BY DEF IngestOne
<1>3. RestOf(n)
  BY <1>2 DEF RestOf
<1> HIDE DEF p, e
<1>4. \A q \in {q1, q2, q3} :
         /\ IsPull(q) /\ q.phase = "ingest" /\ q.todo = p.todo /\ q.peer = p.peer
         /\ q.offered = p.offered
  BY <1>1 DEF PullOK, IsPull
<1> HIDE DEF q1, q2, q3
<1>5. \A q \in {q1, q2, q3} : PullOK(n, q)
  BY <1>1, <1>4 DEF PullOK, Asks, OfferIsClosed, LocatorIsOurs, ForkIsForeign, Phases
<1>6. CASE chain' = chain
  BY <1>1, <1>2, <1>3, <1>5, <1>6, MoveKeeps DEF p
<1>7. CASE /\ pull' = [pull EXCEPT ![n] = q2] /\ chain' = [chain EXCEPT ![n] = Append(@, e)]
           /\ e \notin Holds(n) /\ Ingestible(n, e, p.expected)
  <2>1. Kept /\ Extends(n, e)
    BY <1>2, <1>7 DEF Kept, Extends, Ingestible, EventIds, SyncInv, HistoryInv
  <2>2. HistoryInv'
    BY <2>1, ExtendKeeps DEF SyncInv
  <2>3. ASSUME NEW m \in Nodes PROVE PullOK(m, pull[m])'
    <3>1. pull'[m] = IF m = n THEN q2 ELSE pull[m]
      BY <1>7 DEF SyncInv, PullsOK
    <3>2. PullOK(m, pull'[m])
      BY <1>5, <3>1 DEF SyncInv, PullsOK
    <3> QED  BY <2>1, <3>2, ExtendKeepsPull
  <2>4. PullsOK'
    BY <1>7, <2>3 DEF SyncInv, PullsOK
  <2>5. RestTyped'
    BY <1>2 DEF SyncInv, RestTyped
  <2> QED  BY <2>2, <2>4, <2>5 DEF SyncInv
<1> QED  BY <1>2, <1>6, <1>7

(* The answer has been taken in: the pull ends, or goes on.                *)
LEMMA IngestedKeeps == ASSUME SyncInv, NEW n \in Nodes, Ingested(n) PROVE SyncInv'
<1>1. pull[n].phase = "ingest" /\ made' = made /\ chain' = chain /\ stale' = stale
  BY DEF Ingested
<1>2. CASE Success(n, pull[n]) \/ Failure(n, pull[n])
  BY <1>1, <1>2, EndKeeps
<1>3. CASE ~(Success(n, pull[n]) \/ Failure(n, pull[n]))
  <2> DEFINE q == Again(pull[n], pull[n].rounds + 1)
  <2>1. pull' = [pull EXCEPT ![n] = q] /\ RestOf(n)
    BY <1>3 DEF Ingested, RestOf
  <2>2. PullOK(n, q)
    BY <1>1, AgainOK DEF SyncInv, PullsOK
  <2> QED  BY <1>1, <2>1, <2>2, MoveKeeps
<1> QED  BY <1>2, <1>3

(***************************************************************************)
(* The theorems.                                                           *)
(***************************************************************************)

(* Nothing is signed and nothing is pulled at the start.                   *)
LEMMA InitSync == SyncInit => SyncInv
<1> SUFFICES ASSUME SyncInit PROVE SyncInv
  OBVIOUS
<1>1. \A n \in Nodes : chain[n] = <<>> /\ DOMAIN chain[n] = {}
  BY DEF SyncInit
<1>2. HistoryInv
  <2>1. made \in Seq(Event) /\ chain \in [Nodes -> Seq(EventIds)]
    BY DEF SyncInit
  <2>2. (\A n \in Nodes : Whole(n)) /\ OneHistory
    BY <1>1 DEF Whole, OneHistory
  <2> QED  BY <2>1, <2>2 DEF HistoryInv
<1>3. PullsOK
  BY IdleOK DEF SyncInit, PullsOK
<1>4. RestTyped
  BY DEF SyncInit, RestTyped
<1> QED  BY <1>2, <1>3, <1>4 DEF SyncInv

(* Every step keeps the invariant.                                         *)
LEMMA SyncStep == SyncInv /\ [SyncNext]_syncVars => SyncInv'
<1> SUFFICES ASSUME SyncInv, [SyncNext]_syncVars PROVE SyncInv'
  OBVIOUS
<1>1. CASE UNCHANGED syncVars
  <2>1. HistoryInv' /\ PullsOK'
    BY <1>1, StillKeeps DEF syncVars
  <2>2. RestTyped'
    BY <1>1 DEF syncVars, SyncInv, RestTyped
  <2> QED  BY <2>1, <2>2 DEF SyncInv
<1>2. CASE \E n \in Writers, k \in Kinds : Append1(n, k)
  BY <1>2, AppendKeeps, SyncAssumption
<1>3. CASE Age
  BY <1>3, TimeKeeps
<1>4. ASSUME NEW n \in Nodes,
             \/ Begin(n) \/ PullStep(n) \/ NoAnswer(n)
             \/ \E m \in Nodes : CoolDown(n, m)
             \/ \E e \in EventIds : Pushed(n, e)
      PROVE  SyncInv'
  BY <1>4, BeginKeeps, AskKeeps, AnswerKeeps, ResetKeeps, ForkReportKeeps, NothingNewKeeps,
     IngestStartKeeps, IngestOneKeeps, IngestedKeeps, NoAnswerKeeps, TimeKeeps, PushKeeps
     DEF PullStep
<1> QED  BY <1>1, <1>2, <1>3, <1>4 DEF SyncNext

(* The invariant holds of every behaviour of the nodes.                    *)
THEOREM SyncInvariant == SyncSpec => []SyncInv
  BY InitSync, SyncStep, PTL DEF SyncSpec

(* Type correctness; a cycle asks one of the peers it has left to ask      *)
(* (the state of _run_public_sync_cycle and of the stores it uses).        *)
THEOREM SyncTypeCorrect == SyncSpec => []SyncTypeOK
<1>1. SyncInv => SyncTypeOK
  BY DEF SyncInv, HistoryInv, PullsOK, PullOK, Asks, Phases, RestTyped, SyncTypeOK, Event
<1> QED  BY <1>1, SyncInvariant, PTL

(* Nodes that share an event agree on everything before it, through any    *)
(* forks, pages, pushes, resets and failures (ingest_events' checks).      *)
THEOREM HistoryIsOne == SyncSpec => []OneHistory
<1>1. SyncInv => OneHistory
  BY DEF SyncInv, HistoryInv
<1> QED  BY <1>1, SyncInvariant, PTL

(* How a step may change the chain of n.                                   *)
LEMMA ChainSteps ==
  ASSUME SyncInv, SyncNext, NEW n \in Nodes
  PROVE  \/ chain'[n] = chain[n]
         \/ \E e : chain'[n] = Append(chain[n], e)
         \/ Reset(n) /\ chain'[n] = <<>>
<1>1. chain \in [Nodes -> Seq(EventIds)]
  BY DEF SyncInv, HistoryInv
<1>2. CASE \E w \in Writers, k \in Kinds : Append1(w, k)
  BY <1>1, <1>2 DEF Append1
<1>3. CASE Age
  BY <1>3 DEF Age
<1>4. ASSUME NEW m \in Nodes,
             \/ Begin(m) \/ PullStep(m) \/ NoAnswer(m)
             \/ \E x \in Nodes : CoolDown(m, x)
             \/ \E e \in EventIds : Pushed(m, e)
      PROVE  \/ chain'[n] = chain[n]
             \/ \E e : chain'[n] = Append(chain[n], e)
             \/ Reset(n) /\ chain'[n] = <<>>
  <2>1. CASE \E e \in EventIds : Pushed(m, e)
    BY <1>1, <2>1 DEF Pushed
  <2>2. CASE IngestOne(m)
    <3>1. chain' = chain \/ \E e : chain' = [chain EXCEPT ![m] = Append(@, e)]
      BY <2>2 DEF IngestOne
    <3> QED  BY <1>1, <3>1
  <2>3. CASE Reset(m)
    <3>1. chain' = [chain EXCEPT ![m] = <<>>]
      BY <2>3 DEF Reset
    <3> QED  BY <1>1, <2>3, <3>1
  <2>4. CASE \/ Begin(m) \/ NoAnswer(m) \/ \E x \in Nodes : CoolDown(m, x)
             \/ Ask(m) \/ Answer(m) \/ ForkReport(m) \/ NothingNew(m) \/ IngestStart(m)
             \/ Ingested(m)
    BY <2>4 DEF Begin, NoAnswer, CoolDown, Ask, Answer, ForkReport, NothingNew, IngestStart,
       Ingested
  <2> QED  BY <1>4, <2>1, <2>2, <2>3, <2>4 DEF PullStep
<1> QED  BY <1>2, <1>3, <1>4 DEF SyncNext

(* A chain only grows, unless it is small and emptied (reset_chain).       *)
THEOREM ChainsGrow == SyncSpec => GrowsOrResets
<1>1. SyncInv /\ [SyncNext]_syncVars =>
        [\A n \in Nodes :
            \/ Len(chain[n]) <= Len(chain'[n])
               /\ \A i \in DOMAIN chain[n] : chain'[n][i] = chain[n][i]
            \/ chain'[n] = <<>> /\ Len(chain[n]) < SmallChain]_syncVars
  <2> SUFFICES ASSUME SyncInv, SyncNext, NEW n \in Nodes
               PROVE  \/ Len(chain[n]) <= Len(chain'[n])
                         /\ \A i \in DOMAIN chain[n] : chain'[n][i] = chain[n][i]
                      \/ chain'[n] = <<>> /\ Len(chain[n]) < SmallChain
    OBVIOUS
  <2>1. chain[n] \in Seq(EventIds) /\ Len(chain[n]) \in Nat
        /\ DOMAIN chain[n] = 1..Len(chain[n])
    BY DEF SyncInv, HistoryInv
  <2>2. CASE chain'[n] = chain[n]
    BY <2>1, <2>2
  <2>3. CASE \E e : chain'[n] = Append(chain[n], e)
    BY <2>1, <2>3
  <2>4. CASE Reset(n) /\ chain'[n] = <<>>
    BY <2>4 DEF Reset, Small
  <2> QED  BY <2>2, <2>3, <2>4, ChainSteps
<1> QED  BY <1>1, SyncInvariant, PTL DEF SyncSpec, GrowsOrResets

(* A chain that is emptied shares nothing with what the peer held when it  *)
(* answered.                                                               *)
LEMMA EmptiedForForeign ==
  ASSUME SyncInv, SyncNext, NEW n \in Nodes, chain[n] # <<>>, chain'[n] = <<>>
  PROVE  Holds(n) \cap pull[n].offered = {}
<1>1. Reset(n)
  <2>1. chain[n] \in Seq(EventIds)
    BY DEF SyncInv, HistoryInv
  <2>2. \A e : Append(chain[n], e) # <<>>
    BY <2>1
  <2> QED  BY <2>2, ChainSteps
<1>2. ForkIsForeign(n, pull[n])
  BY DEF SyncInv, PullsOK, PullOK
<1> QED  BY <1>1, <1>2 DEF Reset, ForkIsForeign

(* So it is whatever was appended and pushed since (_sync_from_peer).      *)
THEOREM StrangersDropped == SyncSpec => ResetDropsStrangers
<1>1. SyncInv /\ [SyncNext]_syncVars =>
        [\A n \in Nodes : chain[n] # <<>> /\ chain'[n] = <<>>
            => Holds(n) \cap pull[n].offered = {}]_syncVars
  BY EmptiedForForeign
<1> QED  BY <1>1, SyncInvariant, PTL DEF SyncSpec, ResetDropsStrangers
(***************************************************************************)
(* What a pull that ended well has taken in.                               *)
(***************************************************************************)

(* A nonempty set of naturals has a least element.                         *)
LEMMA LeastOf ==
  ASSUME NEW S \in SUBSET Nat, S # {}
  PROVE  \E x \in S : \A y \in S : x <= y
<1> DEFINE R == OpToRel(<, Nat)
<1>1. IsWellFoundedOn(R, Nat)
  BY NatLessThanWellFounded
<1>2. \A x, y \in Nat : x < y => <<x, y>> \in R
  BY Zenon DEF OpToRel
<1> HIDE DEF R
<1>3. PICK x \in S : \A y \in S : ~ (<<y, x>> \in R)
  BY <1>1, WFMin
<1>4. \A y \in S : <<y, x>> \notin R => x <= y
  BY <1>2
<1> QED  BY <1>3, <1>4

(* A page with nothing to withhold goes out as it is (the transport filter *)
(* of the answer): its parts satisfy the recursion, and nothing else does. *)
LEMMA AllOut ==
  ASSUME NEW n, NEW page \in Seq(Nat), \A i \in 1..Len(page) : ~Withheld(n, page[i])
  PROVE  SentOut(n, page) = page
<1> DEFINE I == 0..Len(page)
           Next1(f) == [i \in I |-> IF i = 0 THEN <<>>
                                    ELSE IF Withheld(n, page[i]) THEN f[i - 1]
                                    ELSE Append(f[i - 1], page[i])]
           parts == [i \in I |-> SubSeq(page, 1, i)]
           kept == CHOOSE f : f = Next1(f)
<1>0. Len(page) \in Nat /\ I \subseteq Nat
  OBVIOUS
<1>1. parts = Next1(parts)
  <2>1. ASSUME NEW i \in I
        PROVE  SubSeq(page, 1, i) = IF i = 0 THEN <<>>
                                    ELSE IF Withheld(n, page[i]) THEN parts[i - 1]
                                    ELSE Append(parts[i - 1], page[i])
    <3>1. CASE i = 0
      BY <3>1, SubSeqEmpty
    <3>2. CASE i # 0
      <4>1. i \in 1..Len(page) /\ i - 1 \in I
        BY <1>0, <3>2
      <4>2. SubSeq(page, 1, i) = SubSeq(page, 1, i - 1) \o <<page[i]>>
        BY <4>1, SubSeqRecursiveSecond
      <4>3. SubSeq(page, 1, i - 1) \in Seq(Nat)
        <5>1. \A k \in 1..(i - 1) : page[k] \in Nat
          BY <4>1
        <5> QED  BY <4>1, <5>1, SubSeqProperties
      <4>4. Append(SubSeq(page, 1, i - 1), page[i]) = SubSeq(page, 1, i - 1) \o <<page[i]>>
        <5> DEFINE head == SubSeq(page, 1, i - 1)  e == page[i]
        <5>1. head \in Seq(Nat) /\ e \in Nat
          BY <4>1, <4>3
        <5> HIDE DEF head, e
        <5>2. Append(head, e) = head \o <<e>>
          BY <5>1, AppendIsConcat
        <5> QED  BY <5>2 DEF head, e
      <4> QED  BY <3>2, <4>1, <4>2, <4>4
    <3> QED  BY <3>1, <3>2
  <2> QED  BY <2>1, Zenon
<1>2. kept = Next1(kept)
  BY <1>1
<1>3. SentOut(n, page) = kept[Len(page)]
  BY DEF SentOut
<1> HIDE DEF kept
<1>4. ASSUME NEW i \in I, kept[i] # parts[i] PROVE FALSE
  <2> DEFINE Bad == {j \in I : kept[j] # parts[j]}
  <2>1. PICK j \in Bad : \A k \in Bad : j <= k
    <3>1. Bad \in SUBSET Nat /\ Bad # {}
      BY <1>0, <1>4
    <3> HIDE DEF Bad
    <3> QED  BY <3>1, LeastOf
  <2>2. j \in I /\ kept[j] # parts[j]
    OBVIOUS
  <2>3. kept[j] = Next1(kept)[j] /\ parts[j] = Next1(parts)[j]
    BY <1>1, <1>2, <2>2, Zenon
  <2>4. CASE j = 0
    BY <2>2, <2>3, <2>4
  <2>5. CASE j # 0
    <3>1. j - 1 \in I /\ j \in 1..Len(page)
      BY <1>0, <2>2, <2>5
    <3>2. kept[j - 1] = parts[j - 1]
      <4>1. ~(j <= j - 1)
        BY <1>0, <2>2
      <4> QED  BY <2>1, <3>1, <4>1
    <3>3. Next1(kept)[j] = Append(kept[j - 1], page[j])
          /\ Next1(parts)[j] = Append(parts[j - 1], page[j])
      <4> HIDE DEF parts
      <4> QED  BY <2>2, <2>5, <3>1
    <3> QED  BY <2>2, <2>3, <3>2, <3>3
  <2> QED  BY <2>4, <2>5
<1>5. kept[Len(page)] = SubSeq(page, 1, Len(page))
  BY <1>0, <1>4
<1> QED  BY <1>3, <1>5, SubSeqFull

(* Every event the peer held may go out over the transport of n.           *)
NothingWithheld(n, p) == \A e \in p.offered : ~Withheld(n, e)

(* What a locator names, n has.  An answer that nothing was withheld from, *)
(* and that is no full page, brings all n lacks of what the peer held; and *)
(* of what was looked at and not refused, n has everything.                *)
CatchingUp(n, p) ==
  /\ p.phase = "asked" =>
       /\ p.locator \in Seq(Nat)
       /\ \A i \in DOMAIN p.locator : p.locator[i] \in Holds(n)
  /\ p.phase \in {"answered", "ingest"} /\ NothingWithheld(n, p) =>
       /\ p.events \in Seq(Nat)
       /\ Len(p.events) < PageLimit =>
            \A e \in p.offered : e \in Holds(n) \/ \E k \in DOMAIN p.events : p.events[k] = e
  /\ p.phase = "ingest" =>
       /\ p.at \in Nat \ {0} /\ p.known \in Nat /\ p.refused \in Nat
       /\ p.refused = 0 =>
            \A k \in 1..(p.at - 1) : p.events[k] \in Holds(n)

CatchInv == \A n \in Nodes : CatchingUp(n, pull[n])

(* What a step of the nodes adds to what was signed, and whose cycle it    *)
(* may move on.                                                            *)
LEMMA StepKeepsMade == ASSUME SyncInv, SyncNext PROVE Kept
<1>1. made \in Seq(Event)
  BY DEF SyncInv, HistoryInv
<1>2. made' = made => Kept
  BY <1>1 DEF Kept
<1>3. ASSUME NEW n \in Writers, NEW k \in Kinds, Append1(n, k) PROVE Kept
  <2> DEFINE r == [after |-> Head0(chain[n]), kind |-> k]
  <2>1. made' = Append(made, r)
    BY <1>3 DEF Append1
  <2>2. made' \in Seq(Event)
    <3>1. SyncInv'
      BY <1>3, AppendKeeps, SyncAssumption
    <3> QED  BY <3>1 DEF SyncInv, HistoryInv
  <2> HIDE DEF r
  <2> QED  BY <1>1, <2>1, <2>2 DEF Kept, EventIds
<1>4. ASSUME NEW n \in Nodes, \/ Begin(n) \/ PullStep(n) \/ NoAnswer(n)
                              \/ \E m \in Nodes : CoolDown(n, m)
                              \/ \E e \in EventIds : Pushed(n, e)
      PROVE  made' = made
  BY <1>4 DEF Begin, PullStep, NoAnswer, CoolDown, Pushed, Ask, Answer, Reset, ForkReport,
     NothingNew, IngestStart, IngestOne, Ingested
<1>5. Age => made' = made
  BY DEF Age
<1> QED  BY <1>2, <1>3, <1>4, <1>5 DEF SyncNext

(* A step leaves the cycle of n alone unless it is a step of that cycle.   *)
LEMMA CycleMoves ==
  ASSUME SyncInv, SyncNext, NEW n \in Nodes
  PROVE  pull'[n] = pull[n] \/ Begin(n) \/ PullStep(n) \/ NoAnswer(n)
<1>0. pull = [m \in Nodes |-> pull[m]]
  BY DEF SyncInv, PullsOK
<1>1. ASSUME NEW m \in Nodes, m # n, NEW q, pull' = [pull EXCEPT ![m] = q]
      PROVE  pull'[n] = pull[n]
  BY <1>0, <1>1
<1>2. ASSUME NEW m \in Nodes, m # n, Begin(m) \/ PullStep(m) \/ NoAnswer(m)
      PROVE  pull'[n] = pull[n]
  <2>1. CASE Begin(m)
    BY <1>1, <1>2, <2>1 DEF Begin
  <2>2. ASSUME Success(m, pull[m]) \/ Failure(m, pull[m]) PROVE pull'[n] = pull[n]
    BY <1>1, <1>2, <2>2 DEF Success, Failure
  <2>3. CASE NoAnswer(m)
    BY <2>2, <2>3 DEF NoAnswer
  <2>4. CASE Ask(m) \/ Answer(m) \/ Reset(m)
    BY <1>0, <1>2, <2>4 DEF Ask, Answer, Reset
  <2>5. CASE ForkReport(m) \/ NothingNew(m) \/ IngestStart(m)
    BY <1>0, <1>2, <2>2, <2>5 DEF ForkReport, NothingNew, IngestStart
  <2>6. CASE IngestOne(m)
    BY <1>0, <1>2, <2>6 DEF IngestOne
  <2>7. CASE Ingested(m)
    BY <1>1, <1>2, <2>2, <2>7 DEF Ingested
  <2> QED  BY <1>2, <2>1, <2>3, <2>4, <2>5, <2>6, <2>7 DEF PullStep
<1>3. ASSUME \/ Age \/ \E w \in Writers, k \in Kinds : Append1(w, k)
             \/ \E m, x \in Nodes : CoolDown(m, x)
             \/ \E m \in Nodes : \E e \in EventIds : Pushed(m, e)
      PROVE  pull' = pull
  BY <1>3 DEF Age, Append1, CoolDown, Pushed
<1> QED  BY <1>2, <1>3 DEF SyncNext

(* Without a reset of its own a node keeps what it has.                    *)
LEMMA HoldsMore ==
  ASSUME SyncInv, SyncNext, NEW n \in Nodes, ~Reset(n)
  PROVE  Holds(n) \subseteq Holds(n)'
<1>1. chain[n] \in Seq(EventIds)
  BY DEF SyncInv, HistoryInv
<1>2. ASSUME NEW e, chain'[n] = Append(chain[n], e) PROVE Holds(n) \subseteq Holds(n)'
  <2>1. \A i \in DOMAIN chain[n] : i \in DOMAIN chain'[n] /\ chain'[n][i] = chain[n][i]
    BY <1>1, <1>2
  <2> QED  BY <2>1 DEF Holds
<1>3. CASE chain'[n] = chain[n]
  BY <1>3 DEF Holds
<1> QED  BY <1>2, <1>3, ChainSteps

(* A cycle that is not moved on keeps its promise.                         *)
LEMMA CatchStays ==
  ASSUME SyncInv, Kept, NEW n \in Nodes, CatchingUp(n, pull[n]), pull'[n] = pull[n],
         Holds(n) \subseteq Holds(n)'
  PROVE  CatchingUp(n, pull[n])'
<1>1. pull[n].offered \subseteq EventIds /\ \A e \in EventIds : made'[e] = made[e]
  BY DEF SyncInv, PullsOK, PullOK, OfferIsClosed, Kept
<1>2. NothingWithheld(n, pull[n])' => NothingWithheld(n, pull[n])
  BY <1>1 DEF NothingWithheld, Withheld
<1> QED  BY <1>2 DEF CatchingUp

(* The newest entry of a locator that the peer has too, and with it all    *)
(* before it, is in both chains (find_fork_point).                         *)
LEMMA StartIsShared ==
  ASSUME HistoryInv, NEW n \in Nodes, NEW m \in Nodes, NEW l \in Seq(Nat),
         \A i \in DOMAIN l : l[i] \in Holds(n)
  PROVE  /\ Start(m, l) \in 0..Len(chain[m])
         /\ \A i \in 1..Start(m, l) : chain[m][i] \in Holds(n)
<1>0. /\ chain[m] \in Seq(EventIds) /\ DOMAIN chain[m] = 1..Len(chain[m])
      /\ chain[n] \in Seq(EventIds) /\ DOMAIN chain[n] = 1..Len(chain[n])
      /\ Len(chain[m]) \in Nat /\ Len(chain[n]) \in Nat
  BY DEF HistoryInv
<1>1. CASE Shared(m, l) = {}
  BY <1>0, <1>1 DEF Start
<1>2. CASE Shared(m, l) # {}
  <2> DEFINE S == Shared(m, l)
             B == {b \in Nat : \A j \in S : j <= b}
  <2>1. S \subseteq 1..Len(l) /\ Len(l) \in Nat
    BY DEF Shared
  <2>2. PICK b \in B : \A c \in B : b <= c
    <3>1. Len(l) \in B
      BY <2>1
    <3>2. B \in SUBSET Nat /\ B # {}
      BY <3>1
    <3> HIDE DEF B
    <3> QED  BY <3>2, LeastOf
  <2>3. b \in S
    <3> SUFFICES ASSUME b \notin S PROVE FALSE
      OBVIOUS
    <3>1. b \in Nat /\ \A j \in S : j <= b /\ j # b /\ j \in Nat \ {0}
      BY <2>1, <2>2
    <3>2. b - 1 \in Nat /\ \A j \in S : j <= b - 1
      BY <1>2, <3>1
    <3>3. b - 1 \in B
      BY <3>2
    <3> QED  BY <2>2, <3>1, <3>3
  <2>4. \A j \in S : j <= b
    BY <2>2
  <2> DEFINE x == CHOOSE i \in S : \A j \in S : j <= i
             e == l[x]
             s == Place(m, e)
  <2>5. x \in S
    BY <2>3, <2>4
  <2>6. e \in Holds(m) /\ e \in Holds(n)
    BY <2>5 DEF Shared
  <2>7. Start(m, l) = s
    BY <1>2 DEF Start
  <2> HIDE DEF x, e, S
  <2>8. s \in DOMAIN chain[m] /\ chain[m][s] = e
    BY <2>6 DEF Holds, Place
  <2> HIDE DEF s
  <2>9. PICK j \in DOMAIN chain[n] : chain[n][j] = e
    BY <2>6 DEF Holds
  <2>10. s = j /\ \A k \in 1..s : chain[m][k] = chain[n][k]
    BY <2>8, <2>9 DEF HistoryInv, OneHistory
  <2>11. \A k \in 1..s : k \in DOMAIN chain[n] /\ chain[m][k] = chain[n][k]
    BY <1>0, <2>9, <2>10
  <2>12. \A k \in 1..s : chain[m][k] \in Holds(n)
    BY <2>11 DEF Holds
  <2> QED  BY <1>0, <2>7, <2>8, <2>12
<1> QED  BY <1>1, <1>2

(* The page after place "from" of a chain is that part of it.              *)
IsPart(page, c, from, last) ==
  /\ page \in Seq(Nat)
  /\ \A i \in DOMAIN page : from + i \in DOMAIN c /\ page[i] = c[from + i]
  /\ Len(page) = last - from
  /\ last = Len(c) =>
       \A i \in DOMAIN c : i <= from \/ (i - from \in DOMAIN page
                                       /\ page[i - from] = c[i])

LEMMA PageIsPart ==
  ASSUME NEW c \in Seq(Nat), NEW from \in Nat, NEW last \in Nat,
         from <= last, last <= Len(c),
         NEW page, page = SubSeq(c, from + 1, last)
  PROVE  IsPart(page, c, from, last)
<1>0. Len(c) \in Nat /\ DOMAIN c = 1..Len(c) /\ \A i \in 1..Len(c) : c[i] \in Nat
  OBVIOUS
<1>3. \A i \in (from + 1)..last : c[i] \in Nat
  BY <1>0
<1>4. /\ page \in Seq(Nat)
      /\ Len(page) = IF from + 1 <= last THEN last - (from + 1) + 1 ELSE 0
      /\ \A i \in 1..(last - (from + 1) + 1) : page[i] = c[from + 1 + i - 1]
  <2>1. from + 1 \in Int /\ last \in Int
    OBVIOUS
  <2>2. /\ SubSeq(c, from + 1, last) \in Seq(Nat)
        /\ Len(SubSeq(c, from + 1, last)) =
             IF from + 1 <= last THEN last - (from + 1) + 1 ELSE 0
        /\ \A i \in 1..(last - (from + 1) + 1) :
             SubSeq(c, from + 1, last)[i] = c[from + 1 + i - 1]
    <3> DEFINE start == from + 1
    <3>1. start \in Int /\ \A i \in start..last : c[i] \in Nat
      BY <1>3, <2>1
    <3> HIDE DEF start
    <3>2. /\ SubSeq(c, start, last) \in Seq(Nat)
          /\ Len(SubSeq(c, start, last)) = IF start <= last THEN last - start + 1 ELSE 0
          /\ \A i \in 1..(last - start + 1) : SubSeq(c, start, last)[i] = c[start + i - 1]
      BY <2>1, <3>1, SubSeqProperties
    <3> QED  BY <3>2 DEF start
  <2> QED  BY <2>2
<1>5. /\ Len(page) = last - from /\ DOMAIN page = 1..(last - from)
      /\ \A i \in 1..(last - from) : page[i] = c[from + i]
  <2>1. last - (from + 1) + 1 = last - from /\ Len(page) = last - from
    BY <1>4
  <2>2. \A i \in 1..(last - from) : from + 1 + i - 1 = from + i
    OBVIOUS
  <2> QED  BY <1>4, <2>1, <2>2
<1>6. \A i \in 1..(last - from) : from + i \in DOMAIN c
  BY <1>0
<1>7. ASSUME last = Len(c), NEW i \in DOMAIN c, ~(i <= from)
      PROVE  i - from \in DOMAIN page /\ page[i - from] = c[i]
  <2>2. i - from \in 1..(last - from) /\ from + (i - from) = i
    BY <1>0, <1>7
  <2> QED  BY <1>5, <2>2
<1> QED  BY <1>4, <1>5, <1>6, <1>7 DEF IsPart

(* That page, nothing of it withheld, brings the rest of what the peer has, *)
(* unless it is full.                                                      *)
LEMMA PageBringsRest ==
  ASSUME HistoryInv, NEW n \in Nodes, NEW m \in Nodes, NEW l \in Seq(Nat),
         \A i \in DOMAIN l : l[i] \in Holds(n),
         \A e \in Holds(m) : ~Withheld(n, e)
  PROVE  /\ Page(n, m, l) \in Seq(Nat)
         /\ Len(Page(n, m, l)) < PageLimit =>
              \A e \in Holds(m) :
                 \/ e \in Holds(n)
                 \/ \E k \in DOMAIN Page(n, m, l) : Page(n, m, l)[k] = e
<1> DEFINE c == chain[m]
           from == Start(m, l)
           last == Least(from + PageLimit, Len(c))
           page == SubSeq(c, from + 1, last)
<1>0. c \in Seq(Nat)
  <2> DEFINE E == EventIds  T == Nat
  <2>1. c \in Seq(E) /\ E \subseteq T
    BY DEF HistoryInv, EventIds
  <2> HIDE DEF c, E, T
  <2>2. c \in Seq(T)
    BY <2>1
  <2> QED  BY <2>2 DEF T
<1>1. from \in 0..Len(c) /\ \A i \in 1..from : c[i] \in Holds(n)
  BY StartIsShared
<1>2. Page(n, m, l) = SentOut(n, page)
  BY DEF Page
<1>3. /\ \A i \in DOMAIN c : c[i] \in Holds(m)
      /\ \A e \in Holds(m) : \E i \in DOMAIN c : c[i] = e
  BY DEF Holds
<1>4. page = SubSeq(c, from + 1, last)
  OBVIOUS
<1> HIDE DEF c, from, last, page
<1>5. from \in Nat /\ from <= Len(c)
  BY <1>0, <1>1
<1>9. /\ last \in Nat /\ from <= last /\ last <= Len(c)
      /\ last = Len(c) \/ last = from + PageLimit
  <2> DEFINE full == from + PageLimit  all == Len(c)
  <2>1. full \in Nat /\ from <= full /\ all \in Nat /\ from <= all
    BY <1>0, <1>5, SyncAssumption
  <2>2. last = IF full < all THEN full ELSE all
    BY DEF last, Least
  <2> HIDE DEF full, all
  <2>3. last \in Nat /\ from <= last /\ last <= all /\ (last = all \/ last = full)
    BY <1>5, <2>1, <2>2
  <2> QED  BY <2>3 DEF full, all
<1>6. /\ page \in Seq(Nat)
      /\ \A i \in DOMAIN page : from + i \in DOMAIN c /\ page[i] = c[from + i]
      /\ Len(page) = last - from
      /\ last = Len(c) =>
           \A i \in DOMAIN c : i <= from \/ (i - from \in DOMAIN page
                                           /\ page[i - from] = c[i])
  <2>1. last \in Nat /\ from <= last /\ last <= Len(c)
    BY <1>9
  <2>2. IsPart(page, c, from, last)
    BY <1>0, <1>4, <1>5, <2>1, PageIsPart
  <2> QED  BY <2>2 DEF IsPart
<1>7. SentOut(n, page) = page
  <2>1. page \in Seq(Nat) /\ DOMAIN page = 1..Len(page)
    BY <1>6
  <2>2. ASSUME NEW i \in 1..Len(page) PROVE ~Withheld(n, page[i])
    <3>1. from + i \in DOMAIN c /\ page[i] = c[from + i]
      BY <1>6, <2>1
    <3>2. page[i] \in Holds(m)
      BY <1>3, <3>1
    <3> QED  BY <3>2
  <2> QED  BY <2>1, <2>2, AllOut
<1>8. ASSUME Len(page) < PageLimit, NEW e \in Holds(m)
      PROVE  e \in Holds(n) \/ \E k \in DOMAIN page : page[k] = e
  <2>1. PICK i \in DOMAIN c : c[i] = e
    BY <1>3
  <2>2. CASE i <= from
    <3>1. i \in 1..from
      BY <1>0, <1>5, <2>2
    <3> QED  BY <1>1, <2>1, <3>1
  <2>3. CASE ~(i <= from)
    <3>1. last = Len(c)
      BY <1>0, <1>5, <1>6, <1>8, <1>9, SyncAssumption
    <3>2. i - from \in DOMAIN page /\ page[i - from] = c[i]
      BY <1>6, <2>3, <3>1
    <3> QED  BY <2>1, <3>2
  <2> QED  BY <2>2, <2>3
<1> QED  BY <1>2, <1>6, <1>7, <1>8

(* A cycle that is over, or about to ask, promises nothing.                *)
LEMMA CatchBegins ==
  ASSUME NEW n \in Nodes, pull'[n].phase \in {"idle", "ask"}
  PROVE  CatchingUp(n, pull[n])'
  BY DEF CatchingUp

(* The locator names what the node has (get_locator).                      *)
LEMMA AskCatches ==
  ASSUME SyncInv, NEW n \in Nodes, Ask(n)
  PROVE  CatchingUp(n, pull[n])'
<1> DEFINE p == pull[n]
           q == [p EXCEPT !.phase = "asked", !.locator = chain[n]]
<1>1. PullOK(n, p)
  BY DEF SyncInv, PullsOK
<1>2. pull'[n] = q /\ chain' = chain
  BY DEF Ask, SyncInv, PullsOK
<1>3. chain[n] \in Seq(Nat)
  <2> DEFINE c == chain[n]  E == EventIds  T == Nat
  <2>1. c \in Seq(E) /\ E \subseteq T
    BY DEF SyncInv, HistoryInv, EventIds
  <2> HIDE DEF c, E, T
  <2>2. c \in Seq(T)
    BY <2>1
  <2> QED  BY <2>2 DEF c, T
<1> HIDE DEF p
<1>4. q.phase = "asked" /\ q.locator = chain[n]
  BY <1>1 DEF PullOK, IsPull
<1> HIDE DEF q
<1> QED  BY <1>2, <1>3, <1>4 DEF CatchingUp, Holds

(* The answer to it brings the rest, unless it is full (infonet_sync_post).*)
LEMMA AnswerCatches ==
  ASSUME SyncInv, CatchInv, NEW n \in Nodes, Answer(n)
  PROVE  CatchingUp(n, pull[n])'
<1> DEFINE p == pull[n]
           m == p.peer
           l == p.locator
           f == IsForked(m, l)
           v == Page(n, m, l)
           q == [p EXCEPT !.phase = "answered", !.locator = <<>>, !.forked = f,
                          !.events = v, !.offered = Holds(m)]
<1>1. PullOK(n, p) /\ p.phase = "asked" /\ CatchingUp(n, p)
  BY DEF Answer, SyncInv, PullsOK, CatchInv
<1>2. pull'[n] = q /\ chain' = chain /\ made' = made
  BY DEF Answer, SyncInv, PullsOK
<1>3. m \in Nodes
  BY <1>1, SyncAssumption DEF PullOK, Asks
<1>4. l \in Seq(Nat) /\ \A i \in DOMAIN l : l[i] \in Holds(n)
  BY <1>1 DEF CatchingUp
<1>5. ASSUME \A e \in Holds(m) : ~Withheld(n, e)
      PROVE  /\ v \in Seq(Nat)
             /\ Len(v) < PageLimit =>
                  \A e \in Holds(m) : e \in Holds(n) \/ \E k \in DOMAIN v : v[k] = e
  <2> HIDE DEF l, m
  <2> QED  BY <1>3, <1>4, <1>5, PageBringsRest DEF SyncInv
<1> HIDE DEF p, f, v
<1>6. q.phase = "answered" /\ q.events = v /\ q.offered = Holds(m)
  BY <1>1 DEF PullOK, IsPull
<1> HIDE DEF q, m, l
<1>7. /\ Holds(n)' = Holds(n) /\ \A e : Withheld(n, e)' <=> Withheld(n, e)
  BY <1>2 DEF Holds, Withheld
<1> QED  BY <1>2, <1>5, <1>6, <1>7 DEF CatchingUp, NothingWithheld

(* Nothing of the answer has been looked at yet.                           *)
LEMMA IngestStartCatches ==
  ASSUME SyncInv, CatchInv, NEW n \in Nodes, IngestStart(n)
  PROVE  CatchingUp(n, pull[n])'
<1> DEFINE p == pull[n]
           h == Head0(chain[n])
           q == [p EXCEPT !.phase = "ingest", !.at = 1, !.accepted = 0, !.known = 0,
                          !.refused = 0, !.expected = h]
<1>1. PullOK(n, p) /\ p.phase = "answered" /\ CatchingUp(n, p)
  BY DEF IngestStart, SyncInv, PullsOK, CatchInv
<1>2. pull'[n] = q /\ chain' = chain /\ made' = made
  BY DEF IngestStart, SyncInv, PullsOK
<1> HIDE DEF p, h
<1>3. /\ q.phase = "ingest" /\ q.at = 1 /\ q.known = 0 /\ q.refused = 0
      /\ q.events = p.events /\ q.offered = p.offered
  BY <1>1 DEF PullOK, IsPull
<1> HIDE DEF q
<1>4. /\ Holds(n)' = Holds(n) /\ \A e : Withheld(n, e)' <=> Withheld(n, e)
  BY <1>2 DEF Holds, Withheld
<1> QED  BY <1>1, <1>2, <1>3, <1>4 DEF CatchingUp, NothingWithheld

(* An event that was not refused is in the chain (ingest_events).          *)
LEMMA IngestOneCatches ==
  ASSUME SyncInv, CatchInv, NEW n \in Nodes, IngestOne(n), Holds(n) \subseteq Holds(n)'
  PROVE  CatchingUp(n, pull[n])'
<1> DEFINE p == pull[n]
           e == p.events[p.at]
           q1 == [p EXCEPT !.at = @ + 1, !.known = @ + 1]
           q2 == [p EXCEPT !.at = @ + 1, !.accepted = @ + 1, !.expected = e]
           q3 == [p EXCEPT !.at = @ + 1, !.refused = @ + 1]
<1>1. PullOK(n, p) /\ p.phase = "ingest" /\ CatchingUp(n, p)
  BY DEF IngestOne, SyncInv, PullsOK, CatchInv
<1>2. /\ made' = made
      /\ \/ pull'[n] = q1 /\ e \in Holds(n)
         \/ pull'[n] = q2 /\ chain' = [chain EXCEPT ![n] = Append(@, e)]
         \/ pull'[n] = q3
  BY DEF IngestOne, SyncInv, PullsOK
<1>3. chain' = [chain EXCEPT ![n] = Append(@, e)] => e \in Holds(n)'
  <2> DEFINE c == chain[n]
  <2>1. chain \in [Nodes -> Seq(EventIds)] /\ c \in Seq(EventIds)
    BY DEF SyncInv, HistoryInv
  <2> HIDE DEF e
  <2>2. ASSUME chain' = [chain EXCEPT ![n] = Append(@, e)]
        PROVE  chain'[n] = Append(c, e)
    BY <2>1, <2>2
  <2> HIDE DEF c
  <2>3. Append(c, e)[Len(c) + 1] = e /\ Len(c) + 1 \in DOMAIN Append(c, e)
    BY <2>1
  <2> QED  BY <2>2, <2>3 DEF Holds
<1> HIDE DEF p, e
<1>4. /\ q1.phase = "ingest" /\ q1.at = p.at + 1 /\ q1.known = p.known + 1
      /\ q1.refused = p.refused /\ q1.events = p.events /\ q1.offered = p.offered
      /\ q2.phase = "ingest" /\ q2.at = p.at + 1 /\ q2.known = p.known
      /\ q2.refused = p.refused /\ q2.events = p.events /\ q2.offered = p.offered
      /\ q3.phase = "ingest" /\ q3.at = p.at + 1 /\ q3.known = p.known
      /\ q3.refused = p.refused + 1 /\ q3.events = p.events /\ q3.offered = p.offered
  BY <1>1 DEF PullOK, IsPull
<1> HIDE DEF q1, q2, q3
<1> DEFINE q == pull'[n]
<1>5. /\ p.at \in Nat \ {0} /\ p.known \in Nat /\ p.refused \in Nat
      /\ p.refused = 0 => \A k \in 1..(p.at - 1) : p.events[k] \in Holds(n)
  BY <1>1 DEF CatchingUp
<1>6. /\ q.phase = "ingest" /\ q.at = p.at + 1 /\ q.known \in Nat /\ q.refused \in Nat
      /\ q.events = p.events /\ q.offered = p.offered
      /\ q.refused = 0 => p.refused = 0 /\ e \in Holds(n)'
  BY <1>2, <1>3, <1>4, <1>5, SMTT(30)
<1>7. q.refused = 0 => \A k \in 1..(q.at - 1) : q.events[k] \in Holds(n)'
  <2> SUFFICES ASSUME q.refused = 0, NEW k \in 1..(q.at - 1)
               PROVE  q.events[k] \in Holds(n)'
    OBVIOUS
  <2>1. k = p.at \/ k \in 1..(p.at - 1)
    BY <1>5, <1>6
  <2> QED  BY <1>5, <1>6, <2>1 DEF e
<1>8. NothingWithheld(n, p)' => NothingWithheld(n, p)
  BY <1>2, <1>6 DEF NothingWithheld, Withheld, p
<1>9. NothingWithheld(n, q) <=> NothingWithheld(n, p)
  BY <1>6 DEF NothingWithheld
<1> QED  BY <1>1, <1>2, <1>5, <1>6, <1>7, <1>9 DEF CatchingUp, NothingWithheld, Withheld

(* Each step keeps what cycles promise.                                    *)
LEMMA CatchStep ==
  ASSUME SyncInv, CatchInv, [SyncNext]_syncVars
  PROVE  CatchInv'
<1> SUFFICES ASSUME NEW n \in Nodes PROVE CatchingUp(n, pull[n])'
  BY DEF CatchInv
<1>0. CatchingUp(n, pull[n])
  BY DEF CatchInv
<1>1. CASE UNCHANGED syncVars
  BY <1>0, <1>1 DEF syncVars, CatchingUp, NothingWithheld, Withheld, Holds
<1>2. CASE SyncNext
  <2>1. Kept
    BY <1>2, StepKeepsMade
  <2>2. ~Reset(n) => Holds(n) \subseteq Holds(n)'
    BY <1>2, HoldsMore
  <2>3. CASE pull'[n] = pull[n] /\ ~Reset(n)
    BY <1>0, <2>1, <2>2, <2>3, CatchStays
  <2>4. CASE Ask(n)
    BY <2>4, AskCatches
  <2>5. CASE Answer(n)
    BY <2>5, AnswerCatches
  <2>6. CASE IngestStart(n)
    BY <2>6, IngestStartCatches
  <2>7. CASE IngestOne(n)
    <3>1. ~Reset(n)
      BY <2>7 DEF IngestOne, Reset
    <3> QED  BY <2>2, <2>7, <3>1, IngestOneCatches
  <2>8. CASE \/ Begin(n) \/ NoAnswer(n) \/ Reset(n) \/ ForkReport(n) \/ NothingNew(n)
             \/ Ingested(n)
    <3>1. pull'[n].phase \in {"idle", "ask"}
      <4>0. pull = [x \in Nodes |-> pull[x]] /\ PullOK(n, pull[n])
        BY DEF SyncInv, PullsOK
      <4>1. ASSUME NEW todo, NEW m PROVE Turn(todo, m).phase = "ask"
        <5> DEFINE t == Turn(todo, m)
        <5>1. t \in Asking(todo, m, 0)
          BY TurnAsks
        <5> HIDE DEF t
        <5>2. t.phase = "ask"
          BY <5>1 DEF Asking
        <5> QED  BY <5>2 DEF t
      <4>2. \A r : Again(pull[n], r).phase = "ask"
        <5> TAKE r
        <5> DEFINE t == Turn(pull[n].todo, pull[n].peer)
        <5>1. t \in Asking(pull[n].todo, pull[n].peer, 0) /\ Again(pull[n], r) = [t EXCEPT !.rounds = r]
          BY TurnAsks DEF Again
        <5> HIDE DEF t
        <5> QED  BY <5>1 DEF Asking
      <4>3. ASSUME Success(n, pull[n]) \/ Failure(n, pull[n])
            PROVE  pull'[n].phase \in {"idle", "ask"}
        BY <4>0, <4>1, <4>3, IdleOK DEF Success, Failure
      <4>4. CASE Begin(n)
        BY <4>0, <4>1, <4>4 DEF Begin
      <4>5. CASE NoAnswer(n) \/ NothingNew(n)
        BY <4>3, <4>5 DEF NoAnswer, NothingNew
      <4>6. CASE Reset(n)
        BY <4>0, <4>2, <4>6 DEF Reset
      <4>7. CASE ForkReport(n)
        BY <4>0, <4>7, IdleOK DEF ForkReport
      <4>8. CASE Ingested(n)
        BY <4>0, <4>2, <4>3, <4>8 DEF Ingested
      <4> QED  BY <2>8, <4>4, <4>5, <4>6, <4>7, <4>8
    <3> QED  BY <3>1, CatchBegins
  <2> QED  BY <1>2, <2>3, <2>4, <2>5, <2>6, <2>7, <2>8, CycleMoves DEF PullStep
<1> QED  BY <1>1, <1>2

(* A pull that ends well, not for want of rounds, not over a transport     *)
(* that was kept from anything and not after a whole page that was known,  *)
(* has brought everything the peer held when it answered last: what        *)
(* _sync_from_peer reports as ok is caught up.                             *)
THEOREM PullsBringAll == SyncSpec => OkIsCaughtUp
<1>1. SyncInit => CatchInv
  BY IdleOK DEF SyncInit, CatchInv, CatchingUp
<1>2. SyncInv /\ CatchInv /\ [SyncNext]_syncVars => CatchInv'
  BY CatchStep
<1>3. SyncInv /\ CatchInv /\ [SyncNext]_syncVars =>
        [\A n \in Nodes :
           /\ pull[n].phase \in {"answered", "ingest"} /\ pull'[n] = Idle
           /\ pull[n].peer \notin cooling'[n]
           /\ pull[n].rounds + 1 < MaxRounds /\ pull[n].known < PageLimit
           /\ \A e \in pull[n].offered : ~Withheld(n, e)
           => pull[n].offered \subseteq Holds(n)]_syncVars
  <2> SUFFICES ASSUME SyncInv, CatchInv, SyncNext, NEW n \in Nodes,
                      pull[n].phase \in {"answered", "ingest"}, pull'[n] = Idle,
                      pull[n].peer \notin cooling'[n],
                      pull[n].rounds + 1 < MaxRounds, pull[n].known < PageLimit,
                      \A e \in pull[n].offered : ~Withheld(n, e)
               PROVE  pull[n].offered \subseteq Holds(n)
    OBVIOUS
  <2> DEFINE p == pull[n]
             page == p.events
  <2>0. /\ pull = [x \in Nodes |-> pull[x]] /\ PullOK(n, p)
        /\ cooling \in [Nodes -> SUBSET Nodes] /\ CatchingUp(n, p)
    BY DEF SyncInv, PullsOK, RestTyped, CatchInv
  <2>1. /\ page \in Seq(Nat)
        /\ Len(page) < PageLimit =>
             \A e \in p.offered : e \in Holds(n) \/ \E k \in DOMAIN page : page[k] = e
    BY <2>0 DEF CatchingUp, NothingWithheld
  <2>2. Idle.phase = "idle"
    BY IdleOK
  <2>3. ~Failure(n, p)
    BY <2>0 DEF Failure
  <2>4. NothingNew(n) \/ Ingested(n)
    <3>1. ~ForkReport(n)
      BY <2>0 DEF ForkReport
    <3>2. ~Reset(n)
      <4>1. ASSUME Reset(n) PROVE FALSE
        <5> DEFINE t == Turn(p.todo, p.peer)
        <5>1. pull'[n] = Again(p, p.rounds)
          BY <2>0, <4>1 DEF Reset
        <5>2. t \in Asking(p.todo, p.peer, 0) /\ Again(p, p.rounds) = [t EXCEPT !.rounds = p.rounds]
          BY TurnAsks DEF Again
        <5> HIDE DEF t, p
        <5>3. Again(p, p.rounds).phase = "ask"
          BY <5>2 DEF Asking
        <5> QED  BY <2>2, <5>1, <5>3
      <4> QED  BY <4>1
    <3>3. ~IngestStart(n)
      <4>1. ASSUME IngestStart(n) PROVE pull'[n].phase = "ingest"
        BY <2>0, <4>1 DEF IngestStart, PullOK, IsPull
      <4> QED  BY <2>2, <4>1
    <3>4. ~IngestOne(n)
      <4>1. ASSUME IngestOne(n) PROVE pull'[n].phase = "ingest"
        BY <2>0, <4>1 DEF IngestOne, PullOK, IsPull
      <4> QED  BY <2>2, <4>1
    <3>5. ~Begin(n) /\ ~NoAnswer(n) /\ ~Ask(n) /\ ~Answer(n)
      BY DEF Begin, NoAnswer, Ask, Answer
    <3>6. pull'[n] # pull[n]
      BY <2>2
    <3> QED  BY <3>1, <3>2, <3>3, <3>4, <3>5, <3>6, CycleMoves DEF PullStep
  <2>5. CASE NothingNew(n)
    <3>1. page = <<>> /\ Len(page) = 0 /\ DOMAIN page = {}
      BY <2>5 DEF NothingNew
    <3> QED  BY <2>1, <3>1, SyncAssumption
  <2>6. CASE Ingested(n)
    <3>1. /\ p.refused = 0 /\ LastRound(p) /\ p.phase = "ingest" /\ p.at > Len(page)
      <4>1. p.refused = 0 /\ p.phase = "ingest" /\ p.at > Len(page)
        BY <2>3, <2>6 DEF Ingested, WentWell
      <4>2. LastRound(p)
        <5>1. ASSUME ~LastRound(p) PROVE FALSE
          <6> DEFINE t == Turn(p.todo, p.peer)
                     r == p.rounds + 1
          <6>1. pull'[n] = Again(p, r)
            BY <2>0, <2>3, <2>6, <5>1 DEF Ingested
          <6>2. t \in Asking(p.todo, p.peer, 0) /\ Again(p, r) = [t EXCEPT !.rounds = r]
            BY TurnAsks DEF Again
          <6> HIDE DEF t, p, r
          <6>3. Again(p, r).phase = "ask"
            BY <6>2 DEF Asking
          <6> QED  BY <2>2, <6>1, <6>3
        <5> QED  BY <5>1
      <4> QED  BY <4>1, <4>2
    <3>2. /\ p.at \in Nat \ {0} /\ p.known \in Nat
          /\ \A k \in 1..(p.at - 1) : page[k] \in Holds(n)
      BY <2>0, <3>1 DEF CatchingUp
    <3>3. p.rounds + 1 # MaxRounds
      BY SyncAssumption
    <3>4. Len(page) \in Nat /\ DOMAIN page = 1..Len(page)
      BY <2>1
    <3>5. Len(page) < PageLimit
      BY <3>1, <3>2, <3>3, <3>4, SyncAssumption DEF LastRound
    <3>6. \A k \in DOMAIN page : k \in 1..(p.at - 1)
      BY <3>1, <3>2, <3>4
    <3> QED  BY <2>1, <3>2, <3>5, <3>6
  <2> QED  BY <2>4, <2>5, <2>6
<1>4. SyncSpec => []CatchInv
  BY <1>1, <1>2, SyncInvariant, PTL DEF SyncSpec
<1> QED  BY <1>3, <1>4, SyncInvariant, PTL DEF SyncSpec, OkIsCaughtUp

(***************************************************************************)
(* One writer, that pulls from nobody: its chain is the ledger.            *)
(***************************************************************************)

(* Node w has every event there is.                                        *)
HasAll(w) == EventIds \subseteq Holds(w)

(* If a node has every event, each chain is a first part of its chain.     *)
LEMMA AllTrail ==
  ASSUME HistoryInv, NEW w \in Nodes, HasAll(w)
  PROVE  FollowersTrail(w)
<1> SUFFICES ASSUME NEW n \in Nodes
             PROVE  /\ Len(chain[n]) <= Len(chain[w])
                    /\ \A i \in DOMAIN chain[n] : chain[n][i] = chain[w][i]
  BY DEF FollowersTrail
<1> DEFINE c == chain[n]
           d == chain[w]
<1>1. /\ c \in Seq(EventIds) /\ Len(c) \in Nat /\ DOMAIN c = 1..Len(c)
      /\ d \in Seq(EventIds) /\ Len(d) \in Nat /\ DOMAIN d = 1..Len(d)
  BY DEF HistoryInv
<1>2. CASE Len(c) = 0
  BY <1>1, <1>2
<1>3. CASE Len(c) # 0
  <2>1. Len(c) \in DOMAIN c /\ c[Len(c)] \in EventIds
    BY <1>1, <1>3
  <2>2. PICK j \in DOMAIN d : d[j] = c[Len(c)]
    BY <2>1 DEF HasAll, Holds
  <2>3. Len(c) = j /\ \A k \in 1..Len(c) : c[k] = d[k]
    BY <2>1, <2>2 DEF HistoryInv, OneHistory
  <2> QED  BY <1>1, <2>3
<1> QED  BY <1>2, <1>3

(* A node that is the only writer and has no peers to pull from has every  *)
(* event: nobody else makes one, and nothing makes it reset its chain.     *)
LEMMA WriterHasAll ==
  ASSUME NEW w \in Nodes, Writers = {w}, Peers[w] = {}
  PROVE  SyncSpec => []HasAll(w)
<1>1. SyncInit => HasAll(w)
  BY DEF SyncInit, HasAll, EventIds
<1>2. ASSUME SyncInv, HasAll(w), [SyncNext]_syncVars PROVE HasAll(w)'
  <2>1. CASE UNCHANGED syncVars
    BY <1>2, <2>1 DEF syncVars, HasAll, EventIds, Holds
  <2>2. ~Reset(w)
    BY <1>2 DEF SyncInv, PullsOK, PullOK, Asks, Reset
  <2>3. CASE \E k \in Kinds : Append1(w, k)
    <3>1. chain \in [Nodes -> Seq(EventIds)] /\ made \in Seq(Event)
      BY <1>2 DEF SyncInv, HistoryInv
    <3>2. /\ Len(made') = Len(made) + 1 /\ Len(made) \in Nat
          /\ chain'[w] = Append(chain[w], Len(made) + 1)
      BY <2>3, <3>1 DEF Append1
    <3>3. Holds(w) \cup {Len(made) + 1} \subseteq Holds(w)'
      <4>1. Holds(w) \subseteq Holds(w)'
        <5>1. \A i \in DOMAIN chain[w] : i \in DOMAIN chain'[w] /\ chain'[w][i] = chain[w][i]
          BY <3>1, <3>2
        <5> QED  BY <5>1 DEF Holds
      <4>2. Len(chain[w]) + 1 \in DOMAIN chain'[w]
            /\ chain'[w][Len(chain[w]) + 1] = Len(made) + 1
        BY <3>1, <3>2
      <4> QED  BY <4>1, <4>2 DEF Holds
    <3>4. EventIds' \subseteq EventIds \cup {Len(made) + 1}
      BY <3>2 DEF EventIds
    <3> QED  BY <1>2, <3>3, <3>4 DEF HasAll
  <2>4. CASE SyncNext /\ ~\E n \in Writers, k \in Kinds : Append1(n, k)
    <3>1. made' = made
      <4>1. ASSUME NEW n \in Nodes, \/ Begin(n) \/ PullStep(n) \/ NoAnswer(n)
                                    \/ \E m \in Nodes : CoolDown(n, m)
                                    \/ \E e \in EventIds : Pushed(n, e)
            PROVE  made' = made
        BY <4>1 DEF Begin, PullStep, NoAnswer, CoolDown, Pushed, Ask, Answer, Reset,
           ForkReport, NothingNew, IngestStart, IngestOne, Ingested
      <4> QED  BY <2>4, <4>1 DEF SyncNext, Age
    <3>2. Holds(w) \subseteq Holds(w)'
      BY <1>2, <2>2, <2>4, HoldsMore
    <3> QED  BY <1>2, <3>1, <3>2 DEF HasAll, EventIds
  <2> QED  BY <1>2, <2>1, <2>3, <2>4
<1> QED  BY <1>1, <1>2, SyncInvariant, PTL DEF SyncSpec

(* With one writer that pulls from nobody, every node's chain is at all    *)
(* times a first part of the writer's: pages, pushes out of order, resets  *)
(* and failures may hold a follower back but never lead it astray          *)
(* (ingest_events, _sync_from_peer).                                       *)
THEOREM NobodyStrays ==
  ASSUME NEW w \in Nodes, Writers = {w}, Peers[w] = {}
  PROVE  SyncSpec => []FollowersTrail(w)
<1>1. SyncInv /\ HasAll(w) => FollowersTrail(w)
  BY AllTrail DEF SyncInv
<1> QED  BY <1>1, SyncInvariant, WriterHasAll, PTL

(* And there, a follower empties its chain for one peer only: one that     *)
(* held nothing at all when it answered (_sync_from_peer takes the answer  *)
(* of an empty peer for that of a fork).                                   *)
THEOREM ResetOnlyForEmpty ==
  ASSUME NEW w \in Nodes, Writers = {w}, Peers[w] = {}
  PROVE  SyncSpec => [][\A n \in Nodes : chain[n] # <<>> /\ chain'[n] = <<>>
                            => pull[n].offered = {}]_syncVars
<1>1. SyncInv /\ HasAll(w) /\ [SyncNext]_syncVars =>
        [\A n \in Nodes : chain[n] # <<>> /\ chain'[n] = <<>>
            => pull[n].offered = {}]_syncVars
  <2> SUFFICES ASSUME SyncInv, HasAll(w), SyncNext, NEW n \in Nodes, chain[n] # <<>>,
                      chain'[n] = <<>>, pull[n].offered # {}
               PROVE  FALSE
    OBVIOUS
  <2>0. Holds(n) \cap pull[n].offered = {}
    BY EmptiedForForeign
  <2> DEFINE d == chain[w]
             S == {i \in DOMAIN d : d[i] \in pull[n].offered}
  <2>1. /\ chain[n] \in Seq(EventIds) /\ d \in Seq(EventIds) /\ Len(d) \in Nat
        /\ DOMAIN d = 1..Len(d) /\ FollowersTrail(w) /\ Whole(w)
        /\ OfferIsClosed(pull[n])
    BY AllTrail DEF SyncInv, HistoryInv, PullsOK, PullOK
  <2>2. S \in SUBSET Nat /\ S # {}
    <3>1. PICK e \in pull[n].offered : e \in EventIds
      BY <2>1 DEF OfferIsClosed
    <3>2. PICK i \in DOMAIN d : d[i] = e
      BY <3>1 DEF HasAll, Holds
    <3> QED  BY <2>1, <3>1, <3>2
  <2>3. PICK i \in S : \A j \in S : i <= j
    <3> HIDE DEF S
    <3> QED  BY <2>2, LeastOf
  <2>4. CASE i = 1
    <3>1. 1 \in DOMAIN chain[n] /\ chain[n][1] = d[1]
      BY <2>1 DEF FollowersTrail
    <3> QED  BY <2>0, <2>3, <2>4, <3>1 DEF Holds
  <2>5. CASE i # 1
    <3>1. i \in DOMAIN d /\ i - 1 \in DOMAIN d /\ made[d[i]].after = d[i - 1]
      BY <2>1, <2>3, <2>5 DEF Whole
    <3>2. i - 1 \in S
      BY <2>1, <2>3, <3>1, EventsArePlaces DEF OfferIsClosed, SyncInv, HistoryInv
    <3> QED  BY <2>1, <2>3, <3>1, <3>2
  <2> QED  BY <2>4, <2>5
<1> QED  BY <1>1, SyncInvariant, WriterHasAll, PTL DEF SyncSpec
================================================================================
