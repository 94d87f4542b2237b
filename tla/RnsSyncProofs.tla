----------------------------- MODULE RnsSyncProofs -----------------------------
(***************************************************************************)
(* What holds of RnsSync for any nodes, peers, windows and locks.          *)
(***************************************************************************)
EXTENDS RnsSync, FiniteSetTheorems, WellFoundedInduction, TLAPS

(***************************************************************************)
(* Rows of events.                                                         *)
(***************************************************************************)

RnsKinds == {"public", "private", "economy"}
Event == [after : Nat, kind : RnsKinds]

(* In the history h, each event of c extends the one before it; the first  *)
(* one extends p.                                                          *)
Row(h, p, c) == \A i \in DOMAIN c : h[c[i]].after = (IF i = 1 THEN p ELSE c[i - 1])

(* A set of numbers has a least one.                                       *)
LEMMA LeastOf ==
  ASSUME NEW S \in SUBSET Nat, S # {}
  PROVE  \E x \in S : \A y \in S : x <= y
<1> DEFINE R == OpToRel(<, Nat)
<1>1. IsWellFoundedOn(R, Nat)
  BY NatLessThanWellFounded
<1>2. \A x, y \in Nat : x < y => <<x, y>> \in R
  BY Zenon DEF OpToRel
<1> HIDE DEF R
<1>3. PICK x \in S : \A y \in S : ~ (<<y, x>> \in R)
  BY <1>1, WFMin
<1>4. ASSUME NEW y \in S PROVE x <= y
  <2>1. ~ (<<y, x>> \in R) /\ x \in Nat /\ y \in Nat
    BY <1>3
  <2>2. ~ (y < x)
    BY <1>2, <2>1
  <2> QED  BY <2>1, <2>2
<1> QED  BY <1>4

(* Two rows from genesis that share an event are alike up to it: a smallest*)
(* place at which they were not would have one before it.                  *)
LEMMA RowsAgree ==
  ASSUME NEW h, NEW c \in Seq(Nat \ {0}), NEW d \in Seq(Nat \ {0}),
         Row(h, Genesis, c), Row(h, Genesis, d),
         NEW i \in DOMAIN c, NEW j \in DOMAIN d, c[i] = d[j]
  PROVE  i = j /\ \A k \in 1..i : c[k] = d[k]
<1> DEFINE Alike(x, y) == x = y /\ \A k \in 1..x : c[k] = d[k]
           Bad == {x \in Nat : x \in DOMAIN c /\ \E y \in DOMAIN d : c[x] = d[y] /\ ~Alike(x, y)}
<1>1. DOMAIN c = 1..Len(c) /\ DOMAIN d = 1..Len(d) /\ Len(c) \in Nat /\ Len(d) \in Nat
  OBVIOUS
<1>2. i \in Nat
  BY <1>1
<1>3. SUFFICES ASSUME Bad # {} PROVE FALSE
  BY <1>2
<1>4. PICK x \in Bad : \A z \in Bad : x <= z
  <2>1. Bad \in SUBSET Nat
    OBVIOUS
  <2> HIDE DEF Bad
  <2> QED  BY <1>3, <2>1, LeastOf
<1>5. PICK y \in DOMAIN d : c[x] = d[y] /\ ~Alike(x, y)
  BY <1>4
<1>6. x \in DOMAIN c /\ x \in Nat \ {0} /\ y \in Nat \ {0}
  BY <1>1, <1>4
<1>7. (IF x = 1 THEN Genesis ELSE c[x - 1]) = (IF y = 1 THEN Genesis ELSE d[y - 1])
  <2>1. /\ h[c[x]].after = (IF x = 1 THEN Genesis ELSE c[x - 1])
        /\ h[d[y]].after = (IF y = 1 THEN Genesis ELSE d[y - 1])
    BY <1>6 DEF Row
  <2> QED  BY <1>5, <2>1
<1>8. /\ x # 1 => x - 1 \in DOMAIN c /\ c[x - 1] # Genesis /\ x - 1 \in Nat
      /\ y # 1 => y - 1 \in DOMAIN d /\ d[y - 1] # Genesis
  <2>1. x # 1 => x - 1 \in 1..Len(c)
    BY <1>1, <1>6
  <2>2. y # 1 => y - 1 \in 1..Len(d)
    BY <1>1, <1>6
  <2>3. \A k \in 1..Len(c) : c[k] \in Nat \ {0}
    BY <1>1
  <2>4. \A k \in 1..Len(d) : d[k] \in Nat \ {0}
    BY <1>1
  <2>5. x # 1 => c[x - 1] \in Nat \ {0} /\ x - 1 \in DOMAIN c /\ x - 1 \in Nat
    BY <1>1, <2>1, <2>3
  <2>6. y # 1 => d[y - 1] \in Nat \ {0} /\ y - 1 \in DOMAIN d
    BY <1>1, <2>2, <2>4
  <2> QED  BY <2>5, <2>6 DEF Genesis
<1>9. CASE x = 1
  <2>1. y = 1
    BY <1>7, <1>8, <1>9
  <2> QED  BY <1>5, <1>9, <2>1
<1>10. CASE x # 1
  <2>1. y # 1 /\ c[x - 1] = d[y - 1]
    BY <1>7, <1>8, <1>10
  <2>2. Alike(x - 1, y - 1)
    <3>1. x - 1 \notin Bad
      <4>1. ~(x <= x - 1)
        BY <1>6
      <4> HIDE DEF Bad
      <4> QED  BY <1>4, <4>1
    <3> QED  BY <1>8, <1>10, <2>1, <3>1
  <2>3. x = y
    BY <1>6, <2>2
  <2>4. \A k \in 1..x : k \in 1..(x - 1) \/ k = x
    BY <1>6
  <2> QED  BY <1>5, <2>2, <2>3, <2>4
<1> QED  BY <1>9, <1>10

(* The beginning of a row.                                                 *)
LEMMA Prefix ==
  ASSUME NEW T, NEW c \in Seq(T), NEW k \in 0..Len(c)
  PROVE  /\ SubSeq(c, 1, k) \in Seq(T) /\ Len(SubSeq(c, 1, k)) = k
         /\ \A i \in 1..k : SubSeq(c, 1, k)[i] = c[i]
         /\ \A h, p : Row(h, p, c) => Row(h, p, SubSeq(c, 1, k))
<1>1. /\ SubSeq(c, 1, k) \in Seq(T) /\ Len(SubSeq(c, 1, k)) = k
      /\ \A i \in 1..k : SubSeq(c, 1, k)[i] = c[i]
  <2>1. k \in Nat /\ k <= Len(c) /\ DOMAIN c = 1..Len(c) /\ \A i \in 1..k : c[i] \in T
    OBVIOUS
  <2> QED  BY <2>1
<1> DEFINE d == SubSeq(c, 1, k)
<1>2. DOMAIN d = 1..k /\ DOMAIN c = 1..Len(c) /\ k \in Nat /\ Len(c) \in Nat /\ k <= Len(c)
  BY <1>1
<1> HIDE DEF d
<1>3. ASSUME NEW h, NEW p, Row(h, p, c), NEW i \in DOMAIN d
      PROVE  h[d[i]].after = (IF i = 1 THEN p ELSE d[i - 1])
  <2>1. i \in 1..k /\ i \in DOMAIN c /\ d[i] = c[i]
    BY <1>1, <1>2 DEF d
  <2>2. i # 1 => i - 1 \in 1..k /\ d[i - 1] = c[i - 1]
    BY <1>1, <1>2, <2>1 DEF d
  <2> QED  BY <1>3, <2>1, <2>2 DEF Row
<1> QED  BY <1>1, <1>3 DEF Row, d

(* One sequence put after another.                                         *)
LEMMA Joined ==
  ASSUME NEW T, NEW c \in Seq(T), NEW d \in Seq(T)
  PROVE  /\ c \o d \in Seq(T) /\ Len(c \o d) = Len(c) + Len(d)
         /\ \A i \in 1..Len(c) : (c \o d)[i] = c[i]
         /\ \A i \in 1..Len(d) : (c \o d)[Len(c) + i] = d[i]
  OBVIOUS

(* A row put after another, whose last event it extends.                   *)
LEMMA JoinedRow ==
  ASSUME NEW T, NEW c \in Seq(T), NEW d \in Seq(T), NEW h, NEW p,
         Row(h, p, c), Row(h, IF c = <<>> THEN p ELSE c[Len(c)], d)
  PROVE  Row(h, p, c \o d)
<1>1. /\ c \o d \in Seq(T) /\ Len(c \o d) = Len(c) + Len(d)
      /\ \A i \in 1..Len(c) : (c \o d)[i] = c[i]
      /\ \A i \in 1..Len(d) : (c \o d)[Len(c) + i] = d[i]
  BY Joined
<1> DEFINE e == c \o d
<1>2. /\ DOMAIN e = 1..(Len(c) + Len(d)) /\ DOMAIN c = 1..Len(c) /\ DOMAIN d = 1..Len(d)
      /\ Len(c) \in Nat /\ Len(d) \in Nat /\ (c = <<>> <=> Len(c) = 0)
  BY <1>1
<1> HIDE DEF e
<1>3. ASSUME NEW i \in DOMAIN e
      PROVE  h[e[i]].after = (IF i = 1 THEN p ELSE e[i - 1])
  <2>1. CASE i \in 1..Len(c)
    <3>1. i \in DOMAIN c /\ e[i] = c[i] /\ (i # 1 => e[i - 1] = c[i - 1])
      BY <1>1, <1>2, <2>1 DEF e
    <3> QED  BY <3>1 DEF Row
  <2>2. CASE i \notin 1..Len(c)
    <3> DEFINE k == i - Len(c)
    <3>1. k \in DOMAIN d /\ i = Len(c) + k
      BY <1>2, <2>2
    <3>2. e[i] = d[k]
      BY <1>1, <1>2, <3>1 DEF e
    <3>3. CASE k = 1
      <4>1. h[e[i]].after = (IF c = <<>> THEN p ELSE c[Len(c)])
        BY <3>1, <3>2, <3>3 DEF Row
      <4>2. CASE Len(c) = 0
        BY <1>2, <3>1, <3>3, <4>1, <4>2
      <4>3. CASE Len(c) # 0
        <5>1. i = Len(c) + 1 /\ Len(c) \in Nat \ {0}
          BY <1>2, <3>1, <3>3, <4>3
        <5>2. i # 1 /\ i - 1 = Len(c) /\ Len(c) \in 1..Len(c)
          BY <5>1
        <5>3. e[i - 1] = c[Len(c)]
          BY <1>1, <5>2 DEF e
        <5> QED  BY <1>2, <4>1, <4>3, <5>2, <5>3
      <4> QED  BY <4>2, <4>3
    <3>4. CASE k # 1
      <4>1. k - 1 \in 1..Len(d) /\ i - 1 = Len(c) + (k - 1) /\ i # 1
        BY <1>2, <3>1, <3>4
      <4>2. e[i - 1] = d[k - 1]
        BY <1>1, <4>1 DEF e
      <4>3. h[d[k]].after = d[k - 1]
        BY <3>1, <3>4 DEF Row
      <4> QED  BY <3>2, <4>1, <4>2, <4>3
    <3> QED  BY <3>3, <3>4
  <2> QED  BY <2>1, <2>2
<1> QED  BY <1>3 DEF Row, e

(* Two rows from genesis that end with the same event are the same.        *)
LEMMA OneChain ==
  ASSUME NEW h, NEW c \in Seq(Nat \ {0}), NEW d \in Seq(Nat \ {0}),
         Row(h, Genesis, c), Row(h, Genesis, d), c # <<>>, d # <<>>,
         Head0(c) = Head0(d)
  PROVE  c = d
<1>1. /\ Len(c) \in DOMAIN c /\ Len(d) \in DOMAIN d /\ c[Len(c)] = d[Len(d)]
      /\ DOMAIN c = 1..Len(c) /\ DOMAIN d = 1..Len(d)
  BY DEF Head0
<1> DEFINE i == Len(c)  j == Len(d)
<1>2. i \in DOMAIN c /\ j \in DOMAIN d /\ c[i] = d[j]
  BY <1>1
<1> HIDE DEF i, j
<1>3. i = j /\ \A k \in 1..i : c[k] = d[k]
  BY <1>2, RowsAgree
<1> QED  BY <1>1, <1>3 DEF i, j

(***************************************************************************)
(* The chains.                                                             *)
(***************************************************************************)

HistoryInv ==
  /\ made \in Seq(Event)
  /\ chain \in [Nodes -> Seq(EventIds)]
  /\ \A n \in Nodes : Row(made, Genesis, chain[n])

(* No step but a fork gives an event up.                                   *)
Grown == \A n \in Nodes : Extends(chain[n], chain'[n])

(* No event has the place of genesis.                                      *)
LEMMA EventsArePlaces ==
  ASSUME made \in Seq(Event)
  PROVE  /\ EventIds \subseteq Nat \ {0} /\ IsFiniteSet(EventIds)
         /\ \A c \in Seq(EventIds) : c \in Seq(Nat \ {0})
<1>1. EventIds \subseteq Nat \ {0} /\ IsFiniteSet(EventIds)
  BY FS_Interval DEF EventIds
<1> DEFINE T == EventIds  U == Nat \ {0}
<1>2. T \subseteq U
  BY <1>1
<1> HIDE DEF T, U
<1>3. \A c \in Seq(T) : c \in Seq(U)
  BY <1>2
<1> QED  BY <1>1, <1>3 DEF T, U

(* The events S in a row (_order_chain_from).                              *)
LEMMA LinksAreRows ==
  ASSUME made \in Seq(Event), NEW S \in SUBSET EventIds, NEW p, NEW q \in Links(p, S)
  PROVE  /\ q \in Seq(EventIds) /\ Len(q) = Cardinality(S) /\ Row(made, p, q)
         /\ \A i \in DOMAIN q : q[i] \in S
<1>1. Cardinality(S) \in Nat
  BY EventsArePlaces, FS_Subset, FS_CardinalityType
<1>2. q \in [1..Cardinality(S) -> S] /\ Row(made, p, q)
  BY DEF Links, Row
<1> DEFINE k == Cardinality(S)  T == EventIds
<1>3. k \in Nat /\ S \subseteq T /\ q \in [1..k -> S]
  BY <1>1, <1>2
<1> HIDE DEF k, T
<1>4. q \in Seq(T) /\ Len(q) = k /\ \A i \in DOMAIN q : q[i] \in S
  BY <1>3
<1> QED  BY <1>2, <1>4 DEF k, T

(* Nothing happens to the chains.                                          *)
LEMMA StillKeeps ==
  ASSUME HistoryInv, made' = made, chain' = chain
  PROVE  HistoryInv' /\ Grown
<1>1. HistoryInv'
  BY DEF HistoryInv, EventIds
<1>2. Grown
  BY DEF HistoryInv, Grown, Extends
<1> QED  BY <1>1, <1>2

(* A row is put after the chain of n.                                      *)
LEMMA ExtendKeeps ==
  ASSUME HistoryInv, made' = made, NEW n \in Nodes, NEW d \in Seq(EventIds),
         Row(made, Head0(chain[n]), d), chain' = [chain EXCEPT ![n] = @ \o d]
  PROVE  HistoryInv' /\ Grown
<1> DEFINE T == EventIds  c == chain[n]
<1>1. c \in Seq(T) /\ d \in Seq(T) /\ Row(made, Genesis, c)
  BY DEF HistoryInv
<1>2. Head0(c) = (IF c = <<>> THEN Genesis ELSE c[Len(c)])
  BY DEF Head0
<1>3. c \o d \in Seq(T) /\ Row(made, Genesis, c \o d)
  BY <1>1, <1>2, Joined, JoinedRow
<1>4. chain'[n] = c \o d /\ \A m \in Nodes : m # n => chain'[m] = chain[m]
  BY DEF HistoryInv
<1>5. chain' \in [Nodes -> Seq(EventIds)]
  BY <1>3 DEF HistoryInv
<1>6. HistoryInv'
  <2>1. EventIds' = EventIds
    BY DEF EventIds
  <2>2. \A m \in Nodes : Row(made, Genesis, chain'[m])
    BY <1>3, <1>4 DEF HistoryInv
  <2> QED  BY <1>5, <2>1, <2>2 DEF HistoryInv
<1>7. Extends(c, c \o d)
  <2>1. /\ Len(c \o d) = Len(c) + Len(d) /\ \A i \in 1..Len(c) : (c \o d)[i] = c[i]
        /\ DOMAIN c = 1..Len(c) /\ Len(c) \in Nat /\ Len(d) \in Nat
    BY <1>1, Joined
  <2> QED  BY <2>1 DEF Extends
<1>8. \A m \in Nodes : m # n => Extends(chain[m], chain'[m])
  BY <1>4 DEF HistoryInv, Extends
<1> QED  BY <1>4, <1>6, <1>7, <1>8 DEF Grown

(* Events are taken in at the head (_ingest_ordered).                      *)
LEMMA IngestKeeps ==
  ASSUME HistoryInv, made' = made, NEW n \in Nodes, NEW S \in SUBSET EventIds, Ingest(n, S)
  PROVE  HistoryInv' /\ Grown
<1>1. PICK q \in Walks(n, S) : \E k \in 0..Len(q) :
         chain' = [chain EXCEPT ![n] = @ \o SubSeq(q, 1, k)]
  BY DEF Ingest
<1>2. PICK T \in SUBSET S : q \in Links(Head0(chain[n]), T)
  BY DEF Walks
<1>3. q \in Seq(EventIds) /\ Row(made, Head0(chain[n]), q)
  BY <1>2, LinksAreRows DEF HistoryInv
<1>4. PICK k \in 0..Len(q) : chain' = [chain EXCEPT ![n] = @ \o SubSeq(q, 1, k)]
  BY <1>1
<1> DEFINE d == SubSeq(q, 1, k)
<1>5. d \in Seq(EventIds) /\ Row(made, Head0(chain[n]), d)
  BY <1>3, Prefix
<1> HIDE DEF d
<1>6. chain' = [chain EXCEPT ![n] = @ \o d]
  BY <1>4 DEF d
<1> QED  BY <1>5, <1>6, ExtendKeeps

(* The end of the chain of n is given up for a fork (apply_fork), or not.  *)
LEMMA ForkKeeps ==
  ASSUME HistoryInv, made' = made, NEW n \in Nodes, NEW S \in SUBSET EventIds,
         NEW first, NEW head, NEW count, ApplyFork(n, S, first, head, count)
  PROVE  /\ HistoryInv'
         /\ \A m \in Nodes \ {n} : chain'[m] = chain[m]
         /\ \/ chain' = chain
            \/ /\ count >= 2 /\ Len(chain'[n]) > Len(chain[n])
               /\ Head0(chain'[n]) = head
<1>1. CASE chain' = chain
  BY <1>1, StillKeeps
<1>2. CASE \E q \in Forks(n, S, first, head, count) :
             chain' = [chain EXCEPT ![n] = SubSeq(@, 1, Ancestor(n, first)) \o q]
  <2> DEFINE T == EventIds  c == chain[n]  a == Ancestor(n, first)  p == made[first].after
             b == SubSeq(c, 1, a)
  <2>1. PICK q \in Forks(n, S, first, head, count) :
           chain' = [chain EXCEPT ![n] = SubSeq(@, 1, Ancestor(n, first)) \o q]
    BY <1>2
  <2>2. /\ q \in Links(p, S) /\ count >= 2 /\ p \in Holds(n) /\ Len(q) > Len(c) - a
        /\ Head0(q) = head
    BY DEF Forks
  <2>3. a \in DOMAIN c /\ c[a] = p
    BY <2>2 DEF Ancestor, Place, Holds
  <2>4. /\ c \in Seq(T) /\ Row(made, Genesis, c) /\ q \in Seq(T) /\ Row(made, p, q)
        /\ DOMAIN c = 1..Len(c) /\ Len(c) \in Nat /\ Len(q) \in Nat
    <3>1. /\ c \in Seq(EventIds) /\ Row(made, Genesis, c)
      BY DEF HistoryInv
    <3>2. q \in Seq(EventIds) /\ Row(made, p, q)
      BY <2>2, LinksAreRows DEF HistoryInv
    <3> HIDE DEF c, p
    <3> QED  BY <3>1, <3>2
  <2>5. chain' = [chain EXCEPT ![n] = b \o q]
    BY <2>1
  <2> HIDE DEF T, a, p, c
  <2>6. a \in 1..Len(c) /\ a \in 0..Len(c) /\ Len(c) \in Nat /\ a \in Nat
    BY <2>3, <2>4
  <2>7. b \in Seq(T) /\ Len(b) = a /\ b[a] = c[a] /\ Row(made, Genesis, b)
    <3>1. /\ b \in Seq(T) /\ Len(b) = a /\ \A i \in 1..a : b[i] = c[i]
          /\ Row(made, Genesis, c) => Row(made, Genesis, b)
      BY <2>4, <2>6, Prefix
    <3>2. a \in 1..a
      BY <2>6
    <3> QED  BY <2>4, <3>1, <3>2
  <2> HIDE DEF b
  <2>8. b # <<>> /\ b[Len(b)] = p
    BY <2>3, <2>6, <2>7
  <2>9. Row(made, Genesis, b \o q)
    <3>1. (IF b = <<>> THEN Genesis ELSE b[Len(b)]) = p
      BY <2>8
    <3> QED  BY <2>4, <2>7, <3>1, JoinedRow
  <2>10. /\ b \o q \in Seq(T) /\ Len(b \o q) = a + Len(q)
         /\ \A i \in 1..Len(q) : (b \o q)[a + i] = q[i]
    <3>1. /\ b \o q \in Seq(T) /\ Len(b \o q) = Len(b) + Len(q)
          /\ \A i \in 1..Len(q) : (b \o q)[Len(b) + i] = q[i]
      <4>1. b \in Seq(T) /\ q \in Seq(T)
        BY <2>4, <2>7
      <4> QED  BY <4>1, Joined
    <3> QED  BY <2>7, <3>1
  <2>11. Len(q) # 0 /\ Len(b \o q) > Len(c) /\ Head0(b \o q) = head
    <3>1. Len(q) # 0 /\ Len(b \o q) > Len(c)
      BY <2>2, <2>4, <2>6, <2>10
    <3>2. q # <<>> /\ b \o q # <<>> /\ Len(q) \in 1..Len(q)
      BY <2>4, <2>6, <2>10, <3>1
    <3> QED  BY <2>2, <2>10, <3>1, <3>2 DEF Head0
  <2>12. chain'[n] = b \o q /\ \A m \in Nodes \ {n} : chain'[m] = chain[m]
    BY <2>5 DEF HistoryInv
  <2>13. HistoryInv'
    <3>1. EventIds' = EventIds
      BY DEF EventIds
    <3>2. chain' \in [Nodes -> Seq(EventIds)]
      BY <2>5, <2>10 DEF HistoryInv, T
    <3>3. \A m \in Nodes : Row(made, Genesis, chain'[m])
      BY <2>9, <2>12 DEF HistoryInv
    <3> QED  BY <3>1, <3>2, <3>3 DEF HistoryInv
  <2> QED  BY <2>2, <2>11, <2>12, <2>13 DEF c
<1> QED  BY <1>1, <1>2 DEF ApplyFork

(***************************************************************************)
(* Messages, and the answers of a round.                                   *)
(***************************************************************************)

(* A peer's part in a round: its question, or the answer it works on.      *)
Query(x) == x.type \in {"init", "draft", "delta"}

(* The head of an answer is that of a whole chain.                         *)
HeadOK(x) == x.type = "delta" => Row(made, Genesis, x.had)

NetInv ==
  /\ net \subseteq Message
  /\ \A x \in net : HeadOK(x) /\ (Query(x) => x.m \in Asks[x.n])
  /\ \A x, y \in net : Query(x) /\ Query(y) /\ x.n = y.n /\ x.m = y.m => x = y

(* The answers of a round are of different peers.                          *)
ToldOK(n, told) ==
  \A i \in DOMAIN told :
     /\ told[i].type = "delta" /\ told[i].n = n /\ told[i].m \in Asks[n] /\ HeadOK(told[i])
     /\ \A j \in DOMAIN told : told[i].m = told[j].m => i = j

RoundInv ==
  /\ round \in [Nodes -> [open : BOOLEAN, told : Seq(Message)]]
  /\ \A n \in Nodes : ToldOK(n, round[n].told)

(* Who has answered has nothing of this round under way.                   *)
Awaits(n, told, x) == Query(x) /\ x.n = n => \A i \in DOMAIN told : told[i].m # x.m
AwaitInv == \A n \in Nodes, x \in net : Awaits(n, round[n].told, x)

RestInv == pull = [n \in Nodes |-> Idle] /\ lost \in 0..MaxLost

RnsInv == HistoryInv /\ NetInv /\ RoundInv /\ AwaitInv /\ RestInv

(* A message x is replaced by E, at most one message about the same round. *)
LEMMA NetKeeps ==
  ASSUME NetInv, made' = made, NEW x \in net, NEW E, net' = (net \ {x}) \cup E,
         \A y \in E : /\ y \in Message /\ HeadOK(y)
                      /\ Query(y) => Query(x) /\ y.n = x.n /\ y.m = x.m,
         \A y, z \in E : y = z
  PROVE  /\ NetInv'
         /\ round' = round /\ AwaitInv => AwaitInv'
         /\ \A n \in Nodes : \A told :
               (\A y \in net \ {x} : Awaits(n, told, y)) /\ (\A y \in E : ~Query(y))
                 => \A y \in net' : Awaits(n, told, y)
<1>1. Message' = Message /\ \A y : HeadOK(y)' <=> HeadOK(y)
  BY DEF Message, EventIds, HeadOK
<1>2. ASSUME NEW y \in net' PROVE y \in Message /\ HeadOK(y) /\ (Query(y) => y.m \in Asks[y.n])
  BY <1>2 DEF NetInv
<1>3. ASSUME NEW y \in net', NEW z \in net', Query(y), Query(z), y.n = z.n, y.m = z.m
      PROVE  y = z
  BY <1>3 DEF NetInv
<1>4. NetInv'
  BY <1>1, <1>2, <1>3 DEF NetInv, Query
<1>5. ASSUME round' = round, AwaitInv PROVE AwaitInv'
  <2> SUFFICES ASSUME NEW n \in Nodes, NEW y \in net', Query(y), y.n = n,
                      NEW i \in DOMAIN round[n].told
               PROVE  round[n].told[i].m # y.m
    BY <1>5 DEF AwaitInv, Awaits, Query
  <2>1. CASE y \in net
    BY <1>5, <2>1 DEF AwaitInv, Awaits
  <2>2. CASE y \in E
    BY <1>5, <2>2 DEF AwaitInv, Awaits
  <2> QED  BY <2>1, <2>2
<1>6. ASSUME NEW n \in Nodes, NEW told, \A y \in net \ {x} : Awaits(n, told, y),
             \A y \in E : ~Query(y), NEW y \in net'
      PROVE  Awaits(n, told, y)
  BY <1>6 DEF Awaits
<1> QED  BY <1>4, <1>5, <1>6

(* Rounds stay as they are.                                                *)
LEMMA RoundsStay ==
  ASSUME RoundInv, made' = made, round' = round
  PROVE  RoundInv'
  BY DEF RoundInv, ToldOK, HeadOK, Message, EventIds

(* The round of n has other answers.                                       *)
LEMMA RoundTurns ==
  ASSUME RoundInv, made' = made, NEW n \in Nodes,
         NEW r \in [open : BOOLEAN, told : Seq(Message)], ToldOK(n, r.told),
         round' = [round EXCEPT ![n] = r]
  PROVE  RoundInv'
<1>1. Message' = Message /\ \A m, told : ToldOK(m, told)' <=> ToldOK(m, told)
  BY DEF Message, EventIds, ToldOK, HeadOK
<1>2. \A m \in Nodes : round'[m] = IF m = n THEN r ELSE round[m]
  BY DEF RoundInv
<1>3. round' \in [Nodes -> [open : BOOLEAN, told : Seq(Message)]]
  BY DEF RoundInv
<1>4. \A m \in Nodes : ToldOK(m, round'[m].told)
  BY <1>2 DEF RoundInv
<1> QED  BY <1>1, <1>3, <1>4 DEF RoundInv

(* No answers.                                                             *)
LEMMA EmptyRounds ==
  /\ NoRound \in [open : BOOLEAN, told : Seq(Message)]
  /\ NewRound \in [open : BOOLEAN, told : Seq(Message)]
  /\ \A n : /\ ToldOK(n, NoRound.told) /\ ToldOK(n, NewRound.told)
            /\ \A x : Awaits(n, NoRound.told, x) /\ Awaits(n, NewRound.told, x)
<1>1. \A T : <<>> \in Seq(T)
  OBVIOUS
<1> QED  BY <1>1 DEF NoRound, NewRound, ToldOK, Awaits

(* One event more is made; messages and rounds stay as they are.           *)
LEMMA MadeGrows ==
  ASSUME HistoryInv, NetInv, RoundInv, AwaitInv, NEW e \in Event,
         made' = Append(made, e), round' = round, net' = net
  PROVE  NetInv' /\ RoundInv' /\ AwaitInv'
<1>1. /\ EventIds \subseteq EventIds' /\ \A i \in EventIds : made'[i] = made[i]
  BY DEF HistoryInv, EventIds
<1>2. ASSUME NEW c \in Seq(EventIds)
      PROVE  c \in Seq(EventIds') /\ (Row(made, Genesis, c) => Row(made', Genesis, c))
  <2> DEFINE T == EventIds  U == EventIds'
  <2>1. T \subseteq U /\ c \in Seq(T)
    BY <1>1
  <2> HIDE DEF T, U
  <2>2. c \in Seq(U) /\ \A i \in DOMAIN c : c[i] \in T
    BY <2>1
  <2> QED  BY <1>1, <2>2 DEF T, U, Row
<1>3. Message \subseteq Message'
  <2> SUFFICES ASSUME NEW x \in Message PROVE x \in Message'
    OBVIOUS
  <2>1. x \in [type : {"init", "draft", "delta", "events"}, n : Nodes, m : Nodes,
               has : SUBSET EventIds', first : EventIds' \cup {Genesis},
               wants : SUBSET EventIds', had : Seq(EventIds')]
    BY <1>1, <1>2 DEF Message
  <2> QED  BY <2>1 DEF Message
<1>4. \A x \in Message : HeadOK(x) => HeadOK(x)'
  BY <1>2 DEF Message, HeadOK
<1>5. NetInv'
  BY <1>3, <1>4 DEF NetInv, Query
<1>6. ASSUME NEW n \in Nodes PROVE /\ round[n] \in [open : BOOLEAN, told : Seq(Message')]
                                   /\ ToldOK(n, round[n].told)'
  <2> DEFINE T == Message  U == Message'  told == round[n].told
  <2>1. T \subseteq U /\ told \in Seq(T) /\ round[n] \in [open : BOOLEAN, told : Seq(T)]
    BY <1>3 DEF RoundInv
  <2>2. ToldOK(n, told)
    BY DEF RoundInv
  <2> HIDE DEF T, U
  <2>3. told \in Seq(U) /\ \A i \in DOMAIN told : told[i] \in T
    <3> HIDE DEF told
    <3> QED  BY <2>1
  <2>4. round[n] \in [open : BOOLEAN, told : Seq(U)]
    BY <2>1, <2>3
  <2>5. ToldOK(n, told)'
    BY <1>4, <2>2, <2>3 DEF ToldOK, T
  <2> QED  BY <2>4, <2>5 DEF U
<1>7. RoundInv'
  BY <1>6 DEF RoundInv
<1>8. AwaitInv'
  BY DEF AwaitInv, Awaits, Query
<1> QED  BY <1>5, <1>7, <1>8

(***************************************************************************)
(* The steps.                                                              *)
(***************************************************************************)

(* A message of explicit parts.                                            *)
LEMMA MsgParts ==
  ASSUME NEW t \in {"init", "events"}, NEW n \in Nodes, NEW m \in Nodes,
         NEW S \in SUBSET EventIds
  PROVE  /\ Msg(t, n, m, S) \in Message /\ HeadOK(Msg(t, n, m, S))
         /\ Msg(t, n, m, S).type = t /\ Msg(t, n, m, S).n = n /\ Msg(t, n, m, S).m = m
<1>1. <<>> \in Seq(EventIds) /\ {} \in SUBSET EventIds
  OBVIOUS
<1> QED  BY <1>1 DEF Msg, Message, HeadOK

(* What a node lists are events.                                           *)
LEMMA DigestsAreEvents ==
  ASSUME HistoryInv, NEW n \in Nodes
  PROVE  Digest(n) \in SUBSET EventIds
<1>1. \A i \in DOMAIN chain[n] : chain[n][i] \in EventIds
  BY DEF HistoryInv
<1> QED  BY <1>1 DEF Digest, Open

(* The answers of a bucket bring events.                                   *)
LEMMA MergedAreEvents ==
  ASSUME NEW told \in Seq(Message), NEW B, B \subseteq DOMAIN told
  PROVE  Merged(told, B) \in SUBSET EventIds
<1>1. \A i \in B : told[i] \in Message
  OBVIOUS
<1>2. \A i \in B : told[i].has \in SUBSET EventIds
  BY <1>1 DEF Message
<1> QED  BY <1>2 DEF Merged

(* What a round without a majority brings is taken in at the head.         *)
LEMMA FallbackKeeps ==
  ASSUME HistoryInv, made' = made, NEW n \in Nodes, NEW told \in Seq(Message),
         Fallback(n, told)
  PROVE  HistoryInv' /\ Grown
<1>1. CASE told = <<>>
  BY <1>1, StillKeeps DEF Fallback
<1>2. CASE told # <<>>
  <2>1. Largest(told) \subseteq DOMAIN told
    BY DEF Largest, Bucket
  <2>2. Merged(told, Largest(told)) \in SUBSET EventIds
    BY <2>1, MergedAreEvents
  <2> QED  BY <1>2, <2>2, IngestKeeps DEF Fallback
<1> QED  BY <1>1, <1>2

(* The wishes in an answer are met; the answer is gone.                    *)
LEMMA DoneKeeps ==
  ASSUME RnsInv, made' = made, NEW x \in net, x.type = "delta", Done(x)
  PROVE  /\ NetInv' /\ x \notin net'
         /\ round' = round => AwaitInv'
         /\ \A n \in Nodes : \A told :
               (\A y \in net \ {x} : Awaits(n, told, y)) => \A y \in net' : Awaits(n, told, y)
<1> DEFINE S == Open({e \in x.wants : \E i \in DOMAIN chain'[x.n] : chain'[x.n][i] = e})
           E == IF S = {} THEN {} ELSE {Msg("events", x.n, x.m, S)}
<1>1. x \in Message /\ x.n \in Nodes /\ x.m \in Nodes /\ x.wants \in SUBSET EventIds
  BY DEF RnsInv, NetInv, Message
<1>2. S \in SUBSET EventIds
  BY <1>1 DEF Open
<1>3. net' = (net \ {x}) \cup E
  BY DEF Done
<1> HIDE DEF S
<1>4. \A y \in E : y \in Message /\ HeadOK(y) /\ y.type = "events" /\ ~Query(y) /\ y # x
  BY <1>1, <1>2, MsgParts DEF Query
<1>5. \A y, z \in E : y = z
  OBVIOUS
<1> HIDE DEF E
<1> QED  BY <1>3, <1>4, <1>5, NetKeeps DEF RnsInv

(* A user of a node appends an event.                                      *)
LEMMA AppendKeeps ==
  ASSUME RnsInv, NEW w \in RnsWriters, Append1(w[1], w[2]), UNCHANGED roundVars
  PROVE  RnsInv' /\ Grown
<1> DEFINE n == w[1]  e == [after |-> Head0(chain[n]), kind |-> w[2]]  k == Len(made) + 1
<1>1. n \in Nodes /\ w[2] \in RnsKinds
  BY RnsAssumption DEF RnsKinds
<1>2. Head0(chain[n]) \in Nat
  <2>1. chain[n] \in Seq(Nat \ {0})
    BY <1>1, EventsArePlaces DEF RnsInv, HistoryInv
  <2> QED  BY <2>1 DEF Head0, Genesis
<1>3. e \in Event
  BY <1>1, <1>2 DEF Event
<1>4. made' = Append(made, e) /\ chain' = [chain EXCEPT ![n] = Append(@, k)]
      /\ round' = round /\ net' = net /\ lost' = lost /\ pull' = pull
  BY DEF Append1, roundVars
<1> HIDE DEF e
<1>5. NetInv' /\ RoundInv' /\ AwaitInv'
  BY <1>3, <1>4, MadeGrows DEF RnsInv
<1>6. /\ made' \in Seq(Event) /\ EventIds \subseteq EventIds' /\ k \in EventIds'
      /\ k \notin EventIds /\ made'[k] = e /\ \A i \in EventIds : made'[i] = made[i]
  BY <1>3, <1>4 DEF RnsInv, HistoryInv, EventIds
<1>7. ASSUME NEW m \in Nodes
      PROVE  /\ chain[m] \in Seq(EventIds') /\ Row(made', Genesis, chain[m])
  <2> DEFINE T == EventIds  U == EventIds'  c == chain[m]
  <2>1. T \subseteq U /\ c \in Seq(T) /\ Row(made, Genesis, c)
    BY <1>6 DEF RnsInv, HistoryInv
  <2> HIDE DEF T, U, c
  <2>2. c \in Seq(U) /\ \A i \in DOMAIN c : c[i] \in T
    BY <2>1
  <2> QED  BY <1>6, <2>1, <2>2 DEF T, U, c, Row
<1>8. ASSUME NEW c \in Seq(EventIds'), c = chain[n]
      PROVE  /\ Append(c, k) \in Seq(EventIds') /\ Row(made', Genesis, Append(c, k))
             /\ Extends(c, Append(c, k))
  <2> DEFINE U == EventIds'  d == Append(c, k)
  <2>1. c \in Seq(U) /\ k \in U
    BY <1>6, <1>8
  <2> HIDE DEF U, k
  <2>2. /\ d \in Seq(U) /\ Len(d) = Len(c) + 1 /\ d[Len(c) + 1] = k
        /\ \A i \in 1..Len(c) : d[i] = c[i]
        /\ DOMAIN c = 1..Len(c) /\ Len(c) \in Nat /\ DOMAIN d = 1..(Len(c) + 1)
        /\ (c = <<>> <=> Len(c) = 0)
    BY <2>1
  <2> HIDE DEF d
  <2>3. Extends(c, d)
    BY <2>2 DEF Extends
  <2>4. ASSUME NEW i \in DOMAIN d
        PROVE  made'[d[i]].after = (IF i = 1 THEN Genesis ELSE d[i - 1])
    <3>1. CASE i \in 1..Len(c)
      <4>1. i \in DOMAIN c /\ d[i] = c[i] /\ (i # 1 => d[i - 1] = c[i - 1])
        BY <2>2, <3>1
      <4> QED  BY <1>1, <1>7, <1>8, <4>1 DEF Row
    <3>2. CASE i = Len(c) + 1
      <4>1. made'[d[i]].after = Head0(c)
        BY <1>6, <1>8, <2>2, <3>2 DEF e
      <4>2. Len(c) # 0 => i # 1 /\ i - 1 = Len(c) /\ d[i - 1] = c[Len(c)]
        BY <2>2, <3>2
      <4> QED  BY <2>2, <3>2, <4>1, <4>2 DEF Head0
    <3> QED  BY <2>2, <3>1, <3>2
  <2> QED  BY <2>2, <2>3, <2>4 DEF Row, d, U
<1> HIDE DEF k
<1>9. /\ chain'[n] = Append(chain[n], k) /\ \A m \in Nodes : m # n => chain'[m] = chain[m]
  BY <1>1, <1>4 DEF RnsInv, HistoryInv
<1>10. HistoryInv'
  <2>1. chain' \in [Nodes -> Seq(EventIds')]
    <3> DEFINE U == Seq(EventIds')
    <3>1. (\A m \in Nodes : chain[m] \in U) /\ Append(chain[n], k) \in U
      BY <1>1, <1>7, <1>8
    <3> HIDE DEF U
    <3>2. chain \in [Nodes -> U]
      BY <3>1 DEF RnsInv, HistoryInv
    <3>3. chain' \in [Nodes -> U]
      BY <1>4, <3>1, <3>2
    <3> QED  BY <3>3 DEF U
  <2>2. \A m \in Nodes : Row(made', Genesis, chain'[m])
    BY <1>1, <1>7, <1>8, <1>9
  <2> QED  BY <1>6, <2>1, <2>2 DEF HistoryInv
<1>11. Grown
  <2>1. \A m \in Nodes : m # n => Extends(chain[m], chain'[m])
    BY <1>9 DEF RnsInv, HistoryInv, Extends
  <2> QED  BY <1>1, <1>7, <1>8, <1>9, <2>1 DEF Grown
<1>12. RestInv'
  BY <1>4 DEF RnsInv, RestInv
<1> QED  BY <1>5, <1>10, <1>11, <1>12 DEF RnsInv

(* An event is pushed to n.                                                *)
LEMMA PushKeeps ==
  ASSUME RnsInv, NEW n \in Nodes, NEW e \in EventIds, Pushed(n, e), UNCHANGED roundVars
  PROVE  RnsInv' /\ Grown
<1>1. /\ made' = made /\ made[e].after = Head0(chain[n]) /\ round' = round /\ net' = net
      /\ lost' = lost /\ pull' = pull /\ chain' = [chain EXCEPT ![n] = Append(@, e)]
  BY DEF Pushed, Ingestible, roundVars
<1>2. <<e>> \in Seq(EventIds) /\ Row(made, Head0(chain[n]), <<e>>)
  <2>1. <<e>> \in Seq(EventIds) /\ DOMAIN <<e>> = {1} /\ <<e>>[1] = e
    OBVIOUS
  <2> QED  BY <1>1, <2>1 DEF Row
<1>3. chain' = [chain EXCEPT ![n] = @ \o <<e>>]
  <2>1. chain[n] \o <<e>> = Append(chain[n], e)
    BY DEF RnsInv, HistoryInv
  <2> QED  BY <1>1, <2>1
<1>4. HistoryInv' /\ Grown
  BY <1>1, <1>2, <1>3, ExtendKeeps DEF RnsInv
<1>5. NetInv' /\ RoundInv' /\ AwaitInv' /\ RestInv'
  BY <1>1, RoundsStay
     DEF RnsInv, NetInv, AwaitInv, Awaits, Query, HeadOK, Message, EventIds, RestInv
<1> QED  BY <1>4, <1>5 DEF RnsInv

(* A round begins; the one before ends (_ibf_sync_loop).                   *)
LEMMA BeginKeeps ==
  ASSUME RnsInv, NEW n \in Nodes, RnsBegin(n)
  PROVE  RnsInv' /\ Grown
<1> DEFINE E == {Msg("init", n, m, Digest(n)) : m \in Asks[n]}
<1>1. /\ \A x \in net : x.n # n
      /\ net' = net \cup E /\ round' = [round EXCEPT ![n] = NewRound]
      /\ Fallback(n, round[n].told) /\ made' = made /\ pull' = pull /\ lost' = lost
  BY DEF RnsBegin, pullVars
<1>2. Asks[n] \subseteq Nodes
  BY RnsAssumption
<1>3. \A y \in E : /\ y \in Message /\ HeadOK(y) /\ y.n = n /\ y.m \in Asks[n]
                   /\ \A z \in E : y.m = z.m => y = z
  <2> SUFFICES ASSUME NEW a \in Asks[n], NEW b \in Asks[n]
               PROVE  LET y == Msg("init", n, a, Digest(n))
                          z == Msg("init", n, b, Digest(n))
                      IN  /\ y \in Message /\ HeadOK(y) /\ y.n = n /\ y.m = a
                          /\ z.m = b
    OBVIOUS
  <2> QED  BY <1>2, MsgParts, DigestsAreEvents DEF RnsInv
<1> HIDE DEF E
<1>4. HistoryInv' /\ Grown
  BY <1>1, FallbackKeeps DEF RnsInv, RoundInv
<1>5. RoundInv'
  BY <1>1, EmptyRounds, RoundTurns DEF RnsInv
<1>6. Message' = Message /\ \A y : HeadOK(y)' <=> HeadOK(y)
  BY <1>1 DEF Message, EventIds, HeadOK
<1>7. NetInv'
  <2>1. \A y \in net' : y \in Message /\ HeadOK(y) /\ (Query(y) => y.m \in Asks[y.n])
    BY <1>1, <1>3 DEF RnsInv, NetInv
  <2>2. ASSUME NEW y \in net', NEW z \in net', Query(y), Query(z), y.n = z.n, y.m = z.m
        PROVE  y = z
    BY <1>1, <1>3, <2>2 DEF RnsInv, NetInv
  <2> QED  BY <1>6, <2>1, <2>2 DEF NetInv, Query
<1>8. AwaitInv'
  <2> SUFFICES ASSUME NEW m \in Nodes, NEW y \in net', Query(y), y.n = m,
                      NEW i \in DOMAIN round'[m].told
               PROVE  round'[m].told[i].m # y.m
    BY DEF AwaitInv, Awaits, Query
  <2>1. m # n
    <3>1. round'[n] = NewRound /\ DOMAIN NewRound.told = {}
      BY <1>1 DEF RnsInv, RoundInv, NewRound
    <3> QED  BY <3>1
  <2>2. round'[m] = round[m] /\ y \in net
    BY <1>1, <1>3, <2>1 DEF RnsInv, RoundInv
  <2> QED  BY <2>2 DEF RnsInv, AwaitInv, Awaits
<1> QED  BY <1>1, <1>4, <1>5, <1>7, <1>8 DEF RnsInv, RestInv

(* A peer answers, and then tells its head (_handle_ibf_sync_init).        *)
LEMMA AnswerKeeps ==
  ASSUME RnsInv, NEW x \in net, RnsAnswer(x) \/ RnsTell(x)
  PROVE  RnsInv' /\ Grown
<1>1. x \in Message /\ x.m \in Nodes
  BY DEF RnsInv, NetInv, Message
<1>2. made' = made /\ chain' = chain /\ pull' = pull /\ round' = round /\ lost' = lost
  BY DEF RnsAnswer, RnsTell, syncVars
<1>3. \E y \in Message : /\ net' = (net \ {x}) \cup {y} /\ HeadOK(y)
                         /\ Query(x) /\ y.n = x.n /\ y.m = x.m
  <2>1. CASE RnsAnswer(x)
    <3>1. PICK S \in Cuts(Offers(x.m, x.has)), W \in Cuts(Wishes(x.m, x.has)) :
             \E f \in IF S = {} THEN {Genesis} ELSE S :
                net' = (net \ {x}) \cup
                   {[x EXCEPT !.type = "draft", !.has = S, !.first = f, !.wants = W]}
      BY <2>1 DEF RnsAnswer
    <3>2. PICK f \in IF S = {} THEN {Genesis} ELSE S :
             net' = (net \ {x}) \cup
                   {[x EXCEPT !.type = "draft", !.has = S, !.first = f, !.wants = W]}
      BY <3>1
    <3>3. S \in SUBSET EventIds /\ W \in SUBSET EventIds /\ f \in EventIds \cup {Genesis}
      <4>1. Digest(x.m) \in SUBSET EventIds /\ x.has \in SUBSET EventIds
        BY <1>1, DigestsAreEvents DEF RnsInv, Message
      <4> QED  BY <4>1 DEF Cuts, Offers, Wishes
    <3> DEFINE y == [x EXCEPT !.type = "draft", !.has = S, !.first = f, !.wants = W]
    <3>4. y \in Message /\ y.type = "draft" /\ y.n = x.n /\ y.m = x.m
      BY <1>1, <3>3 DEF Message
    <3> HIDE DEF y
    <3> QED  BY <2>1, <3>2, <3>4 DEF y, RnsAnswer, HeadOK, Query
  <2>2. CASE RnsTell(x)
    <3> DEFINE c == chain[x.m]  y == [x EXCEPT !.type = "delta", !.had = c]
    <3>1. c \in Seq(EventIds) /\ Row(made, Genesis, c)
      BY <1>1 DEF RnsInv, HistoryInv
    <3>2. net' = (net \ {x}) \cup {y} /\ x.type = "draft"
      BY <2>2 DEF RnsTell
    <3> HIDE DEF c
    <3>3. y \in Message /\ y.type = "delta" /\ y.had = c /\ y.n = x.n /\ y.m = x.m
      BY <1>1, <3>1 DEF Message
    <3> HIDE DEF y
    <3> QED  BY <3>1, <3>2, <3>3 DEF HeadOK, Query
  <2> QED  BY <2>1, <2>2
<1>4. NetInv' /\ AwaitInv'
  <2>1. PICK y \in Message : /\ net' = (net \ {x}) \cup {y} /\ HeadOK(y)
                             /\ Query(x) /\ y.n = x.n /\ y.m = x.m
    BY <1>3
  <2> DEFINE E == {y}
  <2>2. /\ \A z \in E : /\ z \in Message /\ HeadOK(z)
                        /\ Query(z) => Query(x) /\ z.n = x.n /\ z.m = x.m
        /\ \A z, w \in E : z = w
        /\ net' = (net \ {x}) \cup E
    BY <2>1
  <2> HIDE DEF E
  <2> QED  BY <1>2, <2>2, NetKeeps DEF RnsInv
<1> QED  BY <1>2, <1>4, StillKeeps, RoundsStay DEF RnsInv, RestInv

(* A message is lost.                                                      *)
LEMMA LoseKeeps ==
  ASSUME RnsInv, NEW x \in net, RnsLose(x)
  PROVE  RnsInv' /\ Grown
<1>1. /\ made' = made /\ chain' = chain /\ pull' = pull /\ round' = round
      /\ lost \in 0..MaxLost /\ lost' = lost + 1 /\ lost < MaxLost
      /\ net' = (net \ {x}) \cup {}
  BY DEF RnsLose, syncVars, RnsInv, RestInv
<1>2. NetInv' /\ AwaitInv'
  <2> DEFINE E == {}
  <2>1. net' = (net \ {x}) \cup E /\ \A y \in E : FALSE
    BY <1>1
  <2> HIDE DEF E
  <2> QED  BY <1>1, <2>1, NetKeeps DEF RnsInv
<1>3. lost' \in 0..MaxLost
  BY <1>1, RnsAssumption
<1> QED  BY <1>1, <1>2, <1>3, StillKeeps, RoundsStay DEF RnsInv, RestInv

(* Events that were wished for arrive.                                     *)
LEMMA EventsKeep ==
  ASSUME RnsInv, NEW x \in net, RnsEvents(x)
  PROVE  RnsInv' /\ Grown
<1>1. x.m \in Nodes /\ x.has \in SUBSET EventIds
  BY DEF RnsInv, NetInv, Message
<1>2. /\ made' = made /\ Ingest(x.m, x.has) /\ pull' = pull /\ round' = round /\ lost' = lost
      /\ net' = (net \ {x}) \cup {}
  BY DEF RnsEvents, pullVars
<1>3. NetInv' /\ AwaitInv'
  <2> DEFINE E == {}
  <2>1. net' = (net \ {x}) \cup E /\ \A y \in E : FALSE
    BY <1>2
  <2> HIDE DEF E
  <2> QED  BY <1>2, <2>1, NetKeeps DEF RnsInv
<1> QED  BY <1>1, <1>2, <1>3, IngestKeeps, RoundsStay DEF RnsInv, RestInv

(* An answer comes when the round is over.                                 *)
LEMMA LateKeeps ==
  ASSUME RnsInv, NEW x \in net, RnsLateAnswer(x)
  PROVE  RnsInv' /\ Grown
<1>1. x.n \in Nodes /\ x.has \in SUBSET EventIds
  BY DEF RnsInv, NetInv, Message
<1>2. /\ made' = made /\ Ingest(x.n, x.has) /\ pull' = pull /\ round' = round /\ lost' = lost
      /\ x.type = "delta" /\ Done(x)
  BY DEF RnsLateAnswer, pullVars
<1> QED  BY <1>1, <1>2, DoneKeeps, IngestKeeps, RoundsStay DEF RnsInv, RestInv

(* The answers of a round, with x among them.                              *)
LEMMA OneMoreTold ==
  ASSUME RnsInv, NEW x \in net, x.type = "delta", NEW told, told = Append(round[x.n].told, x)
  PROVE  told \in Seq(Message) /\ ToldOK(x.n, told)
<1> DEFINE n == x.n  old == round[n].told
<1>1. /\ x \in Message /\ n \in Nodes /\ HeadOK(x) /\ x.m \in Asks[n] /\ Query(x)
      /\ old \in Seq(Message) /\ ToldOK(n, old)
      /\ \A i \in DOMAIN old : old[i].m # x.m
  <2>1. x \in Message /\ n \in Nodes /\ HeadOK(x) /\ x.m \in Asks[n] /\ Query(x)
    BY DEF RnsInv, NetInv, Message, Query
  <2> QED  BY <2>1 DEF RnsInv, RoundInv, AwaitInv, Awaits
<1> HIDE DEF n, old
<1>2. told = Append(old, x)
  BY DEF n, old
<1>3. /\ told \in Seq(Message) /\ DOMAIN told = 1..(Len(old) + 1) /\ DOMAIN old = 1..Len(old)
      /\ told[Len(old) + 1] = x /\ \A i \in 1..Len(old) : told[i] = old[i]
      /\ Len(old) \in Nat
  BY <1>1, <1>2
<1>4. \A i \in DOMAIN told :
         \/ i \in DOMAIN old /\ told[i] = old[i]
         \/ i = Len(old) + 1 /\ told[i] = x /\ i \notin DOMAIN old
  BY <1>3
<1>5. \A i \in DOMAIN told : /\ told[i].type = "delta" /\ told[i].n = n
                             /\ told[i].m \in Asks[n] /\ HeadOK(told[i])
  BY <1>1, <1>4 DEF ToldOK, n
<1>6. ASSUME NEW i \in DOMAIN told, NEW j \in DOMAIN told, told[i].m = told[j].m
      PROVE  i = j
  <2>1. CASE i \in DOMAIN old /\ j \in DOMAIN old
    BY <1>1, <1>4, <1>6, <2>1 DEF ToldOK
  <2>2. CASE ~(i \in DOMAIN old /\ j \in DOMAIN old)
    BY <1>1, <1>4, <1>6, <2>2
  <2> QED  BY <2>1, <2>2
<1> QED  BY <1>3, <1>5, <1>6 DEF ToldOK, n

(* Who has not answered yet is awaited after an answer as before it.       *)
LEMMA StillAwaited ==
  ASSUME RnsInv, NEW x \in net, x.type = "delta", NEW told,
         told = Append(round[x.n].told, x), NEW y \in net \ {x}
  PROVE  Awaits(x.n, told, y)
<1> DEFINE n == x.n  old == round[n].told
<1>1. /\ n \in Nodes /\ old \in Seq(Message) /\ x \in Message /\ Query(x)
      /\ Awaits(n, old, y)
      /\ Query(y) /\ y.n = n => y.m # x.m
  <2>1. n \in Nodes /\ x \in Message /\ Query(x)
    BY DEF RnsInv, NetInv, Message, Query
  <2>2. old \in Seq(Message) /\ Awaits(n, old, y)
    BY <2>1 DEF RnsInv, RoundInv, AwaitInv
  <2>3. Query(y) /\ y.n = n => y.m # x.m
    BY <2>1 DEF RnsInv, NetInv
  <2> QED  BY <2>1, <2>2, <2>3
<1>2. told = Append(old, x)
  OBVIOUS
<1> HIDE DEF old
<1>3. \A i \in DOMAIN told : (i \in DOMAIN old /\ told[i] = old[i]) \/ told[i] = x
  BY <1>1, <1>2
<1> QED  BY <1>1, <1>3 DEF Awaits

(* The round of x.n turns into r with an answer x.                         *)
LEMMA AwaitTurns ==
  ASSUME RnsInv, made' = made, NEW x \in net, x.type = "delta", Done(x), NEW r,
         round' = [round EXCEPT ![x.n] = r], \A y \in net \ {x} : Awaits(x.n, r.told, y)
  PROVE  AwaitInv'
<1> SUFFICES ASSUME NEW m \in Nodes, NEW z \in net' PROVE Awaits(m, round'[m].told, z)
  BY DEF AwaitInv, Awaits, Query
<1>1. round'[m] = IF m = x.n THEN r ELSE round[m]
  BY DEF RnsInv, RoundInv
<1>2. \A y \in net \ {x} : Awaits(m, round'[m].told, y)
  BY <1>1 DEF RnsInv, AwaitInv
<1> QED  BY <1>2, DoneKeeps

(* An answer that gives no majority (_ingest_with_quorum).                 *)
LEMMA HeardKeeps ==
  ASSUME RnsInv, NEW x \in net, RnsHeard(x)
  PROVE  RnsInv' /\ Grown
<1> DEFINE n == x.n  told == Append(round[n].told, x)
<1>1. /\ x.type = "delta" /\ Done(x) /\ made' = made /\ pull' = pull /\ lost' = lost
      /\ \/ round' = [round EXCEPT ![n].told = told] /\ chain' = chain
         \/ round' = [round EXCEPT ![n] = NoRound] /\ Fallback(n, told)
  BY DEF RnsHeard, pullVars
<1>2. n \in Nodes /\ told \in Seq(Message) /\ ToldOK(n, told)
  <2>1. n \in Nodes
    BY DEF RnsInv, NetInv, Message
  <2> QED  BY <1>1, <2>1, OneMoreTold
<1>3. \A y \in net \ {x} : Awaits(n, told, y)
  BY <1>1, StillAwaited
<1> HIDE DEF told
<1>4. NetInv'
  BY <1>1, DoneKeeps
<1>5. CASE round' = [round EXCEPT ![n].told = told] /\ chain' = chain
  <2> DEFINE r == [round[n] EXCEPT !.told = told]
  <2>1. r \in [open : BOOLEAN, told : Seq(Message)] /\ r.told = told
    BY <1>2 DEF RnsInv, RoundInv
  <2>2. round' = [round EXCEPT ![n] = r]
    BY <1>5
  <2> HIDE DEF r
  <2>3. RoundInv'
    BY <1>1, <1>2, <2>1, <2>2, RoundTurns DEF RnsInv
  <2>4. AwaitInv'
    BY <1>1, <1>3, <2>1, <2>2, AwaitTurns
  <2> QED  BY <1>1, <1>4, <1>5, <2>3, <2>4, StillKeeps DEF RnsInv, RestInv
<1>6. CASE round' = [round EXCEPT ![n] = NoRound] /\ Fallback(n, told)
  <2>1. RoundInv'
    BY <1>1, <1>2, <1>6, EmptyRounds, RoundTurns DEF RnsInv
  <2>2. AwaitInv'
    BY <1>1, <1>6, EmptyRounds, AwaitTurns
  <2>3. HistoryInv' /\ Grown
    BY <1>1, <1>2, <1>6, FallbackKeeps DEF RnsInv
  <2> QED  BY <1>1, <1>4, <2>1, <2>2, <2>3 DEF RnsInv, RestInv
<1> QED  BY <1>1, <1>5, <1>6

(* Every answer of a bucket is a peer's: as many support the head.         *)
LEMMA BucketCounts ==
  ASSUME RnsInv, NEW x \in net, x.type = "delta", x \notin net',
         NEW told, told = Append(round[x.n].told, x)
  PROVE  /\ Bucket(told, x.had) \subseteq DOMAIN told
         /\ Cardinality(Bucket(told, x.had)) \in Nat
         /\ Cardinality(Supporters(x.n, x.had)) \in Nat
         /\ Cardinality(Bucket(told, x.had)) <= Cardinality(Supporters(x.n, x.had))
         /\ Cardinality(Asks[x.n]) \in Nat
<1> DEFINE n == x.n  d == x.had  old == round[n].told  B == Bucket(told, d)
           S == Supporters(n, d)
<1>1. /\ n \in Nodes /\ old \in Seq(Message) /\ told \in Seq(Message) /\ ToldOK(n, told)
      /\ ToldOK(n, old)
  <2>1. n \in Nodes
    BY DEF RnsInv, NetInv, Message
  <2> QED  BY <2>1, OneMoreTold DEF RnsInv, RoundInv
<1>2. B \subseteq DOMAIN told /\ \A i \in B : told[i].had = d
  BY DEF Bucket
<1>3. \A i \in DOMAIN told : (\E j \in DOMAIN old : told[i] = old[j]) \/ told[i] = x
  <2> HIDE DEF old
  <2>1. told = Append(old, x) /\ x \in Message
    BY DEF old, RnsInv, NetInv
  <2> QED  BY <1>1, <2>1
<1>4. S \subseteq Asks[n]
  BY <1>1 DEF Supporters, ToldOK, RnsInv, NetInv, Query
<1>5. IsFiniteSet(Asks[n]) /\ IsFiniteSet(S)
  BY <1>1, <1>4, RnsAssumption, FS_Subset
<1>6. \A i \in B : told[i].m \in S
  <2> SUFFICES ASSUME NEW i \in B PROVE told[i].m \in S
    OBVIOUS
  <2>1. told[i].type = "delta" /\ told[i].n = n /\ told[i].had = d
    BY <1>1, <1>2 DEF ToldOK
  <2>2. told[i] \in {old[j] : j \in DOMAIN old} \cup (net \ net')
    BY <1>2, <1>3
  <2> QED  BY <2>1, <2>2 DEF Supporters
<1> DEFINE f == [i \in B |-> told[i].m]
<1>7. f \in Injection(B, S)
  <2>1. \A i, j \in B : told[i].m = told[j].m => i = j
    BY <1>1, <1>2 DEF ToldOK
  <2> HIDE DEF B, S
  <2>2. f \in [B -> S] /\ \A i, j \in B : f[i] = f[j] => i = j
    BY <1>6, <2>1
  <2> HIDE DEF f
  <2> QED  BY <2>2 DEF Injection, IsInjective
<1>8. IsFiniteSet(B) /\ Cardinality(B) <= Cardinality(S)
  <2> HIDE DEF f, B, S
  <2> QED  BY <1>5, <1>7, FS_Injection
<1> QED  BY <1>2, <1>5, <1>8, FS_CardinalityType

(* The node n has the chain that a majority of its peers told, and two at  *)
(* least; it is longer than the one it had.                                *)
Agreed(n) ==
  /\ Len(chain'[n]) > Len(chain[n])
  /\ Cardinality(Supporters(n, chain'[n])) >= 2
  /\ 2 * Cardinality(Supporters(n, chain'[n])) > Cardinality(Asks[n])

(* An answer that gives the majority (_ingest_with_quorum, apply_fork).    *)
LEMMA AgreedKeeps ==
  ASSUME RnsInv, NEW x \in net, RnsAgreed(x)
  PROVE  RnsInv' /\ \A n \in Nodes : Extends(chain[n], chain'[n]) \/ Agreed(n)
<1> DEFINE n == x.n  told == Append(round[n].told, x)  B == Bucket(told, x.had)
           S == Merged(told, B)
<1>1. /\ x.type = "delta" /\ Done(x) /\ made' = made /\ pull' = pull /\ lost' = lost
      /\ Cardinality(B) >= Quorum(n) /\ round' = [round EXCEPT ![n] = NoRound]
      /\ \/ chain' = chain
         \/ ApplyFork(n, S, FirstMerged(told, B), Head0(x.had), Cardinality(B))
         \/ Ingest(n, S)
  BY DEF RnsAgreed, pullVars
<1>2. n \in Nodes /\ told \in Seq(Message) /\ x.had \in Seq(EventIds)
      /\ Row(made, Genesis, x.had)
  <2>1. n \in Nodes /\ x.had \in Seq(EventIds) /\ HeadOK(x)
    BY DEF RnsInv, NetInv, Message
  <2> QED  BY <1>1, <2>1, OneMoreTold DEF HeadOK
<1>3. x \notin net' /\ NetInv'
  BY <1>1, DoneKeeps
<1>4. /\ B \subseteq DOMAIN told /\ Cardinality(B) \in Nat
      /\ Cardinality(Supporters(n, x.had)) \in Nat
      /\ Cardinality(B) <= Cardinality(Supporters(n, x.had))
      /\ Cardinality(Asks[n]) \in Nat
  BY <1>1, <1>3, BucketCounts
<1> HIDE DEF told, B
<1>5. S \in SUBSET EventIds
  BY <1>2, <1>4, MergedAreEvents
<1>6. RoundInv' /\ AwaitInv' /\ RestInv'
  <2>1. RoundInv'
    BY <1>1, <1>2, EmptyRounds, RoundTurns DEF RnsInv
  <2>2. AwaitInv'
    BY <1>1, EmptyRounds, AwaitTurns
  <2> QED  BY <1>1, <2>1, <2>2 DEF RnsInv, RestInv
<1> HIDE DEF S
<1>7. CASE chain' = chain \/ Ingest(n, S)
  <2>1. HistoryInv' /\ Grown
    BY <1>1, <1>2, <1>5, <1>7, StillKeeps, IngestKeeps DEF RnsInv
  <2> QED  BY <1>3, <1>6, <2>1 DEF RnsInv, Grown
<1>8. CASE ApplyFork(n, S, FirstMerged(told, B), Head0(x.had), Cardinality(B))
  <2> DEFINE head == Head0(x.had)  count == Cardinality(B)  first == FirstMerged(told, B)
  <2>1. ApplyFork(n, S, first, head, count)
    BY <1>8
  <2> HIDE DEF head, count, first
  <2>2. /\ HistoryInv'
        /\ \A m \in Nodes \ {n} : chain'[m] = chain[m]
        /\ \/ chain' = chain
           \/ /\ count >= 2 /\ Len(chain'[n]) > Len(chain[n])
              /\ Head0(chain'[n]) = head
    BY <1>1, <1>2, <1>5, <2>1, ForkKeeps DEF RnsInv
  <2>3. ASSUME NEW m \in Nodes, chain'[m] = chain[m] PROVE Extends(chain[m], chain'[m])
    BY <2>3 DEF RnsInv, HistoryInv, Extends
  <2>4. CASE chain' = chain
    BY <1>3, <1>6, <2>2, <2>3, <2>4 DEF RnsInv
  <2>5. CASE count >= 2 /\ Len(chain'[n]) > Len(chain[n]) /\ Head0(chain'[n]) = head
    <3>1. /\ chain'[n] \in Seq(Nat \ {0}) /\ Row(made, Genesis, chain'[n])
          /\ x.had \in Seq(Nat \ {0}) /\ Len(chain[n]) \in Nat
      <4>1. EventIds' = EventIds
        BY <1>1 DEF EventIds
      <4> QED  BY <1>1, <1>2, <2>2, <4>1, EventsArePlaces DEF HistoryInv, RnsInv
    <3> DEFINE c == chain'[n]  d == x.had
    <3>2. c \in Seq(Nat \ {0}) /\ Len(c) # 0 /\ Head0(c) = Head0(d) /\ d \in Seq(Nat \ {0})
      BY <2>5, <3>1 DEF head
    <3> HIDE DEF c, d
    <3>3. c # <<>>
      BY <3>2
    <3>4. Head0(c) # Genesis
      <4>1. Len(c) \in 1..Len(c) /\ c[Len(c)] \in Nat \ {0}
        BY <3>2
      <4> QED  BY <3>3, <4>1 DEF Head0, Genesis
    <3>5. d # <<>>
      BY <3>2, <3>4 DEF Head0
    <3>6. c = d
      BY <1>2, <3>1, <3>2, <3>3, <3>5, OneChain DEF c, d
    <3>7. 2 * count > Cardinality(Asks[n])
      BY <1>1, <1>4 DEF Quorum, count
    <3>8. Agreed(n)
      <4> DEFINE k == Cardinality(Supporters(n, d))
      <4>1. k \in Nat /\ count \in Nat /\ count <= k
        BY <1>4 DEF count, d
      <4>2. k >= 2 /\ 2 * k > Cardinality(Asks[n])
        <5> HIDE DEF k
        <5> QED  BY <1>4, <2>5, <3>7, <4>1
      <4> QED  BY <2>5, <3>6, <4>2 DEF Agreed, c
    <3> QED  BY <1>3, <1>6, <2>2, <2>3, <3>8 DEF RnsInv
  <2> QED  BY <2>2, <2>4, <2>5
<1> QED  BY <1>1, <1>7, <1>8

(***************************************************************************)
(* The theorems.                                                           *)
(***************************************************************************)

(* At the start every node has the common events, and no round is open.    *)
LEMMA InitRns == RnsInit => RnsInv
<1> SUFFICES ASSUME RnsInit PROVE RnsInv
  OBVIOUS
<1> DEFINE c == [i \in 1..Common |-> i]
<1>1. /\ made = [i \in 1..Common |-> [after |-> i - 1, kind |-> "public"]]
      /\ chain = [n \in Nodes |-> c] /\ pull = [n \in Nodes |-> Idle]
      /\ round = [n \in Nodes |-> NoRound] /\ net = {} /\ lost = 0
  BY DEF RnsInit, RoundsInit
<1>2. Common \in Nat /\ MaxLost \in Nat
  BY RnsAssumption
<1>3. made \in Seq(Event) /\ EventIds = 1..Common
  <2>1. \A i \in 1..Common : [after |-> i - 1, kind |-> "public"] \in Event
    BY <1>2 DEF Event, RnsKinds
  <2>2. made \in [1..Common -> Event]
    BY <1>1, <2>1
  <2>3. made \in Seq(Event) /\ Len(made) = Common
    BY <1>2, <2>2
  <2> QED  BY <2>3 DEF EventIds
<1>4. c \in Seq(EventIds) /\ Row(made, Genesis, c)
  <2>1. c \in [1..Common -> 1..Common]
    OBVIOUS
  <2>2. c \in Seq(1..Common) /\ DOMAIN c = 1..Common /\ \A i \in 1..Common : c[i] = i
    BY <1>2, <2>1
  <2>3. \A i \in 1..Common : made[i].after = i - 1
    BY <1>1
  <2> HIDE DEF c
  <2>4. \A i \in DOMAIN c : made[c[i]].after = (IF i = 1 THEN Genesis ELSE c[i - 1])
    <3> SUFFICES ASSUME NEW i \in 1..Common
                 PROVE  made[c[i]].after = (IF i = 1 THEN Genesis ELSE c[i - 1])
      BY <2>2
    <3>1. i # 1 => i - 1 \in 1..Common
      BY <1>2
    <3> QED  BY <2>2, <2>3, <3>1 DEF Genesis
  <2> QED  BY <1>3, <2>2, <2>4 DEF Row
<1> HIDE DEF c
<1>5. HistoryInv
  BY <1>1, <1>3, <1>4 DEF HistoryInv
<1>6. NetInv /\ RoundInv /\ AwaitInv
  BY <1>1, EmptyRounds DEF NetInv, RoundInv, AwaitInv
<1>7. RestInv
  BY <1>1, <1>2 DEF RestInv
<1> QED  BY <1>5, <1>6, <1>7 DEF RnsInv

(* Every step keeps the invariant; a chain that does not grow is given up  *)
(* for the one that was agreed on.                                         *)
LEMMA RnsStepKeeps ==
  ASSUME RnsInv, RnsNext
  PROVE  RnsInv' /\ \A n \in Nodes : Extends(chain[n], chain'[n]) \/ Agreed(n)
<1>1. CASE /\ \E w \in RnsWriters : Append1(w[1], w[2])
           /\ UNCHANGED roundVars
  BY <1>1, AppendKeeps DEF Grown
<1>2. CASE (\E n \in Nodes, e \in EventIds : Pushed(n, e)) /\ UNCHANGED roundVars
  BY <1>2, PushKeeps DEF Grown
<1>3. CASE \E n \in Nodes : RnsBegin(n)
  BY <1>3, BeginKeeps DEF Grown
<1>4. ASSUME NEW x \in net, RnsStep(x) \/ RnsLose(x)
      PROVE  RnsInv' /\ \A n \in Nodes : Extends(chain[n], chain'[n]) \/ Agreed(n)
  <2>1. CASE RnsAgreed(x)
    BY <2>1, AgreedKeeps
  <2>2. CASE ~RnsAgreed(x)
    BY <1>4, <2>2, AnswerKeeps, LateKeeps, HeardKeeps, EventsKeep, LoseKeeps
       DEF RnsStep, Grown
  <2> QED  BY <2>1, <2>2
<1> QED  BY <1>1, <1>2, <1>3, <1>4 DEF RnsNext

(* A stuttering step keeps the invariant.                                  *)
LEMMA RnsStutters == ASSUME RnsInv, UNCHANGED rnsVars PROVE RnsInv'
<1>1. /\ made' = made /\ chain' = chain /\ pull' = pull /\ round' = round /\ net' = net
      /\ lost' = lost
  BY DEF rnsVars, syncVars, roundVars
<1>2. Message' = Message /\ \A y : HeadOK(y)' <=> HeadOK(y)
  BY <1>1 DEF Message, EventIds, HeadOK
<1>3. NetInv' /\ AwaitInv'
  BY <1>1, <1>2 DEF RnsInv, NetInv, AwaitInv, Awaits, Query
<1> QED  BY <1>1, <1>3, StillKeeps, RoundsStay DEF RnsInv, RestInv

(* The invariant holds of every behaviour of the rounds.                   *)
THEOREM RnsInvariant == RnsSpec => []RnsInv
<1>1. RnsInv /\ [RnsNext]_rnsVars => RnsInv'
  BY RnsStepKeeps, RnsStutters
<1> QED  BY <1>1, InitRns, PTL DEF RnsSpec

(* Type correctness of chains, rounds and messages, whatever is appended,  *)
(* pushed, told, forked and lost (the state of RNSBridge).                 *)
THEOREM RnsTypeCorrect == RnsSpec => []RnsTypeOK
<1>1. RnsInv => RnsTypeOK
  BY DEF RnsInv, HistoryInv, NetInv, RoundInv, RestInv, RnsTypeOK, Event, RnsKinds
<1> QED  BY <1>1, RnsInvariant, PTL

(* Nodes that share an event agree on everything before it, through forks, *)
(* walks and pushes in any order (_order_chain_from, _ingest_ordered).     *)
THEOREM RnsHistoryIsOne == RnsSpec => []OneHistory
<1>1. RnsInv => OneHistory
  <2> SUFFICES ASSUME RnsInv, NEW n \in Nodes, NEW m \in Nodes, NEW i \in DOMAIN chain[n],
                      NEW j \in DOMAIN chain[m], chain[n][i] = chain[m][j]
               PROVE  i = j /\ \A k \in 1..i : chain[n][k] = chain[m][k]
    BY DEF OneHistory
  <2> DEFINE c == chain[n]  d == chain[m]
  <2>1. /\ c \in Seq(Nat \ {0}) /\ d \in Seq(Nat \ {0})
        /\ Row(made, Genesis, c) /\ Row(made, Genesis, d)
    BY EventsArePlaces DEF RnsInv, HistoryInv
  <2>2. i \in DOMAIN c /\ j \in DOMAIN d /\ c[i] = d[j]
    OBVIOUS
  <2> HIDE DEF c, d
  <2>3. i = j /\ \A k \in 1..i : c[k] = d[k]
    BY <2>1, <2>2, RowsAgree
  <2> QED  BY <2>3 DEF c, d
<1> QED  BY <1>1, RnsInvariant, PTL

(* Events are given up only for a longer chain that a majority of the peers*)
(* asked, and two at least, told as theirs (_ingest_with_quorum).          *)
THEOREM ForksAreAgreed == RnsSpec => ForkIsAgreed
<1>1. RnsInv /\ [RnsNext]_rnsVars =>
        [\A n \in Nodes : ~Extends(chain[n], chain'[n]) /\ chain'[n] # <<>> =>
            /\ Len(chain'[n]) > Len(chain[n])
            /\ Cardinality(Supporters(n, chain'[n])) >= 2
            /\ 2 * Cardinality(Supporters(n, chain'[n])) > Cardinality(Asks[n])]_rnsVars
  BY RnsStepKeeps DEF Agreed
<1> QED  BY <1>1, RnsInvariant, PTL DEF RnsSpec, ForkIsAgreed

(***************************************************************************)
(* One writer: nobody is led astray, and nobody forks.                     *)
(***************************************************************************)

(* Node w has every event there is.                                        *)
HasAll(w) == EventIds \subseteq Holds(w)

(* A node that has every event has the beginning of every row.             *)
LEMMA RowsTrail ==
  ASSUME HistoryInv, NEW w \in Nodes, HasAll(w),
         NEW c \in Seq(EventIds), Row(made, Genesis, c)
  PROVE  Len(c) <= Len(chain[w]) /\ \A i \in DOMAIN c : c[i] = chain[w][i]
<1> DEFINE d == chain[w]
<1>1. /\ c \in Seq(Nat \ {0}) /\ Len(c) \in Nat /\ DOMAIN c = 1..Len(c)
      /\ d \in Seq(Nat \ {0}) /\ Len(d) \in Nat /\ DOMAIN d = 1..Len(d)
      /\ Row(made, Genesis, d)
  BY EventsArePlaces DEF HistoryInv
<1>2. CASE Len(c) = 0
  BY <1>1, <1>2
<1>3. CASE Len(c) # 0
  <2>1. Len(c) \in DOMAIN c /\ c[Len(c)] \in EventIds
    BY <1>1, <1>3
  <2>2. PICK j \in DOMAIN d : d[j] = c[Len(c)]
    BY <2>1 DEF HasAll, Holds
  <2> HIDE DEF d
  <2>3. Len(c) = j /\ \A k \in 1..Len(c) : c[k] = d[k]
    BY <1>1, <2>1, <2>2, RowsAgree
  <2> QED  BY <1>1, <2>2, <2>3 DEF d
<1> QED  BY <1>2, <1>3

(* A step that appends nothing signs nothing.                              *)
LEMMA OnlyAppendsSign ==
  ASSUME RnsNext, ~\E x \in RnsWriters : Append1(x[1], x[2])
  PROVE  made' = made
<1>1. CASE \E n \in Nodes, e \in EventIds : Pushed(n, e)
  BY <1>1 DEF Pushed
<1>2. CASE \E n \in Nodes : RnsBegin(n)
  BY <1>2 DEF RnsBegin
<1>3. ASSUME NEW x \in net, RnsStep(x) \/ RnsLose(x) PROVE made' = made
  <2>1. CASE RnsAnswer(x) \/ RnsTell(x) \/ RnsLose(x)
    <3>1. UNCHANGED syncVars
      BY <2>1, Zenon DEF RnsAnswer, RnsTell, RnsLose
    <3> QED  BY <3>1 DEF syncVars
  <2>2. CASE RnsLateAnswer(x) \/ RnsEvents(x)
    BY <2>2 DEF RnsLateAnswer, RnsEvents
  <2>3. CASE RnsAgreed(x)
    BY <2>3 DEF RnsAgreed
  <2>4. CASE RnsHeard(x)
    BY <2>4 DEF RnsHeard
  <2> QED  BY <1>3, <2>1, <2>2, <2>3, <2>4 DEF RnsStep
<1> QED  BY <1>1, <1>2, <1>3 DEF RnsNext

(* The only writer keeps every event: a chain that it would give some up   *)
(* for would be longer than its own, and hold events nobody signed.        *)
LEMMA WriterKeepsAll ==
  ASSUME NEW w \in Nodes, \A x \in RnsWriters : x[1] = w,
         RnsInv, HasAll(w), RnsNext
  PROVE  HasAll(w)'
<1>0. /\ made \in Seq(Event) /\ chain \in [Nodes -> Seq(EventIds)]
      /\ HistoryInv /\ HistoryInv' /\ (Extends(chain[w], chain'[w]) \/ Agreed(w))
  BY RnsStepKeeps DEF RnsInv, HistoryInv
<1>1. ASSUME Extends(chain[w], chain'[w]) PROVE Holds(w) \subseteq Holds(w)'
  <2> DEFINE c == chain[w]  d == chain'[w]
  <2>1. /\ DOMAIN c = 1..Len(c) /\ Len(c) \in Nat /\ DOMAIN d = 1..Len(d) /\ Len(d) \in Nat
        /\ Len(c) <= Len(d) /\ \A i \in DOMAIN c : c[i] = d[i]
    <3>1. c \in Seq(EventIds) /\ d \in Seq(EventIds')
      BY <1>0 DEF HistoryInv
    <3> HIDE DEF c, d
    <3> QED  BY <1>1, <3>1 DEF Extends, c, d
  <2> HIDE DEF c, d
  <2>2. \A i \in DOMAIN c : i \in DOMAIN d /\ d[i] = c[i]
    BY <2>1
  <2> QED  BY <2>2 DEF Holds, c, d
<1>2. CASE \E x \in RnsWriters : Append1(x[1], x[2])
  <2>1. PICK kind : Append1(w, kind)
    BY <1>2
  <2>2. /\ Len(made') = Len(made) + 1 /\ Len(made) \in Nat
        /\ chain'[w] = Append(chain[w], Len(made) + 1)
    BY <1>0, <2>1 DEF Append1
  <2> DEFINE c == chain[w]  d == chain'[w]  new == Len(made) + 1
  <2>3. /\ \A i \in DOMAIN c : i \in DOMAIN d /\ d[i] = c[i]
        /\ Len(c) + 1 \in DOMAIN d /\ d[Len(c) + 1] = new
    <3>1. c \in Seq(EventIds) /\ d = Append(c, new)
      BY <1>0, <2>2
    <3> HIDE DEF c, d, new
    <3> QED  BY <3>1
  <2>4. Holds(w) \cup {Len(made) + 1} \subseteq Holds(w)'
    <3> HIDE DEF c, d, new
    <3>1. \A i \in DOMAIN c : c[i] \in {d[k] : k \in DOMAIN d}
      BY <2>3
    <3>2. new \in {d[k] : k \in DOMAIN d}
      BY <2>3
    <3> QED  BY <3>1, <3>2 DEF Holds, c, d, new
  <2>5. EventIds' \subseteq EventIds \cup {Len(made) + 1}
    BY <2>2 DEF EventIds
  <2> QED  BY <2>4, <2>5 DEF HasAll
<1>3. CASE ~\E x \in RnsWriters : Append1(x[1], x[2])
  <2>1. made' = made /\ EventIds' = EventIds
    BY <1>3, OnlyAppendsSign DEF EventIds
  <2>2. chain'[w] \in Seq(EventIds) /\ Row(made, Genesis, chain'[w])
    BY <1>0, <2>1 DEF HistoryInv
  <2>3. Len(chain'[w]) <= Len(chain[w]) /\ Len(chain'[w]) \in Nat /\ Len(chain[w]) \in Nat
    BY <1>0, <2>2, RowsTrail
  <2>4. ~Agreed(w)
    BY <2>3 DEF Agreed
  <2> QED  BY <1>0, <1>1, <2>1, <2>4 DEF HasAll
<1> QED  BY <1>2, <1>3

(* So it has every event, always.                                        *)
LEMMA WriterHasAll ==
  ASSUME NEW w \in Nodes, \A x \in RnsWriters : x[1] = w
  PROVE  RnsSpec => []HasAll(w)
<1>1. RnsInit => HasAll(w)
  <2> SUFFICES ASSUME RnsInit PROVE HasAll(w)
    OBVIOUS
  <2>1. /\ Common \in Nat /\ chain[w] = [i \in 1..Common |-> i]
        /\ made = [i \in 1..Common |-> [after |-> i - 1, kind |-> "public"]]
    BY RnsAssumption DEF RnsInit
  <2>2. Len(made) = Common
    BY <2>1
  <2> QED  BY <2>1, <2>2 DEF HasAll, EventIds, Holds
<1>2. RnsInv /\ HasAll(w) /\ [RnsNext]_rnsVars => HasAll(w)'
  <2>1. UNCHANGED rnsVars /\ HasAll(w) => HasAll(w)'
    BY DEF rnsVars, syncVars, HasAll, EventIds, Holds
  <2> QED  BY <2>1, WriterKeepsAll
<1> QED  BY <1>1, <1>2, RnsInvariant, PTL DEF RnsSpec

(* With one writer every node's chain is at all times a first part of the  *)
(* writer's, whichever nodes ask which, through forks, rounds without a    *)
(* majority, wishes, losses and pushes out of order (_ingest_with_quorum). *)
THEOREM RnsNobodyStrays ==
  ASSUME NEW w \in Nodes, \A x \in RnsWriters : x[1] = w
  PROVE  RnsSpec => []FollowersTrail(w)
<1>1. RnsInv /\ HasAll(w) => FollowersTrail(w)
  BY RowsTrail DEF RnsInv, HistoryInv, FollowersTrail
<1> QED  BY <1>1, RnsInvariant, WriterHasAll, PTL

(* And no node gives an event up: what a fork puts in the place of the end *)
(* of a chain begins with that very end (apply_fork).                      *)
THEOREM RnsNothingLost ==
  ASSUME NEW w \in Nodes, \A x \in RnsWriters : x[1] = w
  PROVE  RnsSpec => [][\A n \in Nodes : Extends(chain[n], chain'[n])]_rnsVars
<1>1. RnsInv /\ HasAll(w) /\ [RnsNext]_rnsVars =>
        [\A n \in Nodes : Extends(chain[n], chain'[n])]_rnsVars
  <2> SUFFICES ASSUME RnsInv, HasAll(w), RnsNext, NEW n \in Nodes
               PROVE  Extends(chain[n], chain'[n])
    OBVIOUS
  <2>1. CASE \E x \in RnsWriters : Append1(x[1], x[2])
    <3>1. PICK k : Append1(w, k)
      BY <2>1
    <3> DEFINE c == chain[n]  new == Len(made) + 1
    <3>2. /\ chain[n] \in Seq(EventIds)
          /\ chain'[n] = chain[n] \/ chain'[n] = Append(chain[n], new)
      BY <3>1 DEF RnsInv, HistoryInv, Append1
    <3>3. c \in Seq(EventIds) => Extends(c, c) /\ Extends(c, Append(c, new))
      <4> HIDE DEF c, new
      <4> QED  BY DEF Extends
    <3> QED  BY <3>2, <3>3
  <2>2. CASE ~\E x \in RnsWriters : Append1(x[1], x[2])
    <3>1. made' = made /\ EventIds' = EventIds
      BY <2>2, OnlyAppendsSign DEF EventIds
    <3> DEFINE c == chain[n]  d == chain'[n]  e == chain[w]
    <3>2. /\ RnsInv' /\ (Extends(c, d) \/ Agreed(n))
      BY RnsStepKeeps
    <3>3. /\ c \in Seq(EventIds) /\ Row(made, Genesis, c)
          /\ d \in Seq(EventIds) /\ Row(made, Genesis, d) /\ HistoryInv
      BY <3>1, <3>2 DEF RnsInv, HistoryInv
    <3>4. /\ \A i \in DOMAIN c : c[i] = e[i]
          /\ \A i \in DOMAIN d : d[i] = e[i]
      <4> HIDE DEF c, d
      <4> QED  BY <3>3, RowsTrail
    <3>5. Agreed(n) => Len(c) < Len(d)
      BY <3>3 DEF Agreed
    <3> HIDE DEF c, d, e
    <3>6. Agreed(n) => Extends(c, d)
      BY <3>3, <3>4, <3>5 DEF Extends
    <3> QED  BY <3>2, <3>6 DEF c, d
  <2> QED  BY <2>1, <2>2
<1> QED  BY <1>1, RnsInvariant, WriterHasAll, PTL DEF RnsSpec
================================================================================
