--------------------------------- MODULE RnsSync ---------------------------------
(* The other way in which nodes keep their ledgers alike: over the RNS bridge.  *)
(* Every two minutes a node sends its peers a digest of the events at the end   *)
(* of its chain.  A peer answers with events the node lacks, a wish for those   *)
(* it lacks itself, and its head.  When a majority of the peers asked have named*)
(* one head the node takes their events in, and gives up the end of its own     *)
(* chain for them if it must.  mesh_rns.py keeps the round; apply_fork of       *)
(* mesh_hashchain replaces the chain.                                           *)
EXTENDS LedgerSync

CONSTANTS
    RnsWriters,     \* <<node, kind>> of the events that users append; "private" is
                    \* a gate_message here
    Asks,           \* Asks[n]: the RNS peers that n asks in a round
    LockDepth,      \* a fork goes back this many events at most (6)
    Window,         \* a digest covers this many events (256)
    MaxSent,        \* events, or wishes, that fit in one message
    Common,         \* events that every node has at the beginning
    MaxRnsEvents,   \* bound of the model: events ever made
    MaxLost         \* bound of the model: messages lost or declined

ASSUME RnsAssumption ==
    /\ RnsWriters \subseteq Nodes \X {"public", "private", "economy"}
    /\ Asks \in [Nodes -> SUBSET Nodes]
    /\ \A n \in Nodes : /\ n \notin Asks[n]
                         /\ IsFiniteSet(Asks[n]) /\ Cardinality(Asks[n]) <= 3
    /\ LockDepth \in Nat /\ Window \in Nat \ {0} /\ MaxSent \in Nat \ {0}
    /\ MaxRnsEvents \in Nat /\ Common \in 0..MaxRnsEvents /\ MaxLost \in Nat

VARIABLES
    round,          \* round[n]: whether n's round is open, and the answers it has
    net,            \* the messages under way
    lost            \* how many were lost

roundVars == <<round, net, lost>>
rnsVars == <<syncVars, roundVars>>
pullVars == <<pull, favourite, cooling, stale>>

--------------------------------------------------------------------------------
(* Messages.  n is the node that asks, m the peer that is asked.                *)
(*   init    the digest of n: "has" is what it lists                            *)
(*   draft   m has worked out its answer, but not read its head yet             *)
(*   delta   the answer: events for n, of which "first" comes first; wishes;    *)
(*           and the head, as "had": the whole chain of m when the head was read*)
(*   events  what m had wished for                                              *)

Message == [type : {"init", "draft", "delta", "events"}, n : Nodes, m : Nodes,
            has : SUBSET EventIds, first : EventIds \cup {Genesis},
            wants : SUBSET EventIds, had : Seq(EventIds)]

Msg(type, n, m, S) ==
    [type |-> type, n |-> n, m |-> m, has |-> S,
     first |-> Genesis, wants |-> {}, had |-> <<>>]

(* A gate_message is neither listed nor sent over RNS.                          *)
Open(S) == {e \in S : made[e].kind # "private"}
Digest(n) ==
    Open({chain[n][i] : i \in {j \in DOMAIN chain[n] : j > Len(chain[n]) - Window}})

(* What the difference of two digests makes m send, and wish for.               *)
Offers(m, listed) == Digest(m) \ listed
(* Mutant: the sides of the difference are swapped.                             *)
SwappedWishes(m, listed) == Digest(m) \ listed
Wishes(m, listed) == listed \ Digest(m)

(* As many as fit; the decoder lists them in no particular order.               *)
Cuts(S) == {T \in SUBSET S : Cardinality(T) = Least(Cardinality(S), MaxSent)}

Quorum(n) == Cardinality(Asks[n]) \div 2 + 1

--------------------------------------------------------------------------------
(* Taking events in.                                                            *)

(* The events T in a row, each extending the one before it, the first one p:    *)
(* there is at most one such row.                                               *)
Links(p, T) ==
    {q \in [1..Cardinality(T) -> T] :
        \A i \in DOMAIN q : made[q[i]].after = (IF i = 1 THEN p ELSE q[i - 1])}

(* The ways to follow the events S from n's head, one at a time, to the end.    *)
Walks(n, S) ==
    {q \in UNION {Links(Head0(chain[n]), T) : T \in SUBSET S} :
        \A e \in S : made[e].after # Head0(chain[n] \o q)}

(* _ingest_ordered: such a walk is taken in, up to the first event refused.     *)
Welcome(e) == made[e].kind \in AllowedTypes /\ e > stale
Ingest(n, S) ==
    \E q \in Walks(n, S) : \E k \in 0..Len(q) :
       /\ \A i \in 1..k : Welcome(q[i])
       /\ k < Len(q) => ~Welcome(q[k + 1])
       /\ chain' = [chain EXCEPT ![n] = @ \o SubSeq(q, 1, k)]

(* apply_fork: the events must follow an event that n has - the one before the  *)
(* first event, as they came - not too deep in its chain, lead to the head, and *)
(* be more than those they replace.  Nothing happens if they do not.            *)
Ancestor(n, first) == Place(n, made[first].after)
Forks(n, S, first, head, count) ==
    {q \in Links(made[first].after, S) :
        /\ count >= 2
        /\ made[first].after \in Holds(n)
        /\ Len(chain[n]) - Ancestor(n, first) <= LockDepth
        /\ Len(q) > Len(chain[n]) - Ancestor(n, first)
        /\ Head0(q) = head
        /\ \A e \in S : made[e].kind \in AllowedTypes}
ApplyFork(n, S, first, head, count) ==
    LET forks == Forks(n, S, first, head, count)
    IN  \/ forks = {} /\ UNCHANGED chain
        \/ \E q \in forks :
              chain' = [chain EXCEPT ![n] = SubSeq(@, 1, Ancestor(n, first)) \o q]

--------------------------------------------------------------------------------
(* The answers told in a round, in buckets by the head they name.               *)

(* Mutant: every answer counts, whatever head it names.                         *)
AnyHead(told, had) == DOMAIN told
Bucket(told, had) == {i \in DOMAIN told : told[i].had = had}

Merged(told, bucket) == UNION {told[i].has : i \in bucket}
FirstMerged(told, bucket) ==
    told[CHOOSE i \in bucket :
           told[i].has # {} /\ \A j \in bucket : told[j].has # {} => i <= j].first

(* _prune_sync_rounds: without a majority the largest bucket is taken in, of    *)
(* several the one that was begun first.                                        *)
Largest(told) ==
    LET size(i) == Cardinality(Bucket(told, told[i].had))
    IN  Bucket(told, told[CHOOSE i \in DOMAIN told : \A j \in DOMAIN told :
                            size(i) > size(j) \/ (size(i) = size(j) /\ i <= j)].had)
Fallback(n, told) ==
    IF told = <<>> THEN UNCHANGED chain ELSE Ingest(n, Merged(told, Largest(told)))

NoRound == [open |-> FALSE, told |-> <<>>]
NewRound == [open |-> TRUE, told |-> <<>>]

RoundsInit ==
    /\ round = [n \in Nodes |-> NoRound]
    /\ net = {}
    /\ lost = 0

(* Every node begins with the same events.                                      *)
RnsInit ==
    /\ made = [i \in 1..Common |-> [after |-> i - 1, kind |-> "public"]]
    /\ chain = [n \in Nodes |-> [i \in 1..Common |-> i]]
    /\ pull = [n \in Nodes |-> Idle]
    /\ favourite = [n \in Nodes |-> NoNode]
    /\ cooling = [n \in Nodes |-> {}]
    /\ stale = 0
    /\ RoundsInit

(* _ibf_sync_loop: the digest goes out, and then the round before is closed.    *)
(* Bound of the model: the messages of that round have arrived or are lost.     *)
RnsBegin(n) ==
    /\ Asks[n] # {} /\ \A x \in net : x.n # n
    /\ net' = net \cup {Msg("init", n, m, Digest(n)) : m \in Asks[n]}
    /\ round' = [round EXCEPT ![n] = NewRound]
    /\ Fallback(n, round[n].told)
    /\ UNCHANGED <<made, pullVars, lost>>

(* _handle_ibf_sync_init, until the events and wishes are picked ...            *)
RnsAnswer(x) ==
    /\ x.type = "init"
    /\ \E S \in Cuts(Offers(x.m, x.has)), W \in Cuts(Wishes(x.m, x.has)) :
       \E f \in IF S = {} THEN {Genesis} ELSE S :
          net' = (net \ {x}) \cup
                   {[x EXCEPT !.type = "draft", !.has = S, !.first = f, !.wants = W]}
    /\ UNCHANGED <<syncVars, round, lost>>

(* ... and from there on, when the head is read.                                *)
RnsTell(x) ==
    /\ x.type = "draft"
    /\ net' = (net \ {x}) \cup {[x EXCEPT !.type = "delta", !.had = chain[x.m]]}
    /\ UNCHANGED <<syncVars, round, lost>>

(* An answer is done with when the wishes in it are met, from the chain as the  *)
(* answer left it.                                                              *)
Done(x) ==
    LET S == Open({e \in x.wants : \E i \in DOMAIN chain'[x.n] : chain'[x.n][i] = e})
    IN  net' = (net \ {x}) \cup (IF S = {} THEN {} ELSE {Msg("events", x.n, x.m, S)})

(* _handle_ibf_sync_delta, when the round is over ...                           *)
RnsLateAnswer(x) ==
    /\ x.type = "delta" /\ ~round[x.n].open
    /\ Ingest(x.n, x.has)
    /\ Done(x)
    /\ UNCHANGED <<made, pullVars, round, lost>>

(* ... when it gives the round its majority ...                                 *)
RnsAgreed(x) ==
    LET n == x.n
        told == Append(round[n].told, x)
        bucket == Bucket(told, x.had)
        events == Merged(told, bucket)
    IN  /\ x.type = "delta" /\ round[n].open /\ Cardinality(bucket) >= Quorum(n)
        /\ round' = [round EXCEPT ![n] = NoRound]
        /\ \/ events = {} /\ UNCHANGED chain
           \/ /\ events # {} /\ Head0(x.had) # Head0(chain[n])
              /\ ApplyFork(n, events, FirstMerged(told, bucket), Head0(x.had),
                           Cardinality(bucket))
           \/ events # {} /\ Head0(x.had) = Head0(chain[n]) /\ Ingest(n, events)
        /\ Done(x)
        /\ UNCHANGED <<made, pullVars, lost>>

(* ... and when it does not: the round goes on, unless its six seconds are over.*)
RnsHeard(x) ==
    LET n == x.n
        told == Append(round[n].told, x)
    IN  /\ x.type = "delta" /\ round[n].open
        /\ Cardinality(Bucket(told, x.had)) < Quorum(n)
        /\ \/ round' = [round EXCEPT ![n].told = told] /\ UNCHANGED chain
           \/ round' = [round EXCEPT ![n] = NoRound] /\ Fallback(n, told)
        /\ Done(x)
        /\ UNCHANGED <<made, pullVars, lost>>

(* _handle_ibf_sync_events.                                                     *)
RnsEvents(x) ==
    /\ x.type = "events"
    /\ Ingest(x.m, x.has)
    /\ net' = net \ {x}
    /\ UNCHANGED <<made, pullVars, round, lost>>

(* A message is lost or does not fit, or the peer declines: the digests are too *)
(* different, or their difference does not decode.                              *)
RnsLose(x) ==
    /\ lost < MaxLost
    /\ lost' = lost + 1
    /\ net' = net \ {x}
    /\ UNCHANGED <<syncVars, round>>

RnsStep(x) ==
    \/ RnsAnswer(x) \/ RnsTell(x) \/ RnsLateAnswer(x)
    \/ RnsAgreed(x) \/ RnsHeard(x) \/ RnsEvents(x)

(* Events are appended and pushed as in LedgerSync.                             *)
RnsNext ==
    \/ /\ Len(made) < MaxRnsEvents
       /\ \E w \in RnsWriters : Append1(w[1], w[2])
       /\ UNCHANGED roundVars
    \/ (\E n \in Nodes, e \in EventIds : Pushed(n, e)) /\ UNCHANGED roundVars
    \/ \E n \in Nodes : RnsBegin(n)
    \/ \E x \in net : RnsStep(x) \/ RnsLose(x)

RnsSpec == RnsInit /\ [][RnsNext]_rnsVars

(* The loop of every node wakes, and a message that is not lost is handled.     *)
RnsFairness ==
    /\ \A n \in Nodes : WF_rnsVars(RnsBegin(n))
    /\ WF_rnsVars(\E x \in net : RnsStep(x))

FairRnsSpec == RnsSpec /\ RnsFairness

--------------------------------------------------------------------------------
(* Properties.                                                                  *)

(* Types of the variables; the pull of a node is idle.                          *)
RnsTypeOK ==
    /\ made \in Seq([after : Nat, kind : {"public", "private", "economy"}])
    /\ chain \in [Nodes -> Seq(EventIds)]
    /\ pull = [n \in Nodes |-> Idle]
    /\ round \in [Nodes -> [open : BOOLEAN, told : Seq(Message)]]
    /\ net \subseteq Message /\ lost \in 0..MaxLost

Extends(c, d) == Len(c) <= Len(d) /\ \A i \in DOMAIN c : c[i] = d[i]

(* The peers that, in n's present round, told n that d was their chain.         *)
Supporters(n, d) ==
    {x.m : x \in {y \in {round[n].told[i] : i \in DOMAIN round[n].told} \cup (net \ net') :
                    y.type = "delta" /\ y.n = n /\ y.had = d}}

(* A node that does not empty its chain gives up events only for a longer chain *)
(* that is, from the first event to the last, the chain of a majority of the    *)
(* peers it asked, and of two at least, each at the time it told its head;      *)
(* whatever was appended or pushed between the digest, the answers and the fork *)
(* (_ingest_with_quorum, apply_fork).                                           *)
ForkIsAgreed ==
    [][\A n \in Nodes : ~Extends(chain[n], chain'[n]) /\ chain'[n] # <<>> =>
          /\ Len(chain'[n]) > Len(chain[n])
          /\ Cardinality(Supporters(n, chain'[n])) >= 2
          /\ 2 * Cardinality(Supporters(n, chain'[n])) > Cardinality(Asks[n])]_rnsVars

Lacking(m, n) ==
    /\ Extends(chain[m], chain[n])
    /\ Len(chain[n]) - Len(chain[m]) \in 1..Least(MaxSent, Window)
    /\ \A i \in (Len(chain[m]) + 1)..Len(chain[n]) : made[chain[n][i]].kind = "public"

(* A peer that a node asks does not stay behind it, if what it lacks fits in a  *)
(* message and holds no gate_message: its wish brings it the events.            *)
RnsCatchesUp == \A n \in Nodes : \A m \in Asks[n] : []<>~Lacking(m, n)
================================================================================
