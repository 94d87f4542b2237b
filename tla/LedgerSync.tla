------------------------------- MODULE LedgerSync -------------------------------
(* Nodes keep their copies of the Infonet ledger alike.  A node adds events of  *)
(* its own users, pushes them to peers, and pulls what it lacks: in a cycle it  *)
(* asks one peer after another, in rounds, with a locator of its chain, and     *)
(* takes in what the peer answers event by event.  main.py runs the cycle, the  *)
(* peer's request handler answers it, mesh_hashchain takes the events in.       *)
EXTENDS Integers, Sequences, FiniteSets

CONSTANTS
    Nodes,          \* the nodes
    Writers,        \* those whose users append events
    Peers,          \* Peers[n]: the peers in n's store, bucket "sync"
    Kinds,          \* the kinds of event appended: "public", "private", "economy"
    Clearnet,       \* the nodes that ask over the public transport
    PageLimit,      \* events in one answer (100)
    MaxRounds,      \* rounds with one peer (5)
    SmallChain,     \* a chain shorter than this may be reset (20)
    MayAge,         \* events grow older than the freshness window (24 h)
    MayFail,        \* a peer may be down, or answer with an error
    MayPush,        \* events are pushed to peers too
    MaxEvents       \* bound of the model: events ever made

ASSUME SyncAssumption ==
    /\ Writers \subseteq Nodes /\ Clearnet \subseteq Nodes
    /\ Peers \in [Nodes -> SUBSET Nodes]
    /\ \A n \in Nodes : Cardinality(Peers[n]) <= 3     \* asked in one cycle
    /\ Kinds \subseteq {"public", "private", "economy"}
    /\ PageLimit \in Nat \ {0} /\ MaxRounds \in Nat \ {0}
    /\ SmallChain \in Nat /\ MaxEvents \in Nat
    /\ MayAge \in BOOLEAN /\ MayFail \in BOOLEAN /\ MayPush \in BOOLEAN

VARIABLES
    made,           \* every event ever signed, in order; an event is its place here
    chain,          \* chain[n]: the events of node n, oldest first
    pull,           \* pull[n]: the sync cycle of node n
    favourite,      \* favourite[n]: the peer with the latest last_sync_ok_at
    cooling,        \* cooling[n]: the peers whose cooldown has not elapsed
    stale           \* events up to this one are older than the freshness window

syncVars == <<made, chain, pull, favourite, cooling, stale>>

--------------------------------------------------------------------------------
(* Chains.  GENESIS_HASH is 0; made[e].after is the prev_hash of e.             *)

Genesis == 0
NoNode == "none"
EventIds == 1..Len(made)
Holds(n) == {chain[n][i] : i \in DOMAIN chain[n]}
Head0(c) == IF c = <<>> THEN Genesis ELSE c[Len(c)]
Least(a, b) == IF a < b THEN a ELSE b

(* The types ingest_events lets through: ALLOWED_EVENT_TYPES is copied when the *)
(* module is loaded, and the economy's types only join the set append consults. *)
AllowedTypes == {"public", "private"}

(* What an answer leaves out of a request that came over the public transport.  *)
Withheld(n, e) == n \in Clearnet /\ made[e].kind = "private"

--------------------------------------------------------------------------------
(* The answer of peer m to a locator: the newest entry of the locator that m    *)
(* has too, the page after it, and whether anything but genesis was shared.     *)

Place(m, e) == CHOOSE i \in DOMAIN chain[m] : chain[m][i] = e
Shared(m, locator) == {i \in DOMAIN locator : locator[i] \in Holds(m)}
Start(m, locator) ==
    IF Shared(m, locator) = {} THEN 0
    ELSE Place(m, locator[CHOOSE i \in Shared(m, locator) :
                            \A j \in Shared(m, locator) : j <= i])

(* Mutant: a peer with nothing to add counts as forked.                         *)
NothingNewIsForked(m, locator) == locator # <<>> /\ Start(m, locator) = Len(chain[m])
IsForked(m, locator) == locator # <<>> /\ Shared(m, locator) = {}

(* The part of a page that goes out over the transport of n.                    *)
SentOut(n, page) ==
    LET kept[i \in 0..Len(page)] ==
            IF i = 0 THEN <<>>
            ELSE IF Withheld(n, page[i]) THEN kept[i - 1]
            ELSE Append(kept[i - 1], page[i])
    IN  kept[Len(page)]

(* Mutant: the page starts one event late.                                      *)
LatePage(n, m, locator) ==
    LET from == Start(m, locator) + 1
    IN  SentOut(n, SubSeq(chain[m], from + 1, Least(from + PageLimit, Len(chain[m]))))
Page(n, m, locator) ==
    LET from == Start(m, locator)
    IN  SentOut(n, SubSeq(chain[m], from + 1, Least(from + PageLimit, Len(chain[m]))))

--------------------------------------------------------------------------------
(* The sync cycle of a node.                                                    *)
(*   idle      no cycle                                                         *)
(*   ask       about to build the request to pull.peer                          *)
(*   asked     the request, with pull.locator, is on its way                    *)
(*   answered  the answer pull.events / pull.forked is here                     *)
(*   ingest    event pull.at of the answer is the next to take in               *)

Idle == [phase |-> "idle", peer |-> NoNode, todo |-> {}, rounds |-> 0,
         locator |-> <<>>, events |-> <<>>, forked |-> FALSE, offered |-> {},
         at |-> 0, expected |-> Genesis, accepted |-> 0, known |-> 0, refused |-> 0]

SyncInit ==
    /\ made = <<>>
    /\ chain = [n \in Nodes |-> <<>>]
    /\ pull = [n \in Nodes |-> Idle]
    /\ favourite = [n \in Nodes |-> NoNode]
    /\ cooling = [n \in Nodes |-> {}]
    /\ stale = 0

(* append: a user of n signs an event that extends n's head.                    *)
Append1(n, k) ==
    /\ made' = Append(made, [after |-> Head0(chain[n]), kind |-> k])
    /\ chain' = [chain EXCEPT ![n] = Append(@, Len(made) + 1)]
    /\ UNCHANGED <<pull, favourite, cooling, stale>>

(* A freshness window passes: everything made so far is too old to be taken in. *)
Age ==
    /\ MayAge /\ stale < Len(made)
    /\ stale' = Len(made)
    /\ UNCHANGED <<made, chain, pull, favourite, cooling>>

(* The cooldown of a peer elapses.                                              *)
CoolDown(n, m) ==
    /\ m \in cooling[n]
    /\ cooling' = [cooling EXCEPT ![n] = @ \ {m}]
    /\ UNCHANGED <<made, chain, pull, favourite, stale>>

(* The peer a cycle turns to: the one that was last synced with, if it is among *)
(* those left, and else any of them (seeds, failures and age break the tie).    *)
Preferred(n, todo) == IF favourite[n] \in todo THEN {favourite[n]} ELSE todo

Turn(todo, m) == [Idle EXCEPT !.phase = "ask", !.peer = m, !.todo = todo]
Again(p, rounds) == [Turn(p.todo, p.peer) EXCEPT !.rounds = rounds]

(* _run_public_sync_cycle with the peers that are not cooling down.             *)
Begin(n) ==
    /\ pull[n].phase = "idle"
    /\ \E m \in Preferred(n, Peers[n] \ cooling[n]) :
          pull' = [pull EXCEPT ![n] = Turn(Peers[n] \ cooling[n], m)]
    /\ UNCHANGED <<made, chain, favourite, cooling, stale>>

Ask(n) ==
    /\ pull[n].phase = "ask"
    /\ pull' = [pull EXCEPT ![n].phase = "asked", ![n].locator = chain[n]]
    /\ UNCHANGED <<made, chain, favourite, cooling, stale>>

(* The request handler of the peer; "offered" remembers what the peer had.      *)
Answer(n) ==
    /\ pull[n].phase = "asked"
    /\ LET m == pull[n].peer
       IN  pull' = [pull EXCEPT ![n] =
               [@ EXCEPT !.phase = "answered", !.locator = <<>>,
                         !.forked = IsForked(m, pull[n].locator),
                         !.events = Page(n, m, pull[n].locator),
                         !.offered = Holds(m)]]
    /\ UNCHANGED <<made, chain, favourite, cooling, stale>>

(* The cycle ends with the first peer that went well ...                        *)
Success(n, p) ==
    /\ pull' = [pull EXCEPT ![n] = Idle]
    /\ favourite' = [favourite EXCEPT ![n] = p.peer]
    /\ UNCHANGED cooling

(* ... and otherwise goes on with the peers left, the failed one cooling down.  *)
Failure(n, p) ==
    LET rest == p.todo \ {p.peer}
    IN  /\ IF rest = {} THEN pull' = [pull EXCEPT ![n] = Idle]
           ELSE \E m \in Preferred(n, rest) : pull' = [pull EXCEPT ![n] = Turn(rest, m)]
        /\ cooling' = [cooling EXCEPT ![n] = @ \cup {p.peer}]
        /\ UNCHANGED favourite

(* The peer is down, answers with an error, or asks to be left alone (429).     *)
NoAnswer(n) ==
    /\ MayFail /\ pull[n].phase = "asked"
    /\ Failure(n, pull[n])
    /\ UNCHANGED <<made, chain, stale>>

Small(n) == Len(chain[n]) < SmallChain

(* A forked answer: a small chain is emptied and the peer asked again from      *)
(* genesis, in the same round; a longer one makes the cycle end as forked.      *)
Reset(n) ==
    /\ pull[n].phase = "answered" /\ pull[n].forked /\ Small(n)
    /\ chain' = [chain EXCEPT ![n] = <<>>]
    /\ pull' = [pull EXCEPT ![n] = Again(@, @.rounds)]
    /\ UNCHANGED <<made, favourite, cooling, stale>>

ForkReport(n) ==
    /\ pull[n].phase = "answered" /\ pull[n].forked /\ ~Small(n)
    /\ pull' = [pull EXCEPT ![n] = Idle]
    /\ cooling' = [cooling EXCEPT ![n] = @ \cup {pull[n].peer}]
    /\ UNCHANGED <<made, chain, favourite, stale>>

(* An empty answer ends the pull well.                                          *)
NothingNew(n) ==
    /\ pull[n].phase = "answered" /\ ~pull[n].forked /\ pull[n].events = <<>>
    /\ Success(n, pull[n])
    /\ UNCHANGED <<made, chain, stale>>

IngestStart(n) ==
    /\ pull[n].phase = "answered" /\ ~pull[n].forked /\ pull[n].events # <<>>
    /\ pull' = [pull EXCEPT ![n] =
                  [@ EXCEPT !.phase = "ingest", !.at = 1, !.accepted = 0, !.known = 0,
                            !.refused = 0, !.expected = Head0(chain[n])]]
    /\ UNCHANGED <<made, chain, favourite, cooling, stale>>

(* Mutant: the head is not compared again before an event is added.             *)
ExtendsExpected(n, e, expected) ==
    e > stale /\ made[e].kind \in AllowedTypes /\ made[e].after = expected

(* What ingest_events asks of an event: that it was signed and names itself by  *)
(* its hash, its type, the head it extends (as the batch left it, and as it is  *)
(* now), and its age.                                                           *)
Ingestible(n, e, expected) ==
    /\ e \in EventIds
    /\ made[e].kind \in AllowedTypes
    /\ made[e].after = expected /\ made[e].after = Head0(chain[n])
    /\ e > stale

(* One event of the answer: known, taken in, or refused.                        *)
IngestOne(n) ==
    /\ pull[n].phase = "ingest" /\ pull[n].at <= Len(pull[n].events)
    /\ LET e == pull[n].events[pull[n].at]
       IN  \/ /\ e \in Holds(n)
              /\ pull' = [pull EXCEPT ![n].at = @ + 1, ![n].known = @ + 1]
              /\ UNCHANGED chain
           \/ /\ e \notin Holds(n) /\ Ingestible(n, e, pull[n].expected)
              /\ chain' = [chain EXCEPT ![n] = Append(@, e)]
              /\ pull' = [pull EXCEPT ![n].at = @ + 1, ![n].accepted = @ + 1,
                                     ![n].expected = e]
           \/ /\ e \notin Holds(n) /\ ~Ingestible(n, e, pull[n].expected)
              /\ pull' = [pull EXCEPT ![n].at = @ + 1, ![n].refused = @ + 1]
              /\ UNCHANGED chain
    /\ UNCHANGED <<made, favourite, cooling, stale>>

(* Mutant: a refused event does not fail the pull.                              *)
NoneRefused(p) == TRUE
WentWell(p) == p.refused = 0

(* The pull is over when everything was known, the page was not full, or the    *)
(* rounds are used up.                                                          *)
LastRound(p) ==
    \/ p.accepted = 0 /\ p.known >= Len(p.events)
    \/ Len(p.events) < PageLimit
    \/ p.rounds + 1 = MaxRounds

Ingested(n) ==
    /\ pull[n].phase = "ingest" /\ pull[n].at > Len(pull[n].events)
    /\ LET p == pull[n]
       IN  \/ ~WentWell(p) /\ Failure(n, p)
           \/ WentWell(p) /\ LastRound(p) /\ Success(n, p)
           \/ /\ WentWell(p) /\ ~LastRound(p)
              /\ pull' = [pull EXCEPT ![n] = Again(p, p.rounds + 1)]
              /\ UNCHANGED <<favourite, cooling>>
    /\ UNCHANGED <<made, chain, stale>>

(* infonet_peer_push: an event, pushed when it was appended, reaches n in any   *)
(* order, late, again, or never.                                                *)
Pushed(n, e) ==
    /\ MayPush /\ e \notin Holds(n)
    /\ Ingestible(n, e, Head0(chain[n]))
    /\ chain' = [chain EXCEPT ![n] = Append(@, e)]
    /\ UNCHANGED <<made, pull, favourite, cooling, stale>>

PullStep(n) ==
    \/ Ask(n) \/ Answer(n) \/ Reset(n) \/ ForkReport(n) \/ NothingNew(n)
    \/ IngestStart(n) \/ IngestOne(n) \/ Ingested(n)

SyncNext ==
    \/ Len(made) < MaxEvents /\ \E n \in Writers, k \in Kinds : Append1(n, k)
    \/ Age
    \/ \E n \in Nodes : \/ Begin(n) \/ PullStep(n) \/ NoAnswer(n)
                        \/ \E m \in Nodes : CoolDown(n, m)
                        \/ \E e \in EventIds : Pushed(n, e)

SyncSpec == SyncInit /\ [][SyncNext]_syncVars

(* The sync loop wakes every five seconds, requests end by their timeout, and a *)
(* cooldown elapses.                                                            *)
SyncFairness ==
    \A n \in Nodes : /\ WF_syncVars(Begin(n)) /\ WF_syncVars(PullStep(n))
                     /\ \A m \in Nodes : WF_syncVars(CoolDown(n, m))

FairSyncSpec == SyncSpec /\ SyncFairness

--------------------------------------------------------------------------------
(* Properties.                                                                  *)

(* Types of the variables.                                                      *)
SyncTypeOK ==
    /\ made \in Seq([after : Nat, kind : Kinds])
    /\ chain \in [Nodes -> Seq(EventIds)]
    /\ favourite \in [Nodes -> Nodes \cup {NoNode}]
    /\ cooling \in [Nodes -> SUBSET Nodes]
    /\ stale \in 0..Len(made)
    /\ \A n \in Nodes :
          /\ pull[n].phase \in {"idle", "ask", "asked", "answered", "ingest"}
          /\ pull[n].phase # "idle" => pull[n].peer \in pull[n].todo
          /\ pull[n].todo \subseteq Peers[n]

(* Every chain is whole: each event extends the one before it, whatever came by *)
(* appends, pulls and pushes in between (ingest_events' two checks of the head).*)
Whole(n) ==
    \A i \in DOMAIN chain[n] :
        made[chain[n][i]].after = (IF i = 1 THEN Genesis ELSE chain[n][i - 1])

(* Two nodes that share an event agree on everything before it: there is one    *)
(* history behind every event, however the nodes came by it.                    *)
OneHistory ==
    \A n, m \in Nodes : \A i \in DOMAIN chain[n], j \in DOMAIN chain[m] :
        chain[n][i] = chain[m][j] => /\ i = j
                                     /\ \A k \in 1..i : chain[n][k] = chain[m][k]

(* A chain only grows, unless it is small and emptied: a node with a chain of   *)
(* SmallChain events or more never gives one up to a peer's answer.             *)
GrowsOrResets ==
    [][\A n \in Nodes :
          \/ Len(chain[n]) <= Len(chain'[n])
             /\ \A i \in DOMAIN chain[n] : chain'[n][i] = chain[n][i]
          \/ chain'[n] = <<>> /\ Len(chain[n]) < SmallChain]_syncVars

(* A reset gives up no event the answering peer had: the chain that is dropped  *)
(* shares nothing with the peer's, however much was appended or pushed between  *)
(* the request and the answer.                                                  *)
ResetDropsStrangers ==
    [][\A n \in Nodes : chain[n] # <<>> /\ chain'[n] = <<>>
          => Holds(n) \cap pull[n].offered = {}]_syncVars

(* A pull reported ok leaves nothing behind: unless its rounds were used up,    *)
(* something was withheld from its transport, or a whole page had been pushed   *)
(* before the node took it in (which ends the pull, though more pages follow),  *)
(* the node then has every event the peer held when it answered last.           *)
OkIsCaughtUp ==
    [][\A n \in Nodes :
          /\ pull[n].phase \in {"answered", "ingest"} /\ pull'[n] = Idle
          /\ pull[n].peer \notin cooling'[n]
          /\ pull[n].rounds + 1 < MaxRounds /\ pull[n].known < PageLimit
          /\ \A e \in pull[n].offered : ~Withheld(n, e)
          => pull[n].offered \subseteq Holds(n)]_syncVars

(* The comment of the recovery: a small chain is reset when "the remote has a   *)
(* longer chain" (main.py:1791).                                                *)
ResetForLonger ==
    [][\A n \in Nodes : chain[n] # <<>> /\ chain'[n] = <<>>
          => Cardinality(pull[n].offered) > Len(chain[n])]_syncVars

(* While only w appends, every chain is a first part of w's: there is nothing to*)
(* fork from, and what a follower lacks is always at the end.                   *)
FollowersTrail(w) ==
    \A n \in Nodes : /\ Len(chain[n]) <= Len(chain[w])
                     /\ \A i \in DOMAIN chain[n] : chain[n][i] = chain[w][i]

(* With one writer whose events every follower may pull, directly or through    *)
(* another follower, every node ends up with the writer's chain.                *)
CatchesUp == \A n \in Nodes, w \in Writers : <>[](chain[n] = chain[w])
================================================================================
