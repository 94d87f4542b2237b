------------------------------- MODULE Governance -------------------------------
(* The course of one proposal: a petition (petition.py, challenge.py) or a      *)
(* protocol upgrade (upgrade_hash.py).  Nothing is stored: the status is worked *)
(* out, whenever it is asked for, from the events on the chain and from the     *)
(* chain's majority time.  Events bear their authors' dates, and come late, so  *)
(* what was counted yesterday may be counted differently today.                 *)
(*                                                                              *)
(* Days are the unit of time, and the proposal is filed on day 0.  A node's     *)
(* weight (oracle_rep_active) is constant here; one node's events of one type   *)
(* bear different dates, so the sequence number that breaks ties is left out.   *)
EXTENDS Integers, FiniteSets, FiniteSetsExt

CONSTANTS
    Authors,            \* the nodes that author events, all known before the filing
    Weight,             \* Weight[n]: the governance weight of n
    Who,                \* bound of the model: Who[k], the nodes that author events of
                        \* kind k: "sign", "vote", "judge" (the challenge, votes on
                        \* it, the enactment) and "other"
    Heavy,              \* the nodes that may signal they are ready for an upgrade
    Sample,             \* of how many nodes the majority time is the median (11)
    Proposals,          \* a subset of {"petition", "upgrade"}
    SignWindow, VoteWindow, ChallengeWindow, ActivationWindow,    \* in days
    Lag,                \* how old an event may be when it arrives (a day)
    LastDay,            \* bound of the model: the clock stops
    MaxFacts            \* bound of the model: events about the proposal, besides
                        \* signatures dated on the day it was filed

(* The nodes among whose latest dates the median is taken: those with the       *)
(* latest ones.                                                                 *)
Sampled == IF Cardinality(Authors) < Sample THEN Cardinality(Authors) ELSE Sample

ASSUME GovernanceAssumption ==
    /\ IsFiniteSet(Authors) /\ Sample \in Nat /\ Sampled % 2 = 1
    /\ Weight \in [Authors -> Nat] /\ Heavy \subseteq Authors
    /\ Who \in [{"sign", "vote", "judge", "other"} -> SUBSET Authors]
    /\ Proposals \subseteq {"petition", "upgrade"}
    /\ {SignWindow, VoteWindow, ChallengeWindow, ActivationWindow, Lag} \subseteq Nat
    /\ LastDay \in Nat /\ MaxFacts \in Nat

VARIABLES
    proposal,           \* which of the two it is
    day,                \* the day it is
    latest,             \* latest[n]: the date of n's latest event
    signs,              \* signatures [node, at]
    votes,              \* votes [node, at, vote], "for" or "against"
    objected,           \* {}, or {the date of the first challenge}
    rulings,            \* votes about the challenge, "uphold" or "void"
    ready,              \* nodes that signalled they have the release
    enacted             \* petition_execute or upgrade_activate is on the chain

govVars == <<proposal, day, latest, signs, votes, objected, rulings, ready, enacted>>

GovInit ==
    /\ proposal \in Proposals
    /\ day = 0 /\ latest = [n \in Authors |-> 0]
    /\ signs = {} /\ votes = {} /\ objected = {} /\ rulings = {}
    /\ ready = {} /\ enacted = FALSE

--------------------------------------------------------------------------------
(* What the chain says.                                                         *)

(* Mutant: the majority time is the latest date there is.                       *)
LatestTime == CHOOSE t \in {latest[n] : n \in Authors} : \A n \in Authors : latest[n] <= t
(* chain_majority_time: the median of the sampled nodes' latest dates.          *)
MajorityTime ==
    CHOOSE t \in {latest[n] : n \in Authors} :
        /\ 2 * Cardinality({n \in Authors : latest[n] > t}) < Sampled
        /\ 2 * Cardinality({n \in Authors : latest[n] >= t}) > Sampled

TotalWeight(nodes) == Cardinality(UNION {{n} \X (1..Weight[n]) : n \in nodes})
Reaches(part, percent, whole) == 100 * part >= percent * whole

SignPercent == 25
QuorumPercent == [petition |-> 30, upgrade |-> 40]
SupermajorityPercent == [petition |-> 67, upgrade |-> 80]

(* Signatures count when they are dated within the window.                      *)
InTime == {s \in signs : s.at <= SignWindow}
Seconded ==
    LET weight == TotalWeight({s.node : s \in InTime})
    IN  weight > 0 /\ Reaches(weight, SignPercent, TotalWeight(Authors))

(* The vote starts with the last signature of those seen: of every signer of a  *)
(* petition, late ones too; of those in time, and all they sign, of an upgrade. *)
Signers == {s.node : s \in IF proposal = "petition" THEN signs ELSE InTime}
(* Mutant: the vote starts when the status is asked for.                        *)
StartsNow == MajorityTime
VoteStart ==
    LET seen == Signers IN Max({s.at : s \in {x \in signs : x.node \in seen}})
VoteEnd == VoteStart + VoteWindow

(* Mutant: there is no last day.                                                *)
FirstSince(ballots, from, until) ==
    LET valid == {b \in ballots : from <= b.at}
    IN  {b \in valid : \A c \in valid : c.node = b.node => b.at <= c.at}
(* The first vote of each node between two days.                                *)
Counted(ballots, from, until) ==
    LET valid == {b \in ballots : from <= b.at /\ b.at <= until}
    IN  {b \in valid : \A c \in valid : c.node = b.node => b.at <= c.at}

Behind(choice, ballots) == TotalWeight({b.node : b \in {x \in ballots : x.vote = choice}})

Carried ==
    LET ballots == Counted(votes, VoteStart, VoteEnd)
        in_favour == Behind("for", ballots)
        cast == in_favour + Behind("against", ballots)
    IN  /\ cast > 0
        /\ Reaches(cast, QuorumPercent[proposal], TotalWeight(Authors))
        /\ Reaches(in_favour, SupermajorityPercent[proposal], cast)

ChallengeEnd == VoteEnd + ChallengeWindow

(* A petition's challenge is voted on for a window of its own; an upgrade's     *)
(* until the window after the vote is over.                                     *)
RulingEnd(filed) == IF proposal = "petition" THEN filed + ChallengeWindow ELSE ChallengeEnd
Voided ==
    \E filed \in objected :
        LET ballots == Counted(rulings, filed, RulingEnd(filed))
        IN  /\ MajorityTime > RulingEnd(filed)
            /\ Behind("uphold", ballots) > Behind("void", ballots)

Prepared == Heavy # {} /\ Reaches(Cardinality(ready \cap Heavy), 67, Cardinality(Heavy))

(* compute_petition_state and compute_upgrade_state.                            *)
Enactment ==
    IF proposal = "petition" THEN (IF enacted THEN "executed" ELSE "passed")
    ELSE IF enacted THEN "activated"
    ELSE IF ~Prepared /\ MajorityTime > ChallengeEnd + ActivationWindow THEN "failed_activation"
    ELSE "activation"

Status ==
    IF ~Seconded
    THEN IF MajorityTime > SignWindow THEN "failed_signatures" ELSE "signatures"
    ELSE IF MajorityTime <= VoteEnd THEN "voting"
    ELSE IF ~Carried THEN "failed_vote"
    ELSE IF Voided THEN "voided_challenge"
    ELSE IF MajorityTime <= ChallengeEnd THEN "challenge"
    ELSE Enactment

--------------------------------------------------------------------------------
(* Events.  Anything is added to the chain at any stage: no event is refused    *)
(* for the status of the proposal.                                              *)

(* The dates an arriving event may bear: not older than the freshness window,   *)
(* in any order, whatever its author dated before.                              *)
Dates == Max({0, day - Lag}) .. day

NextDay == day < LastDay /\ day' = day + 1
           /\ UNCHANGED <<proposal, latest, signs, votes, objected, rulings, ready, enacted>>

(* Mutant: the date of a node's last event counts, not its latest date.         *)
AuthoredLast(n, t) ==
    /\ t \in Dates
    /\ latest' = [latest EXCEPT ![n] = t]
    /\ UNCHANGED <<proposal, day>>
Authored(n, t) ==
    /\ t \in Dates
    /\ latest' = [latest EXCEPT ![n] = Max({@, t})]
    /\ UNCHANGED <<proposal, day>>

Facts ==
    Cardinality({s \in signs : s.at > 0}) + Cardinality(votes) + Cardinality(objected) + Cardinality(rulings)
    + Cardinality(ready) + (IF enacted THEN 1 ELSE 0)
About(n, t) == Facts < MaxFacts /\ Authored(n, t)

(* Anything else a node adds to the chain.                                      *)
Other(n, t) ==
    /\ latest[n] < t /\ Authored(n, t)
    /\ UNCHANGED <<signs, votes, objected, rulings, ready, enacted>>

Sign(n, t) ==
    /\ About(n, t)
    /\ signs' = signs \cup {[node |-> n, at |-> t]}
    /\ UNCHANGED <<votes, objected, rulings, ready, enacted>>

Cast(n, t, ballots, choices) ==
    /\ \A b \in ballots : b.node = n => b.at # t
    /\ About(n, t)
    /\ \E v \in choices : ballots' = ballots \cup {[node |-> n, at |-> t, vote |-> v]}

Vote(n, t) ==
    /\ Cast(n, t, votes, {"for", "against"})
    /\ UNCHANGED <<signs, objected, rulings, ready, enacted>>

(* The first challenge counts, any further one is only an event.                *)
Challenge(n, t) ==
    /\ objected = {} /\ About(n, t)
    /\ objected' = {t}
    /\ UNCHANGED <<signs, votes, rulings, ready, enacted>>

Rule(n, t) ==
    /\ Cast(n, t, rulings, {"uphold", "void"})
    /\ UNCHANGED <<signs, votes, objected, ready, enacted>>

SignalReady(n, t) ==
    /\ proposal = "upgrade" /\ n \notin ready /\ About(n, t)
    /\ ready' = ready \cup {n}
    /\ UNCHANGED <<signs, votes, objected, rulings, enacted>>

Enact(n, t) ==
    /\ ~enacted /\ About(n, t)
    /\ enacted' = TRUE
    /\ UNCHANGED <<signs, votes, objected, rulings, ready>>

GovNext ==
    \/ NextDay
    \/ \E t \in 0..LastDay :
          \/ \E n \in Who["other"] : Other(n, t)
          \/ \E n \in Who["sign"] : Sign(n, t)
          \/ \E n \in Who["vote"] : Vote(n, t)
          \/ \E n \in Who["judge"] : Challenge(n, t) \/ Rule(n, t) \/ Enact(n, t)
          \/ \E n \in Heavy : SignalReady(n, t)

GovSpec == GovInit /\ [][GovNext]_govVars

--------------------------------------------------------------------------------
(* Properties.                                                                  *)

(* Types of the variables.                                                      *)
GovTypeOK ==
    /\ proposal \in Proposals /\ day \in 0..LastDay
    /\ latest \in [Authors -> 0..day] /\ objected \subseteq 0..day
    /\ signs \subseteq [node : Authors, at : 0..day]
    /\ votes \subseteq [node : Authors, at : 0..day, vote : {"for", "against"}]
    /\ rulings \subseteq [node : Authors, at : 0..day, vote : {"uphold", "void"}]
    /\ ready \subseteq Heavy /\ enacted \in BOOLEAN

(* No clock decides alone: fewer nodes than half of the sample cannot put the   *)
(* majority time after all that the others dated, and nodes that leave out more *)
(* than half of the sample cannot hold it before all that those dated           *)
(* ("no single node's local clock can unilaterally trigger or delay a           *)
(* transition", time_validity.py:17).                                           *)
TimeIsShared ==
    LET now == MajorityTime IN
    \A F \in SUBSET Authors :
        /\ 2 * Cardinality(F) < Sampled => \E n \in Authors \ F : latest[n] >= now
        /\ 2 * Cardinality(Authors \ F) > Sampled => \E n \in Authors \ F : latest[n] <= now

(* The majority time never goes back, however late and out of order events come.*)
TimeAdvances == [][MajorityTime' >= MajorityTime]_govVars

(* No signature comes, and no event older than the majority time.               *)
Timely ==
    /\ signs' = signs
    /\ \A b \in (votes' \ votes) \cup (rulings' \ rulings) : b.at >= MajorityTime
    /\ \A filed \in objected' \ objected : filed >= MajorityTime

(* Unless a signature or a late event comes in, what was decided stays decided: *)
(* a proposal that failed or was voided stays so, one that was carried is never *)
(* put to the vote again or found not to be carried, an upgrade stays activated *)
(* (while a petition, even executed, may still be voided by its challenge).     *)
OnlyForward ==
    [][Timely =>
        LET was == Status  is == Status' IN
        /\ was \in {"failed_signatures", "failed_vote", "voided_challenge", "activated"}
              => is = was
        /\ was \in {"challenge", "passed", "executed", "activation", "failed_activation"}
              => is \notin {"signatures", "failed_signatures", "voting", "failed_vote"}
        /\ was = "voting" => is \notin {"signatures", "failed_signatures"}
        /\ was = "executed" => is \in {"executed", "voided_challenge"}]_govVars

(* A proposal does not stay open: once the majority time is past the signature  *)
(* window and past the windows that follow the last signature, it is decided,   *)
(* whatever challenge is pending then.                                          *)
DecidedInTime ==
    LET last == Max({SignWindow} \cup {s.at + VoteWindow + ChallengeWindow : s \in signs})
    IN  MajorityTime > last =>
            Status \in {"failed_signatures", "failed_vote", "voided_challenge", "passed",
                        "executed", "activation", "activated", "failed_activation"}
================================================================================
