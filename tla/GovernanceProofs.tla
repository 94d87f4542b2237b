---------------------------- MODULE GovernanceProofs ----------------------------
(* What holds of a proposal for any number of authors of which an odd number is *)
(* sampled, any weights, windows and lateness: its types, that a decision is    *)
(* taken back only by a signature or a late event, that a proposal does not stay*)
(* open, and that the majority time is nobody's alone and never goes back.      *)
EXTENDS Governance, FiniteSetTheorems, WellFoundedInduction, TLAPS

(* A nonempty set of naturals has a least element.                              *)
LEMMA LeastOf ==
    ASSUME NEW S \in SUBSET Nat, S # {}
    PROVE  \E x \in S : \A y \in S : x <= y
<1> DEFINE R == OpToRel(<, Nat)
<1>1. IsWellFoundedOn(R, Nat)
  BY NatLessThanWellFounded
<1>2. \A x, y \in Nat : x < y => <<x, y>> \in R
  BY Zenon DEF OpToRel
<1> HIDE DEF R
<1>3. PICK x \in S : \A y \in S : ~ (<<y, x>> \in R)
  BY <1>1, WFMin
<1>4. \A y \in S : <<y, x>> \notin R => x <= y
  BY <1>2
<1> QED  BY <1>3, <1>4

(* Dates up to some day have a latest one: the least day that none exceeds.     *)
LEMMA LatestDate ==
    ASSUME NEW d \in Nat, NEW S \in SUBSET (0..d), S # {}
    PROVE  Max(S) \in S /\ \A x \in S : x <= Max(S)
<1> DEFINE T == {t \in Nat : \A x \in S : x <= t}
<1>1. d \in T /\ T \subseteq Nat
  OBVIOUS
<1>2. PICK t \in T : \A u \in T : t <= u
  BY <1>1, LeastOf
<1>3. t \in S
  <2> SUFFICES ASSUME t \notin S PROVE FALSE
    OBVIOUS
  <2>1. \A x \in S : x \in Nat /\ x < t
    BY <1>2
  <2>2. PICK y \in S : TRUE
    OBVIOUS
  <2>3. t - 1 \in Nat /\ \A x \in S : x <= t - 1
    BY <2>1, <2>2
  <2>4. t - 1 \in T
    BY <2>3
  <2> QED  BY <1>2, <2>3, <2>4
<1>4. \A x \in S : t >= x
  BY <1>2
<1>5. \E m \in S : \A x \in S : m >= x
  BY <1>3, <1>4
<1>6. Max(S) \in S /\ \A x \in S : Max(S) >= x
  BY <1>5 DEF Max
<1> QED  BY <1>6

(* The later of two days is one of them, and before neither.                  *)
LEMMA LaterOf ==
    ASSUME NEW a \in Int, NEW b \in Int
    PROVE  /\ Max({a, b}) \in {a, b}
           /\ Max({a, b}) >= a /\ Max({a, b}) >= b
<1>1. \E m \in {a, b} : \A x \in {a, b} : m >= x
  OBVIOUS
<1> QED  BY <1>1 DEF Max

--------------------------------------------------------------------------------
(* The majority time.                                                           *)

Later(f, t) == {n \in Authors : f[n] > t}
NotSooner(f, t) == {n \in Authors : f[n] >= t}
IsMedian(f, t) ==
    /\ t \in {f[n] : n \in Authors}
    /\ 2 * Cardinality(Later(f, t)) < Sampled
    /\ 2 * Cardinality(NotSooner(f, t)) > Sampled

(* Some nodes, of whom some more may be left out.                               *)
LEMMA SomeNodes ==
    ASSUME NEW S \in SUBSET Authors, NEW T \in SUBSET S
    PROVE  /\ Cardinality(S) \in Nat /\ Cardinality(T) \in Nat
           /\ Cardinality(T) <= Cardinality(S)
<1>1. IsFiniteSet(S) /\ IsFiniteSet(T)
  BY FS_Subset, GovernanceAssumption
<1>2. Cardinality(T) <= Cardinality(S)
  BY <1>1, FS_Subset
<1> QED  BY <1>1, <1>2, FS_CardinalityType

(* The sample has an odd size, and no more nodes than there are.                *)
LEMMA SampleTyped ==
    /\ Sampled \in Nat /\ Sampled % 2 = 1 /\ Sampled <= Cardinality(Authors)
    /\ Cardinality(Authors) \in Nat
<1> DEFINE c == Cardinality(Authors)
<1>1. c \in Nat /\ Sample \in Nat /\ Sampled % 2 = 1
  BY FS_CardinalityType, GovernanceAssumption
<1>2. Sampled = IF c < Sample THEN c ELSE Sample
  BY DEF Sampled
<1> HIDE DEF c
<1>3. Sampled \in Nat /\ Sampled <= c
  BY <1>1, <1>2
<1> QED  BY <1>1, <1>3 DEF c

(* Dates of which an odd number is sampled have a median (chain_majority_time): *)
(* the least day that less than half of the sample exceed.                      *)
LEMMA MedianExists ==
    ASSUME NEW d \in Nat, NEW f \in [Authors -> 0..d]
    PROVE  \E t \in 0..d : IsMedian(f, t)
<1> DEFINE T == {t \in Nat : 2 * Cardinality(Later(f, t)) < Sampled}
<1>1. Sampled \in Nat /\ Sampled % 2 = 1 /\ Sampled <= Cardinality(Authors)
      /\ Cardinality(Authors) \in Nat
  BY SampleTyped
<1>2. \A t \in Nat : /\ Cardinality(Later(f, t)) \in Nat
                     /\ Cardinality(NotSooner(f, t)) \in Nat
  BY SomeNodes DEF Later, NotSooner
<1>3. d \in T
  <2>1. Later(f, d) = {}
    BY DEF Later
  <2>2. Cardinality(Later(f, d)) = 0
    BY <2>1, FS_EmptySet
  <2> QED  BY <1>1, <2>2
<1>4. PICK t \in T : \A u \in T : t <= u
  BY <1>3, LeastOf
<1>5. t \in 0..d /\ 2 * Cardinality(Later(f, t)) < Sampled
  BY <1>3, <1>4
<1>6. 2 * Cardinality(NotSooner(f, t)) > Sampled
  <2> DEFINE many == Cardinality(NotSooner(f, t))
  <2>1. many \in Nat
    BY <1>2, <1>5
  <2>2. many >= Cardinality(Authors) \/ 2 * many >= Sampled
    <3>1. CASE t = 0
      <4>1. NotSooner(f, t) = Authors
        BY <3>1 DEF NotSooner
      <4> QED  BY <1>1, <4>1
    <3>2. CASE t # 0
      <4>1. t - 1 \in Nat /\ ~(2 * Cardinality(Later(f, t - 1)) < Sampled)
        BY <1>4, <1>5, <3>2
      <4>2. NotSooner(f, t) = Later(f, t - 1)
        BY <1>5, <3>2 DEF NotSooner, Later
      <4>3. ~(2 * many < Sampled)
        BY <4>1, <4>2
      <4> HIDE DEF many
      <4> QED  BY <1>1, <2>1, <4>3
    <3> QED  BY <3>1, <3>2
  <2> HIDE DEF many
  <2>3. 2 * many >= Sampled /\ 2 * many # Sampled
    BY <1>1, <2>1, <2>2
  <2> QED  BY <1>1, <2>1, <2>3 DEF many
<1>7. t \in {f[n] : n \in Authors}
  <2> SUFFICES ASSUME t \notin {f[n] : n \in Authors} PROVE FALSE
    OBVIOUS
  <2>1. NotSooner(f, t) = Later(f, t)
    BY <1>5 DEF NotSooner, Later
  <2> DEFINE many == Cardinality(Later(f, t))
  <2>2. many \in Nat /\ 2 * many < Sampled /\ 2 * many > Sampled
    BY <1>2, <1>5, <1>6, <2>1
  <2> HIDE DEF many
  <2> QED  BY <1>1, <2>2
<1> QED  BY <1>5, <1>6, <1>7 DEF IsMedian

(* Where every date moves ahead or stays, the median does not go back.          *)
LEMMA MedianAdvances ==
    ASSUME NEW f \in [Authors -> Nat], NEW g \in [Authors -> Nat],
           \A n \in Authors : f[n] <= g[n],
           NEW t, IsMedian(f, t), NEW u, IsMedian(g, u)
    PROVE  t <= u
<1>1. t \in Nat /\ u \in Nat
  BY DEF IsMedian
<1> SUFFICES ASSUME u < t PROVE FALSE
  BY <1>1
<1>2. NotSooner(f, t) \subseteq Later(g, u) /\ Later(g, u) \subseteq Authors
  BY <1>1 DEF Later, NotSooner
<1> DEFINE x == Cardinality(NotSooner(f, t))
           y == Cardinality(Later(g, u))
<1>3. x \in Nat /\ y \in Nat /\ x <= y /\ 2 * x > Sampled /\ 2 * y < Sampled
  BY <1>2, SomeNodes DEF IsMedian
<1> HIDE DEF x, y
<1> QED  BY <1>3, SampleTyped

(* What few nodes date is not all that is dated so late, and nodes of which     *)
(* few remain do not hold back those that do.                                   *)
LEMMA MedianIsShared ==
    ASSUME NEW f \in [Authors -> Nat], NEW t, IsMedian(f, t), NEW F \in SUBSET Authors
    PROVE  /\ 2 * Cardinality(F) < Sampled => \E n \in Authors \ F : f[n] >= t
           /\ 2 * Cardinality(Authors \ F) > Sampled => \E n \in Authors \ F : f[n] <= t
<1>1. t \in Nat
  BY DEF IsMedian
<1>2. ASSUME 2 * Cardinality(F) < Sampled, ~ \E n \in Authors \ F : f[n] >= t
      PROVE  FALSE
  <2>1. NotSooner(f, t) \subseteq F
    BY <1>2 DEF NotSooner
  <2> DEFINE x == Cardinality(NotSooner(f, t))
             y == Cardinality(F)
  <2>2. x \in Nat /\ y \in Nat /\ x <= y /\ 2 * x > Sampled /\ 2 * y < Sampled
    BY <1>2, <2>1, SomeNodes DEF IsMedian
  <2> HIDE DEF x, y
  <2> QED  BY <2>2, SampleTyped
<1>3. ASSUME 2 * Cardinality(Authors \ F) > Sampled, ~ \E n \in Authors \ F : f[n] <= t
      PROVE  FALSE
  <2>1. Authors \ F \subseteq Later(f, t) /\ Later(f, t) \subseteq Authors
    BY <1>1, <1>3 DEF Later
  <2> DEFINE x == Cardinality(Authors \ F)
             y == Cardinality(Later(f, t))
  <2>2. x \in Nat /\ y \in Nat /\ x <= y /\ 2 * x > Sampled /\ 2 * y < Sampled
    BY <1>3, <2>1, SomeNodes DEF IsMedian
  <2> HIDE DEF x, y
  <2> QED  BY <2>2, SampleTyped
<1> QED  BY <1>2, <1>3

(* The majority time is a median, so a day there has been.                    *)
LEMMA MajorityIsMedian ==
    ASSUME NEW d \in Nat, latest \in [Authors -> 0..d]
    PROVE  IsMedian(latest, MajorityTime) /\ MajorityTime \in 0..d
<1>1. PICK t \in 0..d : IsMedian(latest, t)
  BY MedianExists
<1>2. IsMedian(latest, MajorityTime)
  BY <1>1 DEF MajorityTime, IsMedian, Later, NotSooner
<1> QED  BY <1>2 DEF IsMedian

--------------------------------------------------------------------------------
(* Types.                                                                       *)

LEMMA StartTyped == GovInit => GovTypeOK
<1> SUFFICES ASSUME GovInit PROVE GovTypeOK
  OBVIOUS
<1>1. day \in 0..LastDay /\ 0 \in 0..day /\ latest \in [Authors -> 0..day]
  BY GovernanceAssumption DEF GovInit
<1>2. enacted \in BOOLEAN
  BY DEF GovInit
<1> QED  BY <1>1, <1>2 DEF GovInit, GovTypeOK

(* An event is dated between the filing and today.                            *)
LEMMA DatesTyped ==
    ASSUME GovTypeOK, NEW t \in Dates
    PROVE  t \in 0..day
<1>1. day \in Nat /\ Lag \in Nat
  BY GovernanceAssumption DEF GovTypeOK
<1> DEFINE b == day - Lag
           low == Max({0, b})
<1>2. b \in Int
  BY <1>1
<1>3. low \in {0, b} /\ low >= 0 /\ t \in low .. day
  <2>1. t \in low .. day
    BY DEF Dates
  <2> HIDE DEF b
  <2> QED  BY <1>2, <2>1, LaterOf
<1> HIDE DEF b, low
<1> QED  BY <1>1, <1>2, <1>3

(* Whoever acts is an author.                                                 *)
LEMMA RolesAreAuthors ==
    /\ \A k \in {"sign", "vote", "judge", "other"} : Who[k] \subseteq Authors
    /\ Heavy \subseteq Authors
  BY GovernanceAssumption

(* An event may move its author's date ahead, and nobody else's.                *)
LEMMA AuthoredMoves ==
    ASSUME GovTypeOK, NEW n \in Authors, NEW t, Authored(n, t)
    PROVE  /\ t \in 0..day /\ day' = day /\ proposal' = proposal
           /\ latest' \in [Authors -> 0..day]
           /\ \A m \in Authors : latest[m] <= latest'[m]
<1>1. t \in 0..day /\ latest[n] \in 0..day /\ day \in Nat
  BY DatesTyped, GovernanceAssumption DEF Authored, GovTypeOK
<1> DEFINE u == Max({latest[n], t})
<1>2. u \in {latest[n], t} /\ latest[n] <= u
  <2> DEFINE a == latest[n]
  <2>1. a \in Int /\ t \in Int
    BY <1>1
  <2> HIDE DEF a
  <2>2. Max({a, t}) \in {a, t} /\ Max({a, t}) >= a
    BY <2>1, LaterOf
  <2>3. Max({a, t}) \in Int /\ a <= Max({a, t})
    BY <2>1, <2>2
  <2> QED  BY <2>2, <2>3 DEF a
<1>3. latest' = [latest EXCEPT ![n] = u] /\ day' = day /\ proposal' = proposal
  BY DEF Authored
<1> HIDE DEF u
<1> QED  BY <1>1, <1>2, <1>3 DEF GovTypeOK

LEMMA TypesKept == GovTypeOK /\ [GovNext]_govVars => GovTypeOK'
<1> SUFFICES ASSUME GovTypeOK, [GovNext]_govVars PROVE GovTypeOK'
  OBVIOUS
<1>1. CASE NextDay
  <2>1. day \in Nat /\ day' = day + 1 /\ day' \in 0..LastDay /\ 0..day \subseteq 0..day'
    BY <1>1, GovernanceAssumption DEF GovTypeOK, NextDay
  <2> QED  BY <1>1, <2>1 DEF GovTypeOK, NextDay
<1>2. ASSUME NEW n \in Who["other"], NEW t, Other(n, t) PROVE GovTypeOK'
  BY <1>2, RolesAreAuthors, AuthoredMoves DEF Other, GovTypeOK
<1>3. ASSUME NEW n \in Who["sign"], NEW t, Sign(n, t) PROVE GovTypeOK'
  BY <1>3, RolesAreAuthors, AuthoredMoves DEF Sign, About, GovTypeOK
<1>4. ASSUME NEW n \in Who["vote"], NEW t, Vote(n, t) PROVE GovTypeOK'
  BY <1>4, RolesAreAuthors, AuthoredMoves DEF Vote, Cast, About, GovTypeOK
<1>5. ASSUME NEW n \in Who["judge"], NEW t, Challenge(n, t) PROVE GovTypeOK'
  BY <1>5, RolesAreAuthors, AuthoredMoves DEF Challenge, About, GovTypeOK
<1>6. ASSUME NEW n \in Who["judge"], NEW t, Rule(n, t) PROVE GovTypeOK'
  BY <1>6, RolesAreAuthors, AuthoredMoves DEF Rule, Cast, About, GovTypeOK
<1>7. ASSUME NEW n \in Who["judge"], NEW t, Enact(n, t) PROVE GovTypeOK'
  BY <1>7, RolesAreAuthors, AuthoredMoves DEF Enact, About, GovTypeOK
<1>8. ASSUME NEW n \in Heavy, NEW t, SignalReady(n, t) PROVE GovTypeOK'
  BY <1>8, RolesAreAuthors, AuthoredMoves DEF SignalReady, About, GovTypeOK
<1>9. CASE UNCHANGED govVars
  BY <1>9 DEF govVars, GovTypeOK
<1> QED  BY <1>1, <1>2, <1>3, <1>4, <1>5, <1>6, <1>7, <1>8, <1>9 DEF GovNext

(* The variables have their types: no event is dated ahead of the clock, and    *)
(* every date is a day (the freshness window of ingest_events).                 *)
THEOREM GovTypeCorrect == GovSpec => []GovTypeOK
  BY StartTyped, TypesKept, PTL DEF GovSpec

--------------------------------------------------------------------------------
(* Weights and ballots.                                                         *)

(* Weights add up to a number.                                                *)
LEMMA WeightTyped ==
    ASSUME NEW S \in SUBSET Authors
    PROVE  TotalWeight(S) \in Nat
<1>1. IsFiniteSet(S)
  BY GovernanceAssumption, FS_Subset
<1> DEFINE part == [n \in S |-> {n} \X (1..Weight[n])]
           parts == {{n} \X (1..Weight[n]) : n \in S}
<1>2. part \in Surjection(S, parts)
  BY DEF Surjection
<1>3. IsFiniteSet(parts)
  BY <1>1, <1>2, FS_Surjection
<1>4. ASSUME NEW T \in parts PROVE IsFiniteSet(T)
  <2>1. PICK n \in S : T = {n} \X (1..Weight[n])
    OBVIOUS
  <2>2. Weight[n] \in Int
    BY GovernanceAssumption
  <2> DEFINE one == {n}
             many == 1..Weight[n]
  <2>3. IsFiniteSet(one)
    BY FS_Singleton
  <2>4. IsFiniteSet(many)
    BY <2>2, FS_Interval
  <2>5. T = one \X many
    BY <2>1
  <2> HIDE DEF one, many
  <2> QED  BY <2>3, <2>4, <2>5, FS_Product
<1>5. IsFiniteSet(UNION parts)
  BY <1>3, <1>4, FS_UNION
<1>6. Cardinality(UNION parts) \in Nat
  BY <1>5, FS_CardinalityType
<1> QED  BY <1>6 DEF TotalWeight

(* Nobody has no weight.                                                      *)
LEMMA NobodysWeight == TotalWeight({}) = 0
<1>1. UNION {{n} \X (1..Weight[n]) : n \in {}} = {}
  OBVIOUS
<1> QED  BY <1>1, FS_EmptySet DEF TotalWeight

(* Ballots dated after the last day are not counted.                            *)
LEMMA LateBallots ==
    ASSUME NEW B, NEW C, B \subseteq C, NEW from \in Int, NEW until \in Int,
           \A b \in C : b.at \in Int, \A b \in C \ B : b.at > until
    PROVE  Counted(C, from, until) = Counted(B, from, until)
<1> DEFINE valid(X) == {b \in X : from <= b.at /\ b.at <= until}
<1>1. valid(C) = valid(B)
  OBVIOUS
<1> QED  BY <1>1 DEF Counted

(* A proposal that is seconded has a day on which its vote starts, the day of   *)
(* one of its signatures.                                                       *)
LEMMA SecondedStarts ==
    ASSUME GovTypeOK, Seconded
    PROVE  VoteStart \in 0..day /\ \E s \in signs : s.at = VoteStart
<1>1. day \in Nat
  BY GovernanceAssumption DEF GovTypeOK
<1>2. InTime # {}
  <2> SUFFICES ASSUME InTime = {} PROVE FALSE
    OBVIOUS
  <2>1. {s.node : s \in InTime} = {}
    OBVIOUS
  <2> QED  BY <2>1, NobodysWeight DEF Seconded
<1>3. PICK s \in signs : s.node \in Signers
  BY <1>2 DEF InTime, Signers
<1> DEFINE S == {x.at : x \in {y \in signs : y.node \in Signers}}
<1>4. S \in SUBSET (0..day) /\ S # {}
  BY <1>3 DEF GovTypeOK
<1>5. Max(S) \in S
  BY <1>1, <1>4, LatestDate
<1> QED  BY <1>4, <1>5 DEF VoteStart

(* The windows are days, the proposals of the two kinds.                      *)
LEMMA WindowsTyped ==
    /\ {SignWindow, VoteWindow, ChallengeWindow, ActivationWindow} \subseteq Nat
    /\ Proposals \subseteq {"petition", "upgrade"}
  BY GovernanceAssumption

--------------------------------------------------------------------------------
(* Decisions.                                                                   *)

Decided == {"failed_signatures", "failed_vote", "voided_challenge", "passed", "executed",
            "activation", "activated", "failed_activation"}

(* Past every window the status is one of the decided ones.                   *)
LEMMA DecidedOnTime == GovTypeOK => DecidedInTime
<1> SUFFICES ASSUME GovTypeOK PROVE DecidedInTime
  OBVIOUS
<1>1. day \in Nat /\ MajorityTime \in 0..day
  BY MajorityIsMedian, GovernanceAssumption DEF GovTypeOK
<1> DEFINE ends == {SignWindow} \cup {s.at + VoteWindow + ChallengeWindow : s \in signs}
           last == Max(ends)
<1>2. ends \in SUBSET (0 .. day + SignWindow + VoteWindow + ChallengeWindow) /\ ends # {}
  BY <1>1, WindowsTyped DEF GovTypeOK
<1>3. last \in Nat /\ \A x \in ends : x <= last
  <2> DEFINE bound == day + SignWindow + VoteWindow + ChallengeWindow
  <2>1. bound \in Nat
    BY <1>1, WindowsTyped
  <2>2. ends \in SUBSET (0..bound) /\ ends # {}
    BY <1>2
  <2> HIDE DEF bound, ends
  <2> DEFINE m == Max(ends)
  <2>3. m \in ends /\ \A x \in ends : x <= m
    BY <2>1, <2>2, LatestDate
  <2> HIDE DEF m
  <2>4. m \in 0..bound
    BY <2>2, <2>3
  <2>5. m \in Nat
    BY <2>1, <2>4
  <2> QED  BY <2>3, <2>5 DEF m
<1>4. SignWindow <= last
  BY <1>3
<1>5. Seconded => VoteEnd \in Nat /\ ChallengeEnd \in Nat /\ ChallengeEnd <= last
                   /\ VoteEnd <= ChallengeEnd
  <2> SUFFICES ASSUME Seconded
               PROVE  VoteEnd \in Nat /\ ChallengeEnd \in Nat /\ ChallengeEnd <= last
                       /\ VoteEnd <= ChallengeEnd
    OBVIOUS
  <2>1. PICK s \in signs : s.at = VoteStart
    BY SecondedStarts
  <2>2. ChallengeEnd \in ends
    BY <2>1 DEF ChallengeEnd, VoteEnd
  <2> QED  BY <1>1, <1>3, <2>2, SecondedStarts, WindowsTyped DEF ChallengeEnd, VoteEnd
<1> HIDE DEF ends, last
<1>6. ASSUME MajorityTime > last PROVE Status \in Decided
  <2>1. CASE ~Seconded
    <3>1. MajorityTime > SignWindow
      BY <1>1, <1>3, <1>4, <1>6, WindowsTyped
    <3> QED  BY <2>1, <3>1 DEF Status, Decided
  <2>2. CASE Seconded
    <3>1. ~(MajorityTime <= VoteEnd) /\ ~(MajorityTime <= ChallengeEnd)
      BY <1>1, <1>3, <1>5, <1>6, <2>2
    <3>2. Enactment \in Decided
      BY DEF Enactment, Decided
    <3> QED  BY <2>2, <3>1, <3>2 DEF Status, Decided
  <2> QED  BY <2>1, <2>2
<1> QED  BY <1>6 DEF DecidedInTime, Decided, last, ends

(* A proposal does not stay open: once the majority time is past the signature  *)
(* window and the windows after the last signature it is decided, for any       *)
(* lateness of the events (compute_petition_state, compute_upgrade_state).      *)
THEOREM ProposalsAreDecided == GovSpec => []DecidedInTime
  BY GovTypeCorrect, DecidedOnTime, PTL

--------------------------------------------------------------------------------
(* Forward steps.                                                               *)

(* What a timely step may do to what a status is worked out from.               *)
Forward ==
    /\ proposal' = proposal /\ signs' = signs
    /\ MajorityTime <= MajorityTime'
    /\ votes \subseteq votes' /\ \A b \in votes' \ votes : b.at >= MajorityTime
    /\ rulings \subseteq rulings' /\ \A b \in rulings' \ rulings : b.at >= MajorityTime
    /\ objected # {} => objected' = objected
    /\ \A filed \in objected' \ objected : filed >= MajorityTime
    /\ enacted => enacted'

(* A step takes nothing back: dates advance, ballots are added.               *)
LEMMA DatesAdvance ==
    ASSUME GovTypeOK, [GovNext]_govVars
    PROVE  /\ proposal' = proposal /\ \A n \in Authors : latest[n] <= latest'[n]
           /\ votes \subseteq votes' /\ rulings \subseteq rulings'
           /\ objected # {} => objected' = objected
           /\ enacted => enacted'
<1> DEFINE Goal == /\ proposal' = proposal /\ \A n \in Authors : latest[n] <= latest'[n]
                   /\ votes \subseteq votes' /\ rulings \subseteq rulings'
                   /\ objected # {} => objected' = objected
                   /\ enacted => enacted'
<1>0. latest' = latest => \A n \in Authors : latest[n] <= latest'[n]
  BY DEF GovTypeOK
<1>1. CASE NextDay
  BY <1>0, <1>1 DEF NextDay
<1>2. ASSUME NEW n \in Who["other"], NEW t, Other(n, t) PROVE Goal
  BY <1>2, RolesAreAuthors, AuthoredMoves DEF Other
<1>3. ASSUME NEW n \in Who["sign"], NEW t, Sign(n, t) PROVE Goal
  BY <1>3, RolesAreAuthors, AuthoredMoves DEF Sign, About
<1>4. ASSUME NEW n \in Who["vote"], NEW t, Vote(n, t) PROVE Goal
  BY <1>4, RolesAreAuthors, AuthoredMoves DEF Vote, Cast, About
<1>5. ASSUME NEW n \in Who["judge"], NEW t, Challenge(n, t) PROVE Goal
  BY <1>5, RolesAreAuthors, AuthoredMoves DEF Challenge, About
<1>6. ASSUME NEW n \in Who["judge"], NEW t, Rule(n, t) PROVE Goal
  BY <1>6, RolesAreAuthors, AuthoredMoves DEF Rule, Cast, About
<1>7. ASSUME NEW n \in Who["judge"], NEW t, Enact(n, t) PROVE Goal
  BY <1>7, RolesAreAuthors, AuthoredMoves DEF Enact, About
<1>8. ASSUME NEW n \in Heavy, NEW t, SignalReady(n, t) PROVE Goal
  BY <1>8, RolesAreAuthors, AuthoredMoves DEF SignalReady, About
<1>9. CASE UNCHANGED govVars
  BY <1>0, <1>9 DEF govVars
<1> QED  BY <1>1, <1>2, <1>3, <1>4, <1>5, <1>6, <1>7, <1>8, <1>9 DEF GovNext

(* No step takes the majority time back.                                        *)
LEMMA MajorityAdvances ==
    ASSUME GovTypeOK, GovTypeOK', [GovNext]_govVars
    PROVE  MajorityTime <= MajorityTime'
<1>1. /\ day \in Nat /\ day' \in Nat
      /\ latest \in [Authors -> 0..day] /\ latest' \in [Authors -> 0..day']
      /\ latest \in [Authors -> Nat] /\ latest' \in [Authors -> Nat]
  BY GovernanceAssumption DEF GovTypeOK
<1>2. IsMedian(latest, MajorityTime)
  BY <1>1, MajorityIsMedian
<1>3. IsMedian(latest', MajorityTime')
  <2>1. PICK t \in 0..day' : IsMedian(latest', t)
    BY <1>1, MedianExists
  <2> QED  BY <2>1 DEF MajorityTime, IsMedian, Later, NotSooner
<1>4. \A n \in Authors : latest[n] <= latest'[n]
  BY DatesAdvance
<1> DEFINE t == MajorityTime
           u == MajorityTime'
<1>5. IsMedian(latest, t) /\ IsMedian(latest', u)
  BY <1>2, <1>3
<1> HIDE DEF t, u
<1>6. t <= u
  BY <1>1, <1>4, <1>5, MedianAdvances
<1> QED  BY <1>6 DEF t, u

(* A step without signatures and late events is one forward.                  *)
LEMMA TimelyIsForward ==
    ASSUME GovTypeOK, GovTypeOK', [GovNext]_govVars, Timely
    PROVE  Forward
  BY MajorityAdvances, DatesAdvance DEF Forward, Timely

(* Once the vote is over, and no signature comes, its result stands.            *)
LEMMA ResultStands ==
    ASSUME GovTypeOK, GovTypeOK', Forward, Seconded, MajorityTime > VoteEnd
    PROVE  Carried' <=> Carried
<1>1. /\ VoteStart' = VoteStart /\ VoteEnd' = VoteEnd
  BY DEF Forward, VoteEnd, VoteStart, Signers, InTime
<1>2. VoteStart \in Nat /\ VoteEnd \in Nat /\ day \in Nat
  <2>1. day \in Nat
    BY GovernanceAssumption DEF GovTypeOK
  <2> QED  BY <2>1, SecondedStarts, WindowsTyped DEF VoteEnd
<1>3. MajorityTime \in Nat
  BY MajorityIsMedian, <1>2 DEF GovTypeOK
<1>4. \A b \in votes' : b.at \in Nat
  <2>1. day' \in Nat
    BY GovernanceAssumption DEF GovTypeOK
  <2> QED  BY <2>1 DEF GovTypeOK
<1>5. \A b \in votes' \ votes : b.at > VoteEnd
  BY <1>2, <1>3, <1>4 DEF Forward
<1>6. Counted(votes', VoteStart, VoteEnd) = Counted(votes, VoteStart, VoteEnd)
  <2> DEFINE from == VoteStart
             until == VoteEnd
             B == votes
             C == votes'
  <2>1. /\ from \in Int /\ until \in Int /\ B \subseteq C
        /\ \A b \in C : b.at \in Int
        /\ \A b \in C \ B : b.at > until
    BY <1>2, <1>4, <1>5 DEF Forward
  <2> HIDE DEF from, until, B, C
  <2>2. Counted(C, from, until) = Counted(B, from, until)
    BY <2>1, LateBallots
  <2> QED  BY <2>2 DEF from, until, B, C
<1>7. proposal' = proposal
  BY DEF Forward
<1> DEFINE Tally(ballots) ==
             LET in_favour == Behind("for", ballots)
                 cast == in_favour + Behind("against", ballots)
             IN  /\ cast > 0
                 /\ Reaches(cast, QuorumPercent[proposal], TotalWeight(Authors))
                 /\ Reaches(in_favour, SupermajorityPercent[proposal], cast)
<1>8. Carried <=> Tally(Counted(votes, VoteStart, VoteEnd))
  BY DEF Carried
<1>9. Carried' <=> Tally(Counted(votes', VoteStart, VoteEnd))
  BY <1>1, <1>7 DEF Carried, QuorumPercent, SupermajorityPercent
<1> QED  BY <1>6, <1>8, <1>9

(* A challenge's verdict, too, stands once its window is over ...               *)
LEMMA RulingStands ==
    ASSUME GovTypeOK, GovTypeOK', Forward, NEW from \in Int, NEW until \in Int,
           MajorityTime > until
    PROVE  Counted(rulings', from, until) = Counted(rulings, from, until)
<1>1. day \in Nat /\ day' \in Nat
  BY GovernanceAssumption DEF GovTypeOK
<1>2. MajorityTime \in Nat
  BY MajorityIsMedian, <1>1 DEF GovTypeOK
<1> DEFINE B == rulings
           C == rulings'
<1>3. /\ B \subseteq C
      /\ \A b \in C : b.at \in Int
      /\ \A b \in C \ B : b.at > until
  <2>1. \A b \in C : b.at \in Int
    BY <1>1 DEF GovTypeOK
  <2> QED  BY <1>2, <2>1 DEF Forward
<1> HIDE DEF B, C
<1>4. Counted(C, from, until) = Counted(B, from, until)
  BY <1>3, LateBallots
<1> QED  BY <1>4 DEF B, C

(* The majority time after a step is a day.                                   *)
LEMMA LatestTimeTyped == GovTypeOK' => MajorityTime' \in Nat
<1> SUFFICES ASSUME GovTypeOK' PROVE MajorityTime' \in Nat
  OBVIOUS
<1>1. day' \in Nat /\ latest' \in [Authors -> 0..day']
  BY GovernanceAssumption DEF GovTypeOK
<1>2. PICK t \in 0..day' : IsMedian(latest', t)
  BY <1>1, MedianExists
<1>3. MajorityTime' \in {latest'[n] : n \in Authors}
  BY <1>2 DEF MajorityTime, IsMedian, Later, NotSooner
<1> QED  BY <1>1, <1>3

(* Without a signature the windows stay where they are.                       *)
LEMMA WindowsStand ==
    ASSUME GovTypeOK, Forward, Seconded
    PROVE  /\ Seconded'
           /\ VoteEnd' = VoteEnd /\ ChallengeEnd' = ChallengeEnd
           /\ VoteEnd \in Nat /\ ChallengeEnd \in Nat /\ VoteEnd <= ChallengeEnd
           /\ \A filed : RulingEnd(filed)' = RulingEnd(filed)
           /\ \A filed \in 0..day : RulingEnd(filed) \in Int
<1>1. day \in Nat
  BY GovernanceAssumption DEF GovTypeOK
<1>2. Seconded' /\ VoteEnd' = VoteEnd /\ ChallengeEnd' = ChallengeEnd
  BY DEF Forward, Seconded, InTime, ChallengeEnd, VoteEnd, VoteStart, Signers
<1>3. VoteEnd \in Nat /\ ChallengeEnd \in Nat /\ VoteEnd <= ChallengeEnd
  BY <1>1, SecondedStarts, WindowsTyped DEF VoteEnd, ChallengeEnd
<1>4. \A filed : RulingEnd(filed)' = RulingEnd(filed)
  BY <1>2 DEF RulingEnd, Forward
<1>5. \A filed \in 0..day : RulingEnd(filed) \in Int
  BY <1>1, <1>3, WindowsTyped DEF RulingEnd
<1> QED  BY <1>2, <1>3, <1>4, <1>5

(* A challenge that was upheld stays upheld.                                  *)
LEMMA VoidStands ==
    ASSUME GovTypeOK, GovTypeOK', Forward, Seconded, Voided
    PROVE  Voided'
<1>0. /\ day \in Nat /\ MajorityTime \in Nat /\ MajorityTime' \in Nat
  <2>1. day \in Nat /\ day' \in Nat
    BY GovernanceAssumption DEF GovTypeOK
  <2>2. MajorityTime \in Nat
    BY MajorityIsMedian, <2>1 DEF GovTypeOK
  <2>3. MajorityTime' \in Nat
    BY LatestTimeTyped
  <2> QED  BY <2>1, <2>2, <2>3
<1>1. PICK filed \in objected :
        /\ MajorityTime > RulingEnd(filed)
        /\ Behind("uphold", Counted(rulings, filed, RulingEnd(filed)))
             > Behind("void", Counted(rulings, filed, RulingEnd(filed)))
  BY DEF Voided
<1>2. objected' = objected /\ filed \in 0..day /\ filed \in Int
  BY <1>0, <1>1 DEF Forward, GovTypeOK
<1>3. RulingEnd(filed) \in Int /\ RulingEnd(filed)' = RulingEnd(filed)
  BY <1>2, WindowsStand
<1>4. Counted(rulings', filed, RulingEnd(filed)) = Counted(rulings, filed, RulingEnd(filed))
  <2> DEFINE until == RulingEnd(filed)
  <2>1. until \in Int /\ MajorityTime > until
    BY <1>1, <1>3
  <2> HIDE DEF until
  <2> QED  BY <1>2, <2>1, RulingStands DEF until
<1>5. MajorityTime' > RulingEnd(filed)
  BY <1>0, <1>1, <1>3 DEF Forward
<1> QED  BY <1>1, <1>2, <1>3, <1>4, <1>5 DEF Voided

(* ... and none is filed that could still void an upgrade after that.           *)
LEMMA NoLateVoid ==
    ASSUME GovTypeOK, GovTypeOK', Forward, Seconded, proposal = "upgrade",
           ~Voided, MajorityTime > ChallengeEnd
    PROVE  ~Voided'
<1> SUFFICES ASSUME Voided' PROVE FALSE
  OBVIOUS
<1>0. /\ day \in Nat /\ day' \in Nat /\ MajorityTime \in Nat
  <2>1. day \in Nat /\ day' \in Nat
    BY GovernanceAssumption DEF GovTypeOK
  <2> QED  BY MajorityIsMedian, <2>1 DEF GovTypeOK
<1>1. ChallengeEnd \in Int /\ \A filed : RulingEnd(filed) = ChallengeEnd
                           /\ RulingEnd(filed)' = ChallengeEnd
  BY WindowsStand DEF RulingEnd
<1>2. PICK filed \in objected' :
        Behind("uphold", Counted(rulings', filed, ChallengeEnd))
          > Behind("void", Counted(rulings', filed, ChallengeEnd))
  BY <1>1 DEF Voided
<1>3. filed \in Int
  BY <1>0 DEF GovTypeOK
<1>4. CASE filed \in objected
  <2> DEFINE until == ChallengeEnd
  <2>1. until \in Int /\ MajorityTime > until
    BY <1>1
  <2> HIDE DEF until
  <2>2. Counted(rulings', filed, until) = Counted(rulings, filed, until)
    BY <1>3, <2>1, RulingStands
  <2> QED  BY <1>1, <1>2, <1>4, <2>2 DEF Voided, until
<1>5. CASE filed \notin objected
  <2>1. filed >= MajorityTime
    BY <1>5 DEF Forward
  <2>2. \A b \in rulings' : b.at \in Int
    BY <1>0 DEF GovTypeOK
  <2>3. Counted(rulings', filed, ChallengeEnd) = {}
    BY <1>0, <1>1, <1>3, <2>1, <2>2 DEF Counted
  <2>4. Behind("uphold", {}) = 0 /\ Behind("void", {}) = 0
    <3>1. {b.node : b \in {x \in {} : x.vote = "uphold"}} = {}
          /\ {b.node : b \in {x \in {} : x.vote = "void"}} = {}
      OBVIOUS
    <3> QED  BY <3>1, NobodysWeight DEF Behind
  <2> QED  BY <1>2, <2>3, <2>4
<1> QED  BY <1>4, <1>5

(* A step forward takes no decision back.                                     *)
LEMMA ForwardKeepsDecisions ==
    ASSUME GovTypeOK, GovTypeOK', Forward
    PROVE  LET was == Status  is == Status' IN
           /\ was \in {"failed_signatures", "failed_vote", "voided_challenge", "activated"}
                 => is = was
           /\ was \in {"challenge", "passed", "executed", "activation", "failed_activation"}
                 => is \notin {"signatures", "failed_signatures", "voting", "failed_vote"}
           /\ was = "voting" => is \notin {"signatures", "failed_signatures"}
           /\ was = "executed" => is \in {"executed", "voided_challenge"}
<1> DEFINE t == MajorityTime
           u == MajorityTime'
<1>1. t \in Nat /\ u \in Nat /\ t <= u
  <2>1. day \in Nat
    BY GovernanceAssumption DEF GovTypeOK
  <2>2. t \in Nat
    BY MajorityIsMedian, <2>1 DEF GovTypeOK
  <2>3. u \in Nat
    BY LatestTimeTyped
  <2> QED  BY <2>2, <2>3 DEF Forward
<1>2. SignWindow \in Nat /\ proposal' = proposal /\ proposal \in {"petition", "upgrade"}
      /\ (enacted => enacted')
  BY WindowsTyped DEF Forward, GovTypeOK
<1> HIDE DEF t, u
<1>3. CASE ~Seconded
  <2>1. ~Seconded'
    BY <1>3 DEF Forward, Seconded, InTime
  <2>2. Status = IF t > SignWindow THEN "failed_signatures" ELSE "signatures"
    BY <1>3 DEF Status, t
  <2>3. Status' = IF u > SignWindow THEN "failed_signatures" ELSE "signatures"
    BY <2>1 DEF Status, u
  <2> QED  BY <1>1, <1>2, <2>2, <2>3
<1>4. CASE Seconded
  <2> DEFINE v == VoteEnd
             c == ChallengeEnd
             Outcome(time, carried, voided, last) ==
               IF time <= v THEN "voting" ELSE IF ~carried THEN "failed_vote"
               ELSE IF voided THEN "voided_challenge"
               ELSE IF time <= c THEN "challenge" ELSE last
  <2>1. v \in Nat /\ c \in Nat /\ v <= c /\ Seconded' /\ VoteEnd' = v /\ ChallengeEnd' = c
    BY <1>4, WindowsStand
  <2>2. Status = Outcome(t, Carried, Voided, Enactment)
    BY <1>4 DEF Status, t
  <2>3. Status' = Outcome(u, Carried', Voided', Enactment')
    BY <2>1 DEF Status, u
  <2>4. t > v => (Carried' <=> Carried)
    BY <1>4, ResultStands DEF t
  <2>5. Voided => Voided'
    BY <1>4, VoidStands
  <2>6. proposal = "upgrade" /\ ~Voided /\ t > c => ~Voided'
    BY <1>4, NoLateVoid DEF t
  <2>7. /\ proposal = "petition" => Enactment' \in {"executed", "passed"}
        /\ proposal = "petition" /\ enacted => Enactment' = "executed"
        /\ proposal = "upgrade" =>
             Enactment' \in {"activated", "failed_activation", "activation"}
        /\ proposal = "upgrade" /\ enacted => Enactment' = "activated"
    BY <1>2 DEF Enactment
  <2>8. /\ Enactment \in {"executed", "passed", "activated", "failed_activation", "activation"}
        /\ Enactment = "executed" => proposal = "petition" /\ enacted
        /\ Enactment = "activated" => proposal = "upgrade" /\ enacted
    BY <1>2 DEF Enactment
  <2> HIDE DEF v, c
  <2>9. CASE t <= v
    BY <1>1, <1>2, <2>1, <2>2, <2>3, <2>7, <2>9
  <2>10. CASE ~(t <= v)
    <3>1. ~(u <= v) /\ (Carried' <=> Carried) /\ (u <= c => t <= c)
      BY <1>1, <2>1, <2>4, <2>10
    <3>2. CASE ~Carried
      BY <2>2, <2>3, <2>10, <3>1, <3>2
    <3>3. CASE Carried /\ Voided
      BY <2>2, <2>3, <2>5, <2>10, <3>1, <3>3
    <3>4. CASE Carried /\ ~Voided /\ t <= c
      BY <1>2, <2>2, <2>3, <2>7, <2>10, <3>1, <3>4
    <3>5. CASE Carried /\ ~Voided /\ ~(t <= c)
      <4>1. Status = Enactment
        BY <2>2, <2>10, <3>5
      <4>2. Status' = IF Voided' THEN "voided_challenge" ELSE Enactment'
        BY <2>3, <3>1, <3>5
      <4>3. proposal = "upgrade" => ~Voided'
        BY <1>1, <2>1, <2>6, <3>5
      <4> QED  BY <1>2, <2>7, <2>8, <4>1, <4>2, <4>3
    <3> QED  BY <3>2, <3>3, <3>4, <3>5
  <2> QED  BY <2>9, <2>10
<1> QED  BY <1>3, <1>4

(* Nothing but a signature or a late event takes a decision back: the tally may *)
(* be made anew at every look, since what arrives in time is dated too late to  *)
(* count in what is closed (compute_petition_state, compute_upgrade_state).     *)
THEOREM DecisionsStand == GovSpec => OnlyForward
<1> DEFINE Step ==
      Timely =>
        LET was == Status  is == Status' IN
        /\ was \in {"failed_signatures", "failed_vote", "voided_challenge", "activated"}
              => is = was
        /\ was \in {"challenge", "passed", "executed", "activation", "failed_activation"}
              => is \notin {"signatures", "failed_signatures", "voting", "failed_vote"}
        /\ was = "voting" => is \notin {"signatures", "failed_signatures"}
        /\ was = "executed" => is \in {"executed", "voided_challenge"}
<1>1. GovTypeOK /\ GovTypeOK' /\ [GovNext]_govVars => Step
  BY TimelyIsForward, ForwardKeepsDecisions
<1>2. GovTypeOK /\ GovTypeOK' /\ [GovNext]_govVars => [Step]_govVars
  BY <1>1
<1>3. GovSpec => [][Step]_govVars
  BY <1>2, GovTypeCorrect, PTL DEF GovSpec
<1> QED  BY <1>3 DEF OnlyForward

--------------------------------------------------------------------------------
(* The clock.                                                                   *)

(* No node's clock, and no few nodes' clocks, trigger or delay a transition     *)
(* alone: the majority time lies among the dates of any nodes that are more     *)
(* than half of the sample, for any number of nodes (chain_majority_time).      *)
THEOREM ClockIsShared == GovSpec => []TimeIsShared
<1>1. GovTypeOK => TimeIsShared
  <2> SUFFICES ASSUME GovTypeOK PROVE TimeIsShared
    OBVIOUS
  <2>1. day \in Nat /\ latest \in [Authors -> 0..day] /\ latest \in [Authors -> Nat]
    BY GovernanceAssumption DEF GovTypeOK
  <2>2. IsMedian(latest, MajorityTime)
    BY <2>1, MajorityIsMedian
  <2> QED  BY <2>1, <2>2, MedianIsShared DEF TimeIsShared
<1> QED  BY <1>1, GovTypeCorrect, PTL

(* The majority time never goes back, for events of any lateness and order      *)
(* (chain_majority_time takes each node's latest date).                         *)
THEOREM ClockAdvances == GovSpec => TimeAdvances
<1>1. GovTypeOK /\ GovTypeOK' /\ [GovNext]_govVars => MajorityTime' >= MajorityTime
  <2> SUFFICES ASSUME GovTypeOK, GovTypeOK', [GovNext]_govVars
               PROVE  MajorityTime' >= MajorityTime
    OBVIOUS
  <2> DEFINE t == MajorityTime
             u == MajorityTime'
  <2>1. t <= u
    BY MajorityAdvances
  <2> HIDE DEF t, u
  <2>2. u >= t
    BY <2>1
  <2> QED  BY <2>2 DEF t, u
<1>2. GovTypeOK /\ GovTypeOK' /\ [GovNext]_govVars => [MajorityTime' >= MajorityTime]_govVars
  BY <1>1
<1>3. GovSpec => [][MajorityTime' >= MajorityTime]_govVars
  BY <1>2, GovTypeCorrect, PTL DEF GovSpec
<1> QED  BY <1>3 DEF TimeAdvances
================================================================================
