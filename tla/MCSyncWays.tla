------------------------------- MODULE MCSyncWays -------------------------------
(* Followers and rounds, and a proposal, each by itself, in one run: "active"   *)
(* says whether nodes pull from one another, reconcile over RNS, or a proposal  *)
(* runs its course; the rest stays as it began.                                 *)
EXTENDS MCLedgerSync, RnsSync, Governance

VARIABLE active

waysVars == <<active, rnsVars, govVars>>

WaysInit ==
    /\ active \in {"pull", "rns", "governance"}
    /\ IF active = "rns" THEN RnsInit ELSE SyncInit /\ RoundsInit
    /\ GovInit /\ (active # "governance" => proposal = "petition")

WaysNext ==
    /\ active' = active
    /\ \/ active = "pull" /\ SyncNext /\ UNCHANGED <<roundVars, govVars>>
       \/ active = "rns" /\ RnsNext /\ UNCHANGED govVars
       \/ active = "governance" /\ GovNext /\ UNCHANGED rnsVars

(* SyncFairness and RnsFairness, of the behaviours that are theirs.             *)
WaysFairness ==
    /\ \A n \in Nodes :
          /\ WF_syncVars(active = "pull" /\ Begin(n))
          /\ WF_syncVars(active = "pull" /\ PullStep(n))
          /\ \A m \in Nodes : WF_syncVars(active = "pull" /\ CoolDown(n, m))
          /\ WF_rnsVars(active = "rns" /\ RnsBegin(n))
    /\ WF_rnsVars(active = "rns" /\ \E x \in net : RnsStep(x))

WaysSpec == WaysInit /\ [][WaysNext]_waysVars /\ WaysFairness

(* Pulls by themselves bring every follower of the writer to its chain, whatever*)
(* pushes bring in between (LedgerSync.CatchesUp).                              *)
PullsCatchUp == active = "pull" => CatchesUp

(* One node asks the two others, and one of these appends gate messages too.    *)
Appends == {<<"w", "public">>, <<"a", "public">>, <<"a", "private">>}
Star == ("w" :> {"a", "b"}) @@ ("a" :> {}) @@ ("b" :> {})

(* Of four authors one has half of the weight and two have a quarter each: the  *)
(* first backs the proposal, the second contests it, the third keeps the time.  *)
(* The fourth is silent, and so not among the three whose dates are sampled.    *)
Weights == ("p" :> 2) @@ ("q" :> 1) @@ ("r" :> 1) @@ ("s" :> 0)
Roles == [sign |-> {"p"}, vote |-> {"p", "q"}, judge |-> {"q"}, other |-> {"q", "r"}]
================================================================================
