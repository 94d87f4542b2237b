--------------------------- MODULE MCPrivateRelease ---------------------------
(* Instances of PrivateRelease for TLC. *)
EXTENDS PrivateRelease

CONSTANTS d1, d2, g1, g2, bob

\* Every message goes to the same peer, so a grant covers all of them.
OnePeer == [k \in {d1, d2, g1, g2} \cap Keys |-> bob]

At(tier, anon, hidden, direct, attested) ==
  [tier |-> tier, anon |-> anon, hidden |-> hidden, direct |-> direct,
   attested |-> attested]

\* A node with RNS: down, without a direct link, linked; anonymous mode is
\* turned on with and without its hidden transport.
AnonymousDay == {
  At(PrivateStrong, FALSE, FALSE, TRUE, TRUE),
  At(PrivateStrong, FALSE, TRUE, FALSE, TRUE),
  At(PrivateStrong, TRUE, FALSE, TRUE, TRUE),
  At(PrivateStrong, TRUE, TRUE, TRUE, TRUE)}

\* The direct link comes and goes, the hidden transport comes and goes.
RelayDay == {
  At(PrivateStrong, FALSE, FALSE, FALSE, TRUE),
  At(PrivateStrong, FALSE, TRUE, FALSE, TRUE),
  At(PrivateStrong, FALSE, FALSE, TRUE, TRUE)}

\* The tier falls below the floors, attestation lapses.
TierDay == {
  At(PublicDegraded, FALSE, FALSE, FALSE, TRUE),
  At(PrivateTransitional, FALSE, FALSE, FALSE, TRUE),
  At(PrivateStrong, FALSE, FALSE, TRUE, TRUE),
  At(PrivateStrong, FALSE, FALSE, TRUE, FALSE)}
===============================================================================
