------------------------------- MODULE MCDMRelay -------------------------------
(* Small instances of DMRelay: the sender's node a and the recipient's h. *)
EXTENDS DMRelay, TLC

CONSTANTS a, h, m1, m2, m3, s, pepper1, pepper2

TwoNodes == {a, h}
OneSender == [m \in Msgs |-> s]
AllFromA == [m \in Msgs |-> a]

(* m2 is deposited on the recipient's node by somebody logged in there. *)
OneAtHome == [m \in Msgs |-> IF m = m2 THEN h ELSE a]

NoFleet == a :> <<>> @@ h :> <<>>
ToHome == a :> <<h>> @@ h :> <<>>

(* Each node generates a pepper of its own. *)
OwnPepper == a :> pepper1 @@ h :> pepper2
===============================================================================
