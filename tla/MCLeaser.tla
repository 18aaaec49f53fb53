------------------------------ MODULE MCLeaser ------------------------------
(* Small instances of the leader election for TLC.                         *)
EXTENDS Leaser, TLC

CONSTANTS b1, b2, b3

MCSkewNone == [b \in Broker |-> 0]
MCSkewOne == (b1 :> 0) @@ (b2 :> 1)

MCSymmetry == Permutations(Broker)
=============================================================================
