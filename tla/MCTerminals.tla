----------------------------- MODULE MCTerminals -----------------------------
(* Small instances of the terminal registry for TLC.                       *)
EXTENDS Terminals, TLC

MCSymmetry == Permutations(Session) \cup Permutations(Relay)
=============================================================================
