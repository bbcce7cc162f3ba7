---------------------------- MODULE MCIncentives ----------------------------
(* The incentives on a small instance. *)
EXTENDS IncentivesHistory

CONSTANTS dai, eth, fake, u1, u2

MCAssetLists    == {<<dai, dai>>, <<fake, eth, dai>>}
MCEmissionLists == {<< <<dai, 3>>, <<eth, 2>> >>}

MCMoves == ({dai} \X {u1, u2} \X {0, 1}) \cup {<<eth, u1, 1>>}

=============================================================================
