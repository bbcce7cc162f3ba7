------------------------------ MODULE MCRewards ------------------------------
(* The history of the rewards on a small instance. *)
EXTENDS RewardHistory, TLC

UserSymmetry == Permutations(Users)

=============================================================================
